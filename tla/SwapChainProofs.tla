-------------------------- MODULE SwapChainProofs --------------------------
(***************************************************************************)
(* Proofs about SwapChain, for any number of slots and leases and any bound *)
(* on the number of frames.                                                 *)
(***************************************************************************)
EXTENDS SwapChain, FiniteSetTheorems, TLAPS

-----------------------------------------------------------------------------
(* Types                                                                   *)

LEMMA PolledType ==
  ASSUME ready_fence \in [Slots -> {"none", "pending", "signalled"}], NEW S
  PROVE  Polled(S) \in [Slots -> {"none", "pending", "signalled"}]
  BY DEF Polled

\* Pinning keeps the types of both lease variables.
LEMMA PinType ==
  ASSUME leases \in [Leases -> Slots \cup {NoSlot}],
         presentation_refs \in [Slots -> Nat],
         NEW h \in Leases, NEW s \in Slots \cup {NoSlot}, Pin(h, s)
  PROVE  /\ leases' \in [Leases -> Slots \cup {NoSlot}]
         /\ presentation_refs' \in [Slots -> Nat]
<1>1. leases' \in [Leases -> Slots \cup {NoSlot}]
  BY DEF Pin
<1>2. CASE s \in Slots
  BY <1>1, <1>2 DEF Pin
<1>3. CASE s \notin Slots
  <2>1. presentation_refs' = presentation_refs
    BY <1>3 DEF Pin
  <2> QED
    BY <1>1, <2>1
<1> QED
  BY <1>2, <1>3

LEMMA TypeOKInit == Init => TypeOK
<1> SUFFICES ASSUME Init PROVE TypeOK
  OBVIOUS
<1>1. N \in Slots /\ 0 \in Nat
  BY ChainAssumption DEF Slots
<1>2. /\ frame_serial \in [Slots -> Nat]
      /\ ready_fence \in [Slots -> {"none", "pending", "signalled"}]
      /\ presentation_refs \in [Slots -> Nat]
      /\ pixels \in [Slots -> Nat \cup {Torn}]
      /\ leases \in [Leases -> Slots \cup {NoSlot}]
  BY <1>1 DEF Init
<1>3. next_frame_serial \in Nat \ {0} /\ newest_read \in Nat
  BY DEF Init
<1> QED
  BY <1>1, <1>2, <1>3 DEF Init, TypeOK

LEMMA TypeOKNext == TypeOK /\ [Next]_vars => TypeOK'
<1> SUFFICES ASSUME TypeOK, [Next]_vars PROVE TypeOK'
  OBVIOUS
<1> USE DEF TypeOK, slotVars, chainVars, rasterVars, leaseVars
<1>1. CASE StartWriteStopped
  BY <1>1 DEF StartWriteStopped, NoSlot
<1>2. CASE StartWriteReuse
  BY <1>2 DEF StartWriteReuse, NoSlot
<1>3. CASE ScanNewestReady
  BY <1>3, PolledType DEF ScanNewestReady
<1>4. CASE ChooseWriteBuffer
  BY <1>4, PolledType DEF ChooseWriteBuffer
<1>5. CASE NoWriteBuffer
  BY <1>5 DEF NoWriteBuffer
<1>6. CASE WaitForFence
  BY <1>6 DEF WaitForFence
<1>7. CASE RefuseWrite
  BY <1>7 DEF RefuseWrite
<1>8. CASE FenceWaitFails
  BY <1>8 DEF FenceWaitFails
<1>9. ASSUME NEW damage \in FrameDamages, NEW fence \in {"none", "pending"},
             EndWrite(damage, fence)
      PROVE  TypeOK'
  <2>1. /\ frame_serial' \in [Slots -> Nat]
        /\ pixels' \in [Slots -> Nat \cup {Torn}]
        /\ ready_fence' \in [Slots -> {"none", "pending", "signalled"}]
    BY <1>9 DEF EndWrite
  <2>2. next_frame_serial' \in Nat \ {0}
    BY <1>9 DEF EndWrite
  <2> QED
    BY <1>9, <2>1, <2>2 DEF EndWrite
<1>10. CASE FindLatestPending
  BY <1>10 DEF FindLatestPending
<1>11. CASE LatestFrameReady
  BY <1>11, PolledType DEF LatestFrameReady
<1>12. ASSUME NEW h \in Leases, ReadLatest(h) PROVE TypeOK'
  BY <1>12, PolledType, PinType DEF ReadLatest
<1>13. ASSUME NEW h \in Leases, ReadOlder(h) PROVE TypeOK'
  BY <1>13, PolledType, PinType DEF ReadOlder, NoSlot
<1>14. ASSUME NEW h \in Leases, Release(h) PROVE TypeOK'
  BY <1>14 DEF Release
<1>15. ASSUME NEW h \in Leases, PollLease(h) PROVE TypeOK'
  BY <1>15, PolledType DEF PollLease
<1>16. ASSUME NEW h \in Leases, NEW g \in Leases, Retain(h, g) PROVE TypeOK'
  BY <1>16, PinType DEF Retain
<1>17. ASSUME NEW s \in Slots, Signal(s) PROVE TypeOK'
  BY <1>17 DEF Signal
<1>18. CASE RequestStop
  BY <1>18 DEF RequestStop
<1>19. CASE UNCHANGED vars
  BY <1>19 DEF vars
<1> QED
  BY <1>1, <1>2, <1>3, <1>4, <1>5, <1>6, <1>7, <1>8, <1>9, <1>10, <1>11, <1>12,
     <1>13, <1>14, <1>15, <1>16, <1>17, <1>18, <1>19
  DEF Next, StartWrite, Present, Read

\* Every variable keeps the type of its counterpart (TypeOK).
THEOREM TypeCorrect == Spec => []TypeOK
<1> QED
  BY TypeOKInit, TypeOKNext, PTL DEF Spec

-----------------------------------------------------------------------------
(* Counting leases                                                         *)

LeasesOn(s) == {h \in Leases : leases[h] = s}

LEMMA LeasesOnFinite == \A s : IsFiniteSet(LeasesOn(s)) /\ Cardinality(LeasesOn(s)) \in Nat
<1> TAKE s
<1>1. LeasesOn(s) \in SUBSET Leases
  BY DEF LeasesOn
<1> QED
  BY <1>1, ChainAssumption, FS_Subset, FS_CardinalityType

\* A slot some lease pins is presented.
LEMMA LeasedIsPresented ==
  ASSUME TypeOK, RefCountExact, NEW h \in Leases, leases[h] # NoSlot
  PROVE  leases[h] \in Slots /\ presentation_refs[leases[h]] > 0
<1>1. leases[h] \in Slots
  BY DEF TypeOK
<1>2. h \in LeasesOn(leases[h])
  BY DEF LeasesOn
<1>3. Cardinality(LeasesOn(leases[h])) # 0
  BY <1>2, LeasesOnFinite, FS_EmptySet
<1>4. presentation_refs[leases[h]] = Cardinality(LeasesOn(leases[h]))
  BY <1>1 DEF RefCountExact, LeasesOn
<1> QED
  BY <1>1, <1>3, <1>4, LeasesOnFinite

LEMMA PinCounts ==
  ASSUME TypeOK, RefCountExact, NEW h \in Leases, leases[h] = NoSlot,
         NEW s \in Slots, Pin(h, s)
  PROVE  RefCountExact'
<1> SUFFICES ASSUME NEW t \in Slots
             PROVE  presentation_refs'[t] = Cardinality(LeasesOn(t)')
  BY DEF RefCountExact, LeasesOn
<1>1. presentation_refs[t] = Cardinality(LeasesOn(t))
  BY DEF RefCountExact, LeasesOn
<1>2. CASE t = s
  <2>1. LeasesOn(t)' = LeasesOn(t) \cup {h}
    BY <1>2 DEF Pin, LeasesOn, TypeOK
  <2>2. h \notin LeasesOn(t)
    BY DEF LeasesOn, Slots, NoSlot
  <2>3. presentation_refs'[t] = presentation_refs[t] + 1
    BY <1>2 DEF Pin, TypeOK
  <2> QED
    BY <1>1, <2>1, <2>2, <2>3, LeasesOnFinite, FS_AddElement
<1>3. CASE t # s
  <2>1. LeasesOn(t)' = LeasesOn(t)
    BY <1>3 DEF Pin, LeasesOn, TypeOK, Slots, NoSlot
  <2> QED
    BY <1>1, <1>3, <2>1 DEF Pin, TypeOK
<1> QED
  BY <1>2, <1>3

LEMMA ReleaseCounts ==
  ASSUME TypeOK, RefCountExact, NEW h \in Leases, Release(h)
  PROVE  RefCountExact'
<1> SUFFICES ASSUME NEW t \in Slots
             PROVE  presentation_refs'[t] = Cardinality(LeasesOn(t)')
  BY DEF RefCountExact, LeasesOn
<1>1. presentation_refs[t] = Cardinality(LeasesOn(t))
  BY DEF RefCountExact, LeasesOn
<1>2. leases[h] \in Slots /\ presentation_refs[leases[h]] > 0
  BY LeasedIsPresented DEF Release
<1>3. CASE t = leases[h]
  <2>1. LeasesOn(t)' = LeasesOn(t) \ {h}
    BY <1>2, <1>3 DEF Release, LeasesOn, TypeOK, Slots, NoSlot
  <2>2. h \in LeasesOn(t)
    BY <1>3 DEF LeasesOn
  <2>3. presentation_refs'[t] = presentation_refs[t] - 1
    BY <1>2, <1>3 DEF Release, TypeOK
  <2> QED
    BY <1>1, <2>1, <2>2, <2>3, LeasesOnFinite, FS_RemoveElement
<1>4. CASE t # leases[h]
  <2>1. LeasesOn(t)' = LeasesOn(t)
    BY <1>4 DEF Release, LeasesOn, TypeOK, Slots, NoSlot
  <2> QED
    BY <1>1, <1>2, <1>4, <2>1 DEF Release, TypeOK
<1> QED
  BY <1>3, <1>4

-----------------------------------------------------------------------------
(* Lease safety.  The code never compares a lease with its write target: a  *)
(* leased slot stays intact because the writer's exclusive ownership of its *)
(* target, the reference counts and the order of serials fit together.      *)

\* The raster thread's target is its own: unpresented, not the newest frame,
\* and finished with on the GPU.
WriterInv ==
  /\ raster_target => write_in_progress
  /\ raster # "idle" => ~write_in_progress
  /\ write_in_progress =>
       /\ write_buffer # NoSlot
       /\ write_buffer # latest_buffer
       /\ presentation_refs[write_buffer] = 0
       /\ ready_fence[write_buffer] = "none"

\* Only the target's pixels differ from the frame its serial names.
PixelsInv ==
  \A s \in Slots :
    pixels[s] = IF write_in_progress /\ s = write_buffer THEN Torn ELSE frame_serial[s]

\* What is newest or leased has been published.
PublishedInv ==
  /\ latest_buffer # NoSlot => frame_serial[latest_buffer] # 0
  /\ \A h \in Leases : leases[h] # NoSlot => frame_serial[leases[h]] # 0
  /\ wayland = "scanning" => latest_buffer # NoSlot

LeaseInv == TypeOK /\ RefCountExact /\ WriterInv /\ PixelsInv /\ PublishedInv

LEMMA SameLeasesSameCounts ==
  ASSUME RefCountExact, UNCHANGED leaseVars
  PROVE  RefCountExact'
  BY DEF RefCountExact, leaseVars

\* A poll or a signal does not revive a fence that was consumed.
LEMMA PolledNone ==
  ASSUME TypeOK, NEW S, NEW s \in Slots, ready_fence[s] = "none"
  PROVE  Polled(S)[s] = "none"
  BY DEF Polled

LEMMA LeaseInvInit == Init => LeaseInv
<1> SUFFICES ASSUME Init PROVE LeaseInv
  OBVIOUS
<1>1. TypeOK
  BY TypeOKInit
<1>2. RefCountExact
  <2> SUFFICES ASSUME NEW s \in Slots
               PROVE  presentation_refs[s] = Cardinality({h \in Leases : leases[h] = s})
    BY DEF RefCountExact
  <2>1. {h \in Leases : leases[h] = s} = {}
    BY DEF Init, Slots, NoSlot
  <2> QED
    BY <2>1, FS_EmptySet DEF Init
<1>3. WriterInv /\ PixelsInv /\ PublishedInv
  BY DEF Init, WriterInv, PixelsInv, PublishedInv
<1> QED
  BY <1>1, <1>2, <1>3 DEF LeaseInv

\* Steps of the raster thread.
LEMMA LeaseInvStartWrite ==
  ASSUME LeaseInv, TypeOK', StartWrite
  PROVE  LeaseInv'
<1> USE DEF LeaseInv
<1>1. UNCHANGED leaseVars
  BY DEF StartWrite, StartWriteStopped, StartWriteReuse, ScanNewestReady,
         ChooseWriteBuffer, NoWriteBuffer, WaitForFence, RefuseWrite, FenceWaitFails
<1>2. RefCountExact'
  BY <1>1, SameLeasesSameCounts
<1>3. PublishedInv'
  BY <1>1 DEF PublishedInv, StartWrite, StartWriteStopped, StartWriteReuse,
       ScanNewestReady, ChooseWriteBuffer, NoWriteBuffer, WaitForFence, RefuseWrite,
       FenceWaitFails, slotVars, chainVars, leaseVars
<1>4. WriterInv' /\ PixelsInv'
  <2> USE DEF WriterInv, PixelsInv, slotVars, chainVars, leaseVars
  <2>1. CASE StartWriteStopped
    BY <2>1 DEF StartWriteStopped, AtLoopTop
  <2>2. CASE StartWriteReuse
    BY <2>2 DEF StartWriteReuse, AtLoopTop, Reusable
  <2>3. CASE ScanNewestReady
    <3>1. ~write_in_progress
      BY <2>3 DEF ScanNewestReady, AtLoopTop, Reusable, Presented
    <3> QED
      BY <2>3, <3>1 DEF ScanNewestReady
  <2>4. CASE ChooseWriteBuffer
    <3>1. PICK s \in Slots :
            /\ Oldest(s, Candidates)
            /\ write_buffer' = s
            /\ pixels' = [pixels EXCEPT ![s] = Torn]
      BY <2>4 DEF ChooseWriteBuffer
    <3>2. s \in Overwritable /\ Ready(s)
      BY <3>1 DEF Oldest, Candidates
    <3>3. presentation_refs[s] = 0 /\ s # latest_buffer
      BY <3>2 DEF Overwritable, Presented, TypeOK
    <3>4. ready_fence'[s] = "none"
      BY <2>4, <3>2 DEF ChooseWriteBuffer, Polled, Ready, TypeOK
    <3>5. ~write_in_progress
      BY <2>4 DEF ChooseWriteBuffer
    <3>6. PixelsInv'
      BY <2>4, <3>1, <3>5 DEF ChooseWriteBuffer, TypeOK
    <3> QED
      BY <2>4, <3>1, <3>3, <3>4, <3>6 DEF ChooseWriteBuffer, Slots, NoSlot
  <2>5. CASE NoWriteBuffer
    BY <2>5 DEF NoWriteBuffer
  <2>6. CASE WaitForFence
    BY <2>6 DEF WaitForFence
  <2>7. CASE RefuseWrite
    BY <2>7 DEF RefuseWrite, Refusing
  <2>8. CASE FenceWaitFails
    BY <2>8 DEF FenceWaitFails
  <2> QED
    BY <2>1, <2>2, <2>3, <2>4, <2>5, <2>6, <2>7, <2>8 DEF StartWrite
<1> QED
  BY <1>2, <1>3, <1>4

LEMMA LeaseInvEndWrite ==
  ASSUME LeaseInv, TypeOK', NEW damage \in FrameDamages,
         NEW fence \in {"none", "pending"}, EndWrite(damage, fence)
  PROVE  LeaseInv'
<1> USE DEF LeaseInv
<1>1. RefCountExact'
  BY SameLeasesSameCounts DEF EndWrite
<1>2. WriterInv'
  BY DEF WriterInv, EndWrite
<1>3. write_buffer \in Slots /\ next_frame_serial # 0
  BY DEF EndWrite, TypeOK
<1>4. PixelsInv'
  BY <1>3 DEF PixelsInv, EndWrite, TypeOK, WriterInv
<1>5. PublishedInv'
  BY <1>3 DEF PublishedInv, EndWrite, TypeOK, leaseVars
<1> QED
  BY <1>1, <1>2, <1>4, <1>5

\* Pinning a published slot: the target cannot be it, because the target is
\* neither the newest frame, nor readable, nor leased.
LEMMA LeaseInvPin ==
  ASSUME LeaseInv, NEW h \in Leases, leases[h] = NoSlot, NEW s \in Slots, Pin(h, s),
         ~(write_in_progress /\ s = write_buffer), frame_serial[s] # 0,
         \A t \in Slots : ready_fence[t] = "none" => ready_fence'[t] = "none",
         UNCHANGED <<frame_serial, pixels, chainVars, rasterVars>>,
         wayland' = "idle"
  PROVE  RefCountExact' /\ WriterInv' /\ PixelsInv' /\ PublishedInv'
<1> USE DEF LeaseInv, chainVars, rasterVars
<1>1. RefCountExact'
  BY PinCounts
<1>2. WriterInv'
  <2> SUFFICES ASSUME write_in_progress
               PROVE  /\ presentation_refs'[write_buffer] = 0
                      /\ ready_fence'[write_buffer] = "none"
    BY DEF WriterInv
  <2>1. write_buffer \in Slots /\ write_buffer # s
    BY DEF WriterInv, TypeOK
  <2> QED
    BY <2>1 DEF Pin, WriterInv, TypeOK
<1>3. PixelsInv'
  BY DEF PixelsInv
<1>4. PublishedInv'
  BY DEF PublishedInv, Pin, TypeOK
<1> QED
  BY <1>1, <1>2, <1>3, <1>4

\* Steps that only poll or signal fences.
LEMMA LeaseInvFences ==
  ASSUME LeaseInv,
         \A t \in Slots : ready_fence[t] = "none" => ready_fence'[t] = "none",
         UNCHANGED <<frame_serial, pixels, chainVars, rasterVars, leaseVars>>,
         wayland' = wayland \/ (wayland' = "scanning" /\ latest_buffer # NoSlot)
  PROVE  RefCountExact' /\ WriterInv' /\ PixelsInv' /\ PublishedInv'
<1> USE DEF LeaseInv, chainVars, rasterVars, leaseVars
<1>1. RefCountExact'
  BY SameLeasesSameCounts
<1>2. WriterInv'
  BY DEF WriterInv, TypeOK
<1>3. PixelsInv'
  BY DEF PixelsInv
<1>4. PublishedInv'
  BY DEF PublishedInv
<1> QED
  BY <1>1, <1>2, <1>3, <1>4

\* Steps of the Wayland thread.
LEMMA LeaseInvRead ==
  ASSUME LeaseInv, TypeOK', Read
  PROVE  LeaseInv'
<1> USE DEF LeaseInv
<1>1. CASE FindLatestPending
  BY <1>1, LeaseInvFences DEF FindLatestPending, slotVars
<1>2. CASE LatestFrameReady
  BY <1>2, LeaseInvFences, PolledNone DEF LatestFrameReady
<1>3. ASSUME NEW h \in Leases, ReadLatest(h) PROVE LeaseInv'
  <2>1. latest_buffer \in Slots /\ frame_serial[latest_buffer] # 0
    BY <1>3 DEF ReadLatest, TypeOK, PublishedInv
  <2>2. ~(write_in_progress /\ latest_buffer = write_buffer)
    BY DEF WriterInv
  <2>3. wayland' = "idle"
    BY <1>3 DEF ReadLatest, MutexFree
  <2> QED
    BY <1>3, <2>1, <2>2, <2>3, LeaseInvPin, PolledNone DEF ReadLatest
<1>4. ASSUME NEW h \in Leases, ReadOlder(h) PROVE LeaseInv'
  <2>1. PICK s \in Slots \cup {NoSlot} :
          /\ Newest(s, {t \in Readable : Ready(t)})
          /\ IF s = NoSlot THEN Pin(h, latest_buffer) ELSE Pin(h, s)
    BY <1>4 DEF ReadOlder
  <2>2. \A t \in Slots : ready_fence[t] = "none" => ready_fence'[t] = "none"
    BY <1>4, PolledNone DEF ReadOlder
  <2>3. CASE s = NoSlot
    <3>1. latest_buffer \in Slots /\ frame_serial[latest_buffer] # 0
      BY <1>4 DEF ReadOlder, TypeOK, PublishedInv
    <3>2. ~(write_in_progress /\ latest_buffer = write_buffer)
      BY DEF WriterInv
    <3> QED
      BY <1>4, <2>1, <2>2, <2>3, <3>1, <3>2, LeaseInvPin DEF ReadOlder
  <2>4. CASE s # NoSlot
    <3>1. s \in Readable
      BY <2>1, <2>4 DEF Newest
    <3>2. s \in Slots /\ frame_serial[s] # 0 /\ ~(write_in_progress /\ s = write_buffer)
      BY <3>1 DEF Readable
    <3> QED
      BY <1>4, <2>1, <2>2, <2>4, <3>2, LeaseInvPin DEF ReadOlder
  <2> QED
    BY <2>3, <2>4
<1>5. ASSUME NEW h \in Leases, Release(h) PROVE LeaseInv'
  <2>1. RefCountExact'
    BY <1>5, ReleaseCounts
  <2>2. presentation_refs[leases[h]] > 0 /\ leases[h] \in Slots
    BY <1>5, LeasedIsPresented DEF Release
  <2>3. WriterInv'
    BY <1>5, <2>2 DEF Release, WriterInv, slotVars, chainVars, rasterVars, TypeOK
  <2>4. PixelsInv'
    BY <1>5 DEF Release, PixelsInv, slotVars, chainVars
  <2>5. PublishedInv'
    BY <1>5 DEF Release, PublishedInv, slotVars, chainVars, TypeOK
  <2> QED
    BY <2>1, <2>3, <2>4, <2>5
<1>6. ASSUME NEW h \in Leases, PollLease(h) PROVE LeaseInv'
  BY <1>6, LeaseInvFences, PolledNone DEF PollLease
<1>7. ASSUME NEW h \in Leases, NEW g \in Leases, Retain(h, g) PROVE LeaseInv'
  <2>1. leases[g] \in Slots /\ presentation_refs[leases[g]] > 0
    BY <1>7, LeasedIsPresented DEF Retain
  <2>2. frame_serial[leases[g]] # 0
    BY <1>7 DEF Retain, PublishedInv
  <2>3. ~(write_in_progress /\ leases[g] = write_buffer)
    BY <2>1 DEF WriterInv
  <2> QED
    BY <1>7, <2>1, <2>2, <2>3, LeaseInvPin DEF Retain, slotVars
<1> QED
  BY <1>1, <1>2, <1>3, <1>4, <1>5, <1>6, <1>7 DEF Read

\* The invariant is inductive.
LEMMA LeaseInvNext == LeaseInv /\ [Next]_vars => LeaseInv'
<1> SUFFICES ASSUME LeaseInv, [Next]_vars PROVE LeaseInv'
  OBVIOUS
<1>1. TypeOK'
  BY TypeOKNext DEF LeaseInv
<1>2. CASE StartWrite
  BY <1>1, <1>2, LeaseInvStartWrite
<1>3. CASE Present
  BY <1>1, <1>3, LeaseInvEndWrite DEF Present
<1>4. CASE Read
  BY <1>1, <1>4, LeaseInvRead
<1>5. ASSUME NEW s \in Slots, Signal(s) PROVE LeaseInv'
  <2>1. \A t \in Slots : ready_fence[t] = "none" => ready_fence'[t] = "none"
    BY <1>5 DEF Signal, LeaseInv, TypeOK
  <2> QED
    BY <1>1, <1>5, <2>1, LeaseInvFences DEF Signal, LeaseInv
<1>6. CASE RequestStop
  BY <1>1, <1>6, LeaseInvFences DEF RequestStop, slotVars, LeaseInv
<1>7. CASE UNCHANGED vars
  BY <1>1, <1>7, LeaseInvFences
  DEF vars, LeaseInv, chainVars, rasterVars, leaseVars
<1> QED
  BY <1>2, <1>3, <1>4, <1>5, <1>6, <1>7 DEF Next

LEMMA LeaseInvariant == Spec => []LeaseInv
<1> QED
  BY LeaseInvInit, LeaseInvNext, PTL DEF Spec

\* No slot an output holds is ever drawn into, for any number of slots and
\* leases (LeaseSafety; choose_write_buffer_locked and start_read_slot).
THEOREM LeasesAreSafe == Spec => []LeaseSafety
<1>1. LeaseInv => LeaseSafety
  <2> SUFFICES ASSUME LeaseInv, NEW h \in Leases, leases[h] # NoSlot
               PROVE  /\ ~(write_in_progress /\ write_buffer = leases[h])
                      /\ pixels[leases[h]] = frame_serial[leases[h]]
                      /\ frame_serial[leases[h]] # 0
    BY DEF LeaseSafety
  <2>1. leases[h] \in Slots /\ presentation_refs[leases[h]] > 0
    BY LeasedIsPresented DEF LeaseInv
  <2> QED
    BY <2>1 DEF LeaseInv, WriterInv, PixelsInv, PublishedInv
<1> QED
  BY <1>1, LeaseInvariant, PTL

\* The reference counter of a slot is the number of leases on it: none leaks
\* and none is dropped twice (RefCountExact; acquire_/release_presentation).
THEOREM RefCountsAreExact == Spec => []RefCountExact
<1>1. LeaseInv => RefCountExact
  BY DEF LeaseInv
<1> QED
  BY <1>1, LeaseInvariant, PTL

\* end_write never replaces the fence of unfinished GPU work
\* (UnfinishedFenceKept; start_write, choose_write_buffer_locked).
THEOREM FencesAreKept == Spec => UnfinishedFenceKept
<1>1. LeaseInv /\ [Next]_vars =>
        [\A s \in Slots : frame_serial'[s] # frame_serial[s] =>
           ready_fence[s] = "none"]_vars
  <2> SUFFICES ASSUME LeaseInv, [Next]_vars, NEW s \in Slots,
                      frame_serial'[s] # frame_serial[s]
               PROVE  ready_fence[s] = "none"
    OBVIOUS
  <2>1. PICK damage \in FrameDamages, fence \in {"none", "pending"} :
          EndWrite(damage, fence)
    BY DEF Next, StartWrite, StartWriteStopped, StartWriteReuse, ScanNewestReady,
         ChooseWriteBuffer, NoWriteBuffer, WaitForFence, RefuseWrite, FenceWaitFails,
         Present, Read, FindLatestPending, LatestFrameReady, ReadLatest, ReadOlder,
         Release, PollLease, Retain, Signal, RequestStop, slotVars, vars
  <2>2. s = write_buffer /\ write_in_progress
    BY <2>1 DEF EndWrite, LeaseInv, WriterInv, TypeOK
  <2> QED
    BY <2>2 DEF LeaseInv, WriterInv
<1> QED
  BY <1>1, LeaseInvariant, PTL DEF Spec, UnfinishedFenceKept

-----------------------------------------------------------------------------
(* The reader's completed frame.  The writer spares the newest one it finds, *)
(* and nothing it does not find can have been read.                         *)

Survivor(s) == s \in Readable /\ Ready(s) /\ frame_serial[s] >= newest_read

\* Between the two scans the spared slot is a survivor, and no reader scans.
SparedInv ==
  raster = "scanned" =>
    /\ wayland = "idle"
    /\ newest_read > 0 => Survivor(newest_ready)

SurvivalInv == LeaseInv /\ CompletedFrameSurvives /\ SparedInv

\* Polls and signals leave a completed frame complete.
LEMMA PolledReady ==
  ASSUME TypeOK, NEW S, NEW s \in Slots, Ready(s)
  PROVE  Polled(S)[s] # "pending"
  BY DEF Polled, Ready

\* A step that publishes nothing and takes no frame back keeps the survivors.
LEMMA SurvivorsStay ==
  ASSUME SurvivalInv, UNCHANGED <<frame_serial, newest_read>>,
         \A s \in Slots : Ready(s) => ready_fence'[s] # "pending",
         write_in_progress' => write_in_progress /\ write_buffer' = write_buffer,
         raster' = "scanned" => /\ raster = "scanned" /\ newest_ready' = newest_ready
                                /\ wayland' = wayland
  PROVE  CompletedFrameSurvives' /\ SparedInv'
<1>1. \A s \in Slots : Survivor(s) => Survivor(s)'
  BY DEF Survivor, Readable, Ready
<1>2. \A s : Survivor(s) => s \in Slots
  BY DEF Survivor, Readable
<1>3. CompletedFrameSurvives'
  BY <1>1, <1>2 DEF SurvivalInv, CompletedFrameSurvives, Survivor
<1>4. SparedInv'
  BY <1>1, <1>2 DEF SurvivalInv, SparedInv
<1> QED
  BY <1>3, <1>4

\* A reader is handed a survivor.
LEMMA ReadSurvives ==
  ASSUME SurvivalInv, UNCHANGED <<frame_serial, write_buffer, write_in_progress, raster>>,
         raster # "scanned", NEW s \in Readable, ready_fence'[s] # "pending",
         newest_read' = frame_serial[s]
  PROVE  CompletedFrameSurvives' /\ SparedInv'
<1>1. s \in Readable' /\ Ready(s)'
  BY DEF Readable, Ready
<1>2. frame_serial[s] \in Nat
  BY DEF SurvivalInv, LeaseInv, TypeOK, Readable
<1> QED
  BY <1>1, <1>2 DEF CompletedFrameSurvives, SparedInv

LEMMA SurvivalStartWrite == ASSUME SurvivalInv, StartWrite PROVE CompletedFrameSurvives' /\ SparedInv'
<1> USE DEF slotVars, chainVars, rasterVars, leaseVars
<1>1. TypeOK
  BY DEF SurvivalInv, LeaseInv
<1>2. CASE ScanNewestReady
  <2> DEFINE published == {s \in Slots : frame_serial[s] # 0}
  <2>1. /\ Newest(newest_ready', {t \in published : Ready(t)}) /\ ready_fence' = Polled(published)
        /\ UNCHANGED <<frame_serial, write_buffer, write_in_progress, wayland, newest_read>>
        /\ wayland = "idle" /\ ~write_in_progress
    BY <1>2 DEF ScanNewestReady, AtLoopTop, MutexFree, Reusable, Presented, SurvivalInv,
         LeaseInv, WriterInv
  <2>2. \A s \in Slots : Ready(s) => Ready(s)'
    BY <1>1, <2>1, PolledReady DEF Ready
  <2>3. Readable = published /\ Readable' = published
    BY <2>1 DEF Readable
  <2>4. ASSUME newest_read > 0
        PROVE  newest_ready' \in published /\ Ready(newest_ready') /\ frame_serial[newest_ready'] >= newest_read
    <3>1. PICK s \in published : Ready(s) /\ frame_serial[s] >= newest_read
      BY <2>3, <2>4 DEF SurvivalInv, CompletedFrameSurvives
    <3>2. newest_ready' \in published /\ Ready(newest_ready') /\ frame_serial[s] <= frame_serial[newest_ready']
      BY <2>1, <3>1 DEF Newest
    <3> QED
      BY <1>1, <3>1, <3>2 DEF TypeOK
  <2>5. SparedInv'
    BY <2>1, <2>2, <2>3, <2>4 DEF SparedInv, Survivor
  <2>6. CompletedFrameSurvives'
    BY <2>1, <2>2, <2>3 DEF SurvivalInv, CompletedFrameSurvives
  <2> QED
    BY <2>5, <2>6
<1>3. CASE ChooseWriteBuffer
  <2>1. /\ raster = "scanned" /\ raster' = "idle" /\ write_buffer' \in Candidates
        /\ ready_fence' = Polled(Overwritable)
        /\ frame_serial' = frame_serial /\ newest_read' = newest_read
    BY <1>3 DEF ChooseWriteBuffer, Oldest
  <2>2. write_buffer' # newest_ready
    BY <2>1 DEF Candidates, Overwritable
  <2>3. SparedInv'
    BY <2>1 DEF SparedInv
  <2>4. ASSUME newest_read > 0
        PROVE  \E s \in Readable' : Ready(s)' /\ frame_serial'[s] >= newest_read
    <3>1. Survivor(newest_ready)
      BY <2>1, <2>4 DEF SurvivalInv, SparedInv
    <3>2. PICK s \in Slots : /\ s = newest_ready /\ Ready(s)
                             /\ frame_serial[s] # 0 /\ frame_serial[s] >= newest_read
      BY <3>1 DEF Survivor, Readable
    <3>3. ready_fence'[s] # "pending"
      BY <1>1, <2>1, <3>2, PolledReady
    <3> QED
      BY <2>1, <2>2, <3>2, <3>3 DEF Readable, Ready
  <2>5. CompletedFrameSurvives'
    BY <2>1, <2>4 DEF CompletedFrameSurvives
  <2> QED
    BY <2>3, <2>5
<1>4. CASE NoWriteBuffer
  BY <1>4, SurvivorsStay DEF NoWriteBuffer, Ready
<1>5. CASE StartWriteStopped \/ StartWriteReuse \/ WaitForFence \/ RefuseWrite \/ FenceWaitFails
  BY <1>5, SurvivorsStay DEF StartWriteStopped, StartWriteReuse, WaitForFence, RefuseWrite,
     FenceWaitFails, Ready
<1> QED
  BY <1>2, <1>3, <1>4, <1>5 DEF StartWrite

\* Publishing into the target leaves every readable slot alone.
LEMMA SurvivalEndWrite ==
  ASSUME SurvivalInv, NEW damage \in FrameDamages, NEW fence \in {"none", "pending"},
         EndWrite(damage, fence)
  PROVE  CompletedFrameSurvives' /\ SparedInv'
<1>1. /\ write_in_progress /\ ~write_in_progress' /\ raster' = "idle" /\ newest_read' = newest_read
      /\ frame_serial' = [frame_serial EXCEPT ![write_buffer] = next_frame_serial]
      /\ ready_fence' = [ready_fence EXCEPT ![write_buffer] = fence]
  BY DEF EndWrite, SurvivalInv, LeaseInv, WriterInv
<1>2. \A s \in Readable : /\ s \in Readable' /\ frame_serial'[s] = frame_serial[s]
                         /\ ready_fence'[s] = ready_fence[s]
  BY <1>1 DEF Readable, SurvivalInv, LeaseInv, TypeOK
<1> QED
  BY <1>1, <1>2 DEF SurvivalInv, CompletedFrameSurvives, SparedInv, Ready

LEMMA SurvivalRead == ASSUME SurvivalInv, Read PROVE CompletedFrameSurvives' /\ SparedInv'
<1> USE DEF slotVars, chainVars, rasterVars, leaseVars
<1>1. TypeOK
  BY DEF SurvivalInv, LeaseInv
<1>2. CASE FindLatestPending
  BY <1>2, SurvivorsStay DEF FindLatestPending, MutexFree, Ready
<1>3. CASE LatestFrameReady
  BY <1>1, <1>3, SurvivorsStay, PolledReady DEF LatestFrameReady
<1>4. ASSUME NEW h \in Leases, ReadLatest(h) PROVE CompletedFrameSurvives' /\ SparedInv'
  <2>1. latest_buffer \in Readable
    BY <1>1, <1>4 DEF ReadLatest, Readable, SurvivalInv, LeaseInv, WriterInv, PublishedInv, TypeOK
  <2>2. ready_fence'[latest_buffer] # "pending"
    BY <1>1, <1>4, <2>1, PolledReady DEF ReadLatest, Readable
  <2> QED
    BY <1>4, <2>1, <2>2, ReadSurvives DEF ReadLatest, MutexFree
<1>5. ASSUME NEW h \in Leases, ReadOlder(h) PROVE CompletedFrameSurvives' /\ SparedInv'
  <2>1. PICK s \in Slots \cup {NoSlot} :
          /\ Newest(s, {t \in Readable : Ready(t)})
          /\ IF s = NoSlot THEN newest_read' = newest_read ELSE newest_read' = frame_serial[s]
    BY <1>5 DEF ReadOlder
  <2>2. /\ ready_fence' = Polled(ScanPolls) /\ raster # "scanned"
        /\ UNCHANGED <<frame_serial, write_buffer, write_in_progress, raster>>
    BY <1>5 DEF ReadOlder, SurvivalInv, SparedInv
  <2>3. CASE s = NoSlot
    <3>1. newest_read' = newest_read
      BY <2>1, <2>3
    <3>2. \A t \in Slots : Ready(t) => ready_fence'[t] # "pending"
      BY <1>1, <2>2, PolledReady
    <3> QED
      BY <2>2, <3>1, <3>2, SurvivorsStay
  <2>4. CASE s # NoSlot
    <3>1. s \in Readable /\ Ready(s) /\ s \in Slots /\ newest_read' = frame_serial[s]
      BY <2>1, <2>4 DEF Newest, Readable
    <3> QED
      BY <1>1, <2>2, <3>1, ReadSurvives, PolledReady
  <2> QED
    BY <2>3, <2>4
<1>6. ASSUME NEW h \in Leases, Release(h) \/ PollLease(h) PROVE CompletedFrameSurvives' /\ SparedInv'
  BY <1>1, <1>6, SurvivorsStay, PolledReady DEF Release, PollLease, Ready
<1>7. ASSUME NEW h \in Leases, NEW g \in Leases, Retain(h, g)
      PROVE  CompletedFrameSurvives' /\ SparedInv'
  BY <1>7, SurvivorsStay DEF Retain, Ready
<1> QED
  BY <1>2, <1>3, <1>4, <1>5, <1>6, <1>7 DEF Read

LEMMA SurvivalInvNext == SurvivalInv /\ [Next]_vars => SurvivalInv'
<1> SUFFICES ASSUME SurvivalInv, [Next]_vars PROVE CompletedFrameSurvives' /\ SparedInv'
  BY LeaseInvNext DEF SurvivalInv
<1>1. CASE Present
  BY <1>1, SurvivalEndWrite DEF Present
<1>2. ASSUME NEW s \in Slots, Signal(s) PROVE CompletedFrameSurvives' /\ SparedInv'
  BY <1>2, SurvivorsStay DEF Signal, Ready, chainVars, rasterVars, SurvivalInv, LeaseInv, TypeOK
<1>3. CASE RequestStop
  BY <1>3, SurvivorsStay DEF RequestStop, Ready, slotVars, chainVars, rasterVars
<1>4. CASE UNCHANGED vars
  BY <1>4, SurvivorsStay DEF vars, Ready
<1> QED
  BY <1>1, <1>2, <1>3, <1>4, SurvivalStartWrite, SurvivalRead DEF Next

\* The writer never takes the last completed frame a reader could go forward to
\* (CompletedFrameSurvives; choose_write_buffer_locked).
THEOREM CompletedFramesSurvive == Spec => []CompletedFrameSurvives
<1>1. Init => SurvivalInv
  BY LeaseInvInit DEF Init, SurvivalInv, CompletedFrameSurvives, SparedInv
<1>2. SurvivalInv => CompletedFrameSurvives
  BY DEF SurvivalInv
<1> QED
  BY <1>1, <1>2, SurvivalInvNext, PTL DEF Spec

-----------------------------------------------------------------------------
(* Refusals                                                                *)

\* Sparing one slot leaves N - 1.
LEMMA AllButOne ==
  ASSUME NEW a, NEW P \in SUBSET Slots, Slots \ {a} \subseteq P
  PROVE  Cardinality(P) > N - 2
<1>1. IsFiniteSet(Slots) /\ Cardinality(Slots) = N
  BY ChainAssumption, FS_Interval DEF Slots
<1>2. IsFiniteSet(P) /\ Cardinality(P) \in Nat
  BY <1>1, FS_Subset, FS_CardinalityType
<1>3. IsFiniteSet(Slots \ {a}) /\ Cardinality(Slots \ {a}) >= N - 1
  <2>1. /\ IsFiniteSet(Slots \ {a})
        /\ Cardinality(Slots \ {a}) = IF a \in Slots THEN Cardinality(Slots) - 1
                                                      ELSE Cardinality(Slots)
    BY <1>1, FS_RemoveElement, Zenon
  <2>2. N \in Int
    BY ChainAssumption
  <2> QED
    BY <1>1, <2>1, <2>2
<1>4. Cardinality(Slots \ {a}) <= Cardinality(P)
  BY <1>2, FS_Subset
<1> QED
  BY <1>2, <1>3, <1>4, FS_CardinalityType, ChainAssumption

\* start_write gives up only when the outputs hold all slots but one, or because
\* the frame it spared as pending completed in between (RefusedOnlyWhenLeased).
THEOREM RefusalsAreForced == Spec => RefusedOnlyWhenLeased
<1>1. TypeOK /\ [Next]_vars =>
        [raster = "scanned" /\ raster' = "unchosen" /\ Awaitable = {} =>
           \/ Cardinality({s \in Slots : Presented(s)}) > N - 2
           \/ /\ newest_ready # latest_buffer
              /\ ready_fence[latest_buffer] = "none"]_vars
  <2> SUFFICES ASSUME TypeOK, [Next]_vars, raster = "scanned", raster' = "unchosen", Awaitable = {}
               PROVE  \/ Cardinality({s \in Slots : Presented(s)}) > N - 2
                      \/ /\ newest_ready # latest_buffer
                         /\ ready_fence[latest_buffer] = "none"
    OBVIOUS
  <2> DEFINE P == {s \in Slots : Presented(s)}
  <2>1. Candidates = {}
    BY DEF Next, StartWrite, StartWriteStopped, StartWriteReuse, ScanNewestReady,
         ChooseWriteBuffer, NoWriteBuffer, WaitForFence, RefuseWrite, FenceWaitFails,
         Present, EndWrite, Read, FindLatestPending, LatestFrameReady, ReadLatest, ReadOlder,
         Release, PollLease, Retain, Signal, RequestStop, rasterVars, vars
  <2>2. \A s \in Slots : s \in P \/ s = latest_buffer \/ s = newest_ready
    BY <2>1 DEF Candidates, Overwritable, Awaitable, Ready
  <2>3. CASE newest_ready = latest_buffer
    BY <2>2, <2>3, AllButOne
  <2>4. CASE newest_ready # latest_buffer
    <3>1. CASE latest_buffer \in Slots \ P
      BY <2>4, <3>1 DEF Awaitable
    <3>2. CASE latest_buffer \notin Slots \ P
      <4>1. Slots \ {newest_ready} \subseteq P
        BY <2>2, <3>2
      <4> QED
        BY <4>1, AllButOne
    <3> QED
      BY <3>1, <3>2
  <2> QED
    BY <2>3, <2>4
<1> QED
  BY <1>1, TypeCorrect, PTL DEF Spec, RefusedOnlyWhenLeased

-----------------------------------------------------------------------------
(* The chain implements FrameExchange.  What start_read_slot hands out is    *)
(* decided by the serials: the newest buffer has the last one given out, and *)
(* no two slots share one, so a frame's completion is its slot's fence.      *)

SerialInv ==
  /\ \A s \in Slots : frame_serial[s] < next_frame_serial
  /\ \A s, t \in Slots : frame_serial[s] = frame_serial[t] /\ frame_serial[s] # 0 => s = t
  /\ latest_buffer = NoSlot => next_frame_serial = 1
  /\ latest_buffer # NoSlot => frame_serial[latest_buffer] = next_frame_serial - 1

ExchangeInv == SurvivalInv /\ SerialInv

LEMMA SerialInvNext == LeaseInv /\ SerialInv /\ [Next]_vars => SerialInv'
<1> SUFFICES ASSUME LeaseInv, SerialInv, [Next]_vars PROVE SerialInv'
  OBVIOUS
<1>1. ASSUME NEW damage \in FrameDamages, NEW fence \in {"none", "pending"},
             EndWrite(damage, fence)
      PROVE  SerialInv'
  <2>1. /\ write_buffer \in Slots /\ latest_buffer' = write_buffer
        /\ frame_serial' = [frame_serial EXCEPT ![write_buffer] = next_frame_serial]
        /\ next_frame_serial' = next_frame_serial + 1
        /\ next_frame_serial \in Nat \ {0}
        /\ frame_serial \in [Slots -> Nat]
    BY <1>1 DEF EndWrite, LeaseInv, TypeOK
  <2> QED
    BY <2>1 DEF SerialInv, Slots, NoSlot
<1>2. CASE UNCHANGED <<frame_serial, latest_buffer, next_frame_serial>>
  BY <1>2 DEF SerialInv
<1> QED
  BY <1>1, <1>2 DEF Next, StartWrite, StartWriteStopped, StartWriteReuse, ScanNewestReady,
     ChooseWriteBuffer, NoWriteBuffer, WaitForFence, RefuseWrite, FenceWaitFails,
     Present, Read, FindLatestPending, LatestFrameReady, ReadLatest, ReadOlder,
     Release, PollLease, Retain, Signal, RequestStop, slotVars, chainVars, vars

\* The four variables of FrameExchange, as Exchange substitutes them.
PublishedFrames == next_frame_serial - 1
PendingFrames == {frame_serial[s] : s \in {t \in Slots : ready_fence[t] = "pending"}}
CompleteFrames == (1 .. next_frame_serial - 1) \ PendingFrames
HeldFrames == [h \in Leases |-> IF leases[h] = NoSlot THEN 0 ELSE pixels[leases[h]]]

\* A lease holds the published frame its slot's serial names.
LEMMA HeldFrame ==
  ASSUME LeaseInv, NEW h \in Leases
  PROVE  /\ leases[h] = NoSlot => HeldFrames[h] = 0
         /\ leases[h] # NoSlot => /\ leases[h] \in Slots
                                  /\ HeldFrames[h] = frame_serial[leases[h]]
                                  /\ HeldFrames[h] # 0
                                  /\ leases[h] \in Readable
<1>1. CASE leases[h] # NoSlot
  <2>1. leases[h] \in Slots /\ presentation_refs[leases[h]] > 0
    BY <1>1, LeasedIsPresented DEF LeaseInv
  <2>2. ~(write_in_progress /\ leases[h] = write_buffer)
    BY <2>1 DEF LeaseInv, WriterInv
  <2>3. pixels[leases[h]] = frame_serial[leases[h]] /\ frame_serial[leases[h]] # 0
    BY <1>1, <2>1, <2>2 DEF LeaseInv, PixelsInv, PublishedInv
  <2> QED
    BY <1>1, <2>1, <2>2, <2>3 DEF HeldFrames, Readable
<1>2. CASE leases[h] = NoSlot
  BY <1>2 DEF HeldFrames
<1> QED
  BY <1>1, <1>2

LEMMA HeldAfterPin ==
  ASSUME leases \in [Leases -> Slots \cup {NoSlot}], NEW h \in Leases, leases[h] = NoSlot,
         NEW s \in Slots, leases' = [leases EXCEPT ![h] = s], pixels' = pixels
  PROVE  HeldFrames[h] = 0 /\ HeldFrames' = [HeldFrames EXCEPT ![h] = pixels[s]]
<1>1. s # NoSlot
  BY DEF Slots, NoSlot
<1>2. HeldFrames[h] = 0
  BY DEF HeldFrames
<1>3. HeldFrames' = [HeldFrames EXCEPT ![h] = pixels[s]]
  BY <1>1 DEF HeldFrames
<1> QED
  BY <1>2, <1>3

\* The frame of a published slot is complete exactly if its fence is.
LEMMA CompleteMeansReady ==
  ASSUME TypeOK, SerialInv, NEW s \in Slots, frame_serial[s] # 0
  PROVE  /\ frame_serial[s] \in 1 .. PublishedFrames
         /\ frame_serial[s] \in CompleteFrames <=> Ready(s)
<1>1. frame_serial[s] \in 1 .. next_frame_serial - 1
  BY DEF TypeOK, SerialInv
<1>2. frame_serial[s] \in PendingFrames <=> ready_fence[s] = "pending"
  BY DEF PendingFrames, SerialInv
<1> QED
  BY <1>1, <1>2 DEF CompleteFrames, PublishedFrames, Ready

\* A step that changes neither the serials nor which fences are pending nor what
\* the leases hold is invisible.
LEMMA Invisible ==
  ASSUME UNCHANGED <<frame_serial, next_frame_serial, leases, newest_read>>,
         \A s \in Slots : ready_fence'[s] = "pending" <=> ready_fence[s] = "pending",
         \A h \in Leases : leases[h] # NoSlot => pixels'[leases[h]] = pixels[leases[h]]
  PROVE  UNCHANGED Exchange!vars
<1>1. PendingFrames' = PendingFrames
  BY DEF PendingFrames
<1>2. HeldFrames' = HeldFrames
  BY DEF HeldFrames
<1> QED
  BY <1>1, <1>2 DEF Exchange!vars, PendingFrames, HeldFrames

LEMMA PolledPending ==
  ASSUME NEW S, ready_fence' = Polled(S)
  PROVE  \A s \in Slots : ready_fence'[s] = "pending" <=> ready_fence[s] = "pending"
  BY DEF Polled


LEMMA ExchangeStartWrite ==
  ASSUME LeaseInv, StartWrite
  PROVE  UNCHANGED Exchange!vars
<1> USE DEF slotVars, chainVars, rasterVars, leaseVars
<1>1. CASE ChooseWriteBuffer
  <2>1. PICK s \in Slots : /\ Oldest(s, Candidates)
                           /\ pixels' = [pixels EXCEPT ![s] = Torn]
    BY <1>1 DEF ChooseWriteBuffer
  <2>2. ~Presented(s)
    BY <2>1 DEF Oldest, Candidates, Overwritable
  <2>3. \A h \in Leases : leases[h] # NoSlot => pixels'[leases[h]] = pixels[leases[h]]
    <3> SUFFICES ASSUME NEW h \in Leases, leases[h] # NoSlot
                 PROVE  pixels'[leases[h]] = pixels[leases[h]]
      OBVIOUS
    <3>1. leases[h] \in Slots /\ leases[h] # s
      BY <2>2, LeasedIsPresented DEF LeaseInv, Presented
    <3> QED
      BY <2>1, <3>1 DEF LeaseInv, TypeOK
  <2>4. UNCHANGED <<frame_serial, next_frame_serial, leases, newest_read>>
    BY <1>1 DEF ChooseWriteBuffer
  <2>5. \A t \in Slots : ready_fence'[t] = "pending" <=> ready_fence[t] = "pending"
    BY <1>1, PolledPending DEF ChooseWriteBuffer
  <2> QED
    BY <2>3, <2>4, <2>5, Invisible
<1>2. CASE ScanNewestReady
  <2>1. \A t \in Slots : ready_fence'[t] = "pending" <=> ready_fence[t] = "pending"
    BY <1>2, PolledPending DEF ScanNewestReady
  <2> QED
    BY <1>2, <2>1, Invisible DEF ScanNewestReady
<1>3. CASE StartWriteStopped \/ StartWriteReuse \/ NoWriteBuffer \/ WaitForFence
             \/ RefuseWrite \/ FenceWaitFails
  BY <1>3, Invisible DEF StartWriteStopped, StartWriteReuse, NoWriteBuffer, WaitForFence,
     RefuseWrite, FenceWaitFails
<1> QED
  BY <1>1, <1>2, <1>3 DEF StartWrite

\* end_write publishes the next frame, complete at once without a fence, into a
\* slot nobody holds.
LEMMA ExchangeEndWrite ==
  ASSUME LeaseInv, SerialInv, NEW damage \in FrameDamages,
         NEW fence \in {"none", "pending"}, EndWrite(damage, fence)
  PROVE  Exchange!PublishFrame
<1>1. /\ write_in_progress /\ write_buffer \in Slots
      /\ presentation_refs[write_buffer] = 0 /\ ready_fence[write_buffer] = "none"
      /\ ready_fence' = [ready_fence EXCEPT ![write_buffer] = fence]
      /\ frame_serial' = [frame_serial EXCEPT ![write_buffer] = next_frame_serial]
      /\ pixels' = [pixels EXCEPT ![write_buffer] = next_frame_serial]
      /\ next_frame_serial' = next_frame_serial + 1
      /\ next_frame_serial \in Nat \ {0}
      /\ UNCHANGED <<leases, newest_read>>
  BY DEF EndWrite, LeaseInv, WriterInv, TypeOK, leaseVars
<1>2. PublishedFrames' = PublishedFrames + 1 /\ PublishedFrames + 1 = next_frame_serial
  BY <1>1 DEF PublishedFrames
<1>3. HeldFrames' = HeldFrames
  <2> SUFFICES ASSUME NEW h \in Leases, leases[h] # NoSlot
               PROVE  pixels'[leases[h]] = pixels[leases[h]]
    BY <1>1 DEF HeldFrames
  <2>1. leases[h] \in Slots /\ leases[h] # write_buffer
    BY <1>1, LeasedIsPresented DEF LeaseInv
  <2> QED
    BY <1>1, <2>1 DEF LeaseInv, TypeOK
<1>4. PendingFrames' = IF fence = "pending" THEN PendingFrames \cup {next_frame_serial}
                                            ELSE PendingFrames
  <2> DEFINE pendingSlots == {t \in Slots : ready_fence[t] = "pending"}
  <2>1. pendingSlots' = IF fence = "pending" THEN pendingSlots \cup {write_buffer}
                                             ELSE pendingSlots
    BY <1>1 DEF LeaseInv, TypeOK
  <2>2. \A s \in pendingSlots : frame_serial'[s] = frame_serial[s]
    BY <1>1 DEF LeaseInv, TypeOK
  <2>3. frame_serial'[write_buffer] = next_frame_serial
    BY <1>1 DEF LeaseInv, TypeOK
  <2>4. PendingFrames = {frame_serial[s] : s \in pendingSlots}
        /\ PendingFrames' = {frame_serial'[s] : s \in pendingSlots'}
    BY DEF PendingFrames
  <2> HIDE DEF pendingSlots
  <2> QED
    BY <2>1, <2>2, <2>3, <2>4
<1>5. next_frame_serial \notin PendingFrames
  BY <1>1 DEF PendingFrames, SerialInv, LeaseInv, TypeOK
<1>6. CompleteFrames' = IF fence = "pending" THEN CompleteFrames
                                             ELSE CompleteFrames \cup {next_frame_serial}
  <2>1. (1 .. next_frame_serial - 1)' = (1 .. next_frame_serial - 1) \cup {next_frame_serial}
    BY <1>1
  <2> QED
    BY <1>1, <1>4, <1>5, <2>1 DEF CompleteFrames
<1> QED
  BY <1>1, <1>2, <1>3, <1>6 DEF Exchange!PublishFrame, PublishedFrames, HeldFrames,
     CompleteFrames, PendingFrames

\* A fence that signals completes the frame of its slot, or that of none.
LEMMA ExchangeSignal ==
  ASSUME LeaseInv, SerialInv, NEW s \in Slots, Signal(s)
  PROVE  (\E f \in 1 .. PublishedFrames : Exchange!Complete(f)) \/ UNCHANGED Exchange!vars
<1>1. /\ ready_fence[s] = "pending" /\ ready_fence' = [ready_fence EXCEPT ![s] = "signalled"]
      /\ UNCHANGED <<frame_serial, pixels, next_frame_serial, leases, newest_read>>
      /\ ready_fence \in [Slots -> {"none", "pending", "signalled"}]
      /\ frame_serial \in [Slots -> Nat]
  BY DEF Signal, chainVars, leaseVars, LeaseInv, TypeOK
<1>2. HeldFrames' = HeldFrames /\ PublishedFrames' = PublishedFrames
  BY <1>1 DEF HeldFrames, PublishedFrames
<1>3. CASE frame_serial[s] = 0
  <2>1. CompleteFrames' = CompleteFrames
    BY <1>1, <1>3 DEF CompleteFrames, PendingFrames
  <2> QED
    BY <1>1, <1>2, <2>1 DEF Exchange!vars, HeldFrames, PublishedFrames, CompleteFrames,
       PendingFrames
<1>4. CASE frame_serial[s] # 0
  <2>1. PICK f \in 1 .. PublishedFrames : f = frame_serial[s]
    BY <1>4, CompleteMeansReady DEF LeaseInv
  <2>2. PendingFrames' = PendingFrames \ {f}
    BY <1>1, <1>4, <2>1 DEF PendingFrames, SerialInv
  <2>3. CompleteFrames' = CompleteFrames \cup {f}
    BY <1>1, <2>1, <2>2 DEF CompleteFrames, PublishedFrames
  <2>4. Exchange!Complete(f)
    BY <1>1, <1>2, <2>1, <2>3 DEF Exchange!Complete, HeldFrames, PublishedFrames,
       CompleteFrames, PendingFrames
  <2> QED
    BY <2>1, <2>4
<1> QED
  BY <1>3, <1>4


\* start_read_slot hands out the newest frame if it is complete.
LEMMA ExchangeReadLatest ==
  ASSUME LeaseInv, SerialInv, NEW h \in Leases, ReadLatest(h)
  PROVE  \E f \in 1 .. PublishedFrames : Exchange!AcquireCompleted(h, f)
<1>1. /\ latest_buffer \in Slots /\ Ready(latest_buffer) /\ leases[h] = NoSlot
      /\ frame_serial[latest_buffer] # 0
      /\ frame_serial[latest_buffer] = PublishedFrames
      /\ ready_fence' = Polled({latest_buffer})
      /\ leases' = [leases EXCEPT ![h] = latest_buffer]
      /\ newest_read' = frame_serial[latest_buffer]
      /\ UNCHANGED <<frame_serial, pixels, next_frame_serial>>
  BY DEF ReadLatest, Pin, chainVars, LeaseInv, TypeOK, PublishedInv, SerialInv, PublishedFrames
<1>2. PICK f \in 1 .. PublishedFrames : f = frame_serial[latest_buffer] /\ f \in CompleteFrames
  BY <1>1, CompleteMeansReady DEF LeaseInv
<1>3. UNCHANGED <<PublishedFrames, CompleteFrames>>
  BY <1>1, PolledPending DEF PublishedFrames, CompleteFrames, PendingFrames
<1>4. HeldFrames[h] = 0 /\ HeldFrames' = [HeldFrames EXCEPT ![h] = f]
  <2>1. pixels[latest_buffer] = f
    BY <1>1, <1>2 DEF LeaseInv, PixelsInv, WriterInv
  <2> QED
    BY <1>1, <2>1, HeldAfterPin DEF LeaseInv, TypeOK
<1>5. f \in Exchange!Selectable
  BY <1>1, <1>2 DEF Exchange!Selectable, PublishedFrames, CompleteFrames, PendingFrames
<1> QED
  BY <1>1, <1>2, <1>3, <1>4, <1>5 DEF Exchange!AcquireCompleted, Exchange!NoFrame,
     PublishedFrames, CompleteFrames, PendingFrames, HeldFrames

\* Otherwise it hands out the newest completed frame, which is no older than any
\* completed frame read before or still held, or the incomplete one if nothing
\* is complete: then nothing completed was ever read either.
LEMMA ExchangeReadOlder ==
  ASSUME SurvivalInv, SerialInv, NEW h \in Leases, ReadOlder(h)
  PROVE  \E f \in 1 .. PublishedFrames :
           Exchange!AcquireCompleted(h, f) \/ Exchange!AcquireIncomplete(h, f)
<1> DEFINE offered == {t \in Readable : Ready(t)}
<1>1. PICK s \in Slots \cup {NoSlot} :
        /\ Newest(s, offered)
        /\ IF s = NoSlot THEN Pin(h, latest_buffer) /\ newest_read' = newest_read
                         ELSE Pin(h, s) /\ newest_read' = frame_serial[s]
  BY DEF ReadOlder
<1>2. /\ leases[h] = NoSlot /\ ready_fence' = Polled(ScanPolls)
      /\ UNCHANGED <<frame_serial, pixels, next_frame_serial>>
      /\ latest_buffer \in Slots /\ frame_serial[latest_buffer] # 0
      /\ frame_serial[latest_buffer] = PublishedFrames
      /\ latest_buffer \in Readable
  BY DEF ReadOlder, chainVars, SurvivalInv, LeaseInv, TypeOK, PublishedInv, WriterInv,
     SerialInv, PublishedFrames, Readable
<1>3. UNCHANGED <<PublishedFrames, CompleteFrames>>
  BY <1>2, PolledPending DEF PublishedFrames, CompleteFrames, PendingFrames
<1>4. LeaseInv /\ TypeOK
  BY DEF SurvivalInv, LeaseInv
<1>5. \A t \in Readable : /\ t \in Slots /\ frame_serial[t] # 0
                          /\ pixels[t] = frame_serial[t]
                          /\ frame_serial[t] \in CompleteFrames <=> t \in offered
  BY <1>4, CompleteMeansReady DEF Readable, LeaseInv, PixelsInv
<1>6. \A g \in Leases : HeldFrames[g] \in CompleteFrames =>
        leases[g] \in offered /\ HeldFrames[g] = frame_serial[leases[g]]
  <2> SUFFICES ASSUME NEW g \in Leases, HeldFrames[g] \in CompleteFrames
               PROVE  leases[g] \in offered /\ HeldFrames[g] = frame_serial[leases[g]]
    OBVIOUS
  <2>1. HeldFrames[g] # 0
    BY DEF CompleteFrames
  <2>2. leases[g] \in Readable /\ HeldFrames[g] = frame_serial[leases[g]]
    BY <1>4, <2>1, HeldFrame
  <2> QED
    BY <1>5, <2>2
<1>7. ASSUME NEW t \in Readable, Pin(h, t)
      PROVE  HeldFrames[h] = 0 /\ HeldFrames' = [HeldFrames EXCEPT ![h] = frame_serial[t]]
  <2>1. leases' = [leases EXCEPT ![h] = t] /\ t \in Slots /\ pixels[t] = frame_serial[t]
    BY <1>5, <1>7 DEF Pin
  <2> QED
    BY <1>2, <1>4, <2>1, HeldAfterPin DEF TypeOK
<1>8. CASE s # NoSlot
  <2>1. s \in offered /\ \A t \in offered : frame_serial[t] <= frame_serial[s]
    BY <1>1, <1>8 DEF Newest
  <2>2. PICK f \in 1 .. PublishedFrames : f = frame_serial[s] /\ f \in CompleteFrames
    BY <1>4, <1>5, <2>1, CompleteMeansReady
  <2>3. f \in Exchange!Selectable
    <3>1. CASE PublishedFrames \in CompleteFrames
      <4>1. PublishedFrames <= f
        BY <1>2, <1>5, <2>1, <2>2, <3>1
      <4>2. f = PublishedFrames
        BY <1>4, <2>2, <4>1 DEF PublishedFrames, TypeOK
      <4> QED
        BY <3>1, <4>2 DEF Exchange!Selectable, PublishedFrames, CompleteFrames, PendingFrames
    <3>2. CASE PublishedFrames \notin CompleteFrames
      <4>1. f >= newest_read
        <5>1. CASE newest_read > 0
          <6>1. PICK t \in offered : frame_serial[t] >= newest_read
            BY <5>1 DEF SurvivalInv, CompletedFrameSurvives
          <6> QED
            BY <1>4, <1>5, <2>1, <2>2, <6>1 DEF TypeOK
        <5>2. CASE ~(newest_read > 0)
          BY <1>4, <2>2, <5>2 DEF TypeOK
        <5> QED
          BY <5>1, <5>2
      <4>2. \A g \in Leases : HeldFrames[g] \in CompleteFrames => f >= HeldFrames[g]
        BY <1>4, <1>5, <1>6, <2>1, <2>2 DEF TypeOK
      <4> QED
        BY <2>2, <3>2, <4>1, <4>2 DEF Exchange!Selectable, PublishedFrames, CompleteFrames,
           PendingFrames, HeldFrames
    <3> QED
      BY <3>1, <3>2
  <2>4. HeldFrames[h] = 0 /\ HeldFrames' = [HeldFrames EXCEPT ![h] = f] /\ newest_read' = f
    BY <1>1, <1>7, <1>8, <2>1, <2>2
  <2> QED
    BY <1>2, <1>3, <2>2, <2>3, <2>4 DEF Exchange!AcquireCompleted, Exchange!NoFrame,
       PublishedFrames, CompleteFrames, PendingFrames, HeldFrames
<1>9. CASE s = NoSlot
  <2>1. offered = {}
    BY <1>1, <1>5, <1>9 DEF Newest, Slots, NoSlot
  <2>2. PICK f \in 1 .. PublishedFrames : f = PublishedFrames /\ f \notin CompleteFrames
    BY <1>2, <1>4, <1>5, <2>1, CompleteMeansReady
  <2>3. newest_read = 0
    BY <1>4, <2>1 DEF SurvivalInv, CompletedFrameSurvives, TypeOK
  <2>4. \A g \in Leases : HeldFrames[g] \notin CompleteFrames
    BY <1>6, <2>1
  <2>5. f \in Exchange!SelectableIncomplete
    BY <1>4, <2>2, <2>3, <2>4 DEF Exchange!SelectableIncomplete, PublishedFrames,
       CompleteFrames, PendingFrames, HeldFrames, TypeOK
  <2>6. HeldFrames[h] = 0 /\ HeldFrames' = [HeldFrames EXCEPT ![h] = f]
        /\ newest_read' = newest_read
    BY <1>1, <1>2, <1>7, <1>9, <2>2
  <2> QED
    BY <1>2, <1>3, <2>2, <2>5, <2>6 DEF Exchange!AcquireIncomplete, Exchange!NoFrame,
       PublishedFrames, CompleteFrames, PendingFrames, HeldFrames
<1> QED
  BY <1>8, <1>9

\* A second reference shares the frame; a dropped one lets go of it.
LEMMA ExchangeRetain ==
  ASSUME LeaseInv, NEW h \in Leases, NEW g \in Leases, Retain(h, g)
  PROVE  Exchange!Share(h, g)
<1>1. /\ leases[h] = NoSlot /\ leases[g] # NoSlot
      /\ leases' = [leases EXCEPT ![h] = leases[g]]
      /\ UNCHANGED <<frame_serial, ready_fence, pixels, next_frame_serial, newest_read>>
  BY DEF Retain, Pin, slotVars, chainVars
<1>2. HeldFrames[h] = 0 /\ HeldFrames[g] # 0
  BY <1>1, HeldFrame
<1>3. HeldFrames' = [HeldFrames EXCEPT ![h] = HeldFrames[g]]
  BY <1>1 DEF HeldFrames, LeaseInv, TypeOK
<1> QED
  BY <1>1, <1>2, <1>3 DEF Exchange!Share, Exchange!NoFrame, HeldFrames

LEMMA ExchangeRelease ==
  ASSUME LeaseInv, NEW h \in Leases, Release(h)
  PROVE  Exchange!Drop(h)
<1>1. /\ leases[h] # NoSlot
      /\ leases' = [leases EXCEPT ![h] = NoSlot]
      /\ UNCHANGED <<frame_serial, ready_fence, pixels, next_frame_serial, newest_read>>
  BY DEF Release, slotVars, chainVars
<1>2. HeldFrames[h] # 0
  BY <1>1, HeldFrame
<1>3. HeldFrames' = [HeldFrames EXCEPT ![h] = 0]
  BY <1>1 DEF HeldFrames, LeaseInv, TypeOK
<1> QED
  BY <1>1, <1>2, <1>3 DEF Exchange!Drop, Exchange!NoFrame, HeldFrames

LEMMA ExchangeRead ==
  ASSUME SurvivalInv, SerialInv, Read
  PROVE  [Exchange!Next]_(Exchange!vars)
<1>1. LeaseInv
  BY DEF SurvivalInv
<1>2. CASE FindLatestPending
  BY <1>2, Invisible DEF FindLatestPending, slotVars, chainVars, leaseVars
<1>3. CASE LatestFrameReady
  BY <1>3, Invisible, PolledPending DEF LatestFrameReady, chainVars, leaseVars
<1>4. ASSUME NEW h \in Leases, ReadLatest(h) PROVE Exchange!Next
  BY <1>1, <1>4, ExchangeReadLatest DEF Exchange!Next, PublishedFrames
<1>5. ASSUME NEW h \in Leases, ReadOlder(h) PROVE Exchange!Next
  BY <1>5, ExchangeReadOlder DEF Exchange!Next, PublishedFrames
<1>6. ASSUME NEW h \in Leases, Release(h) PROVE Exchange!Next
  BY <1>1, <1>6, ExchangeRelease DEF Exchange!Next
<1>7. ASSUME NEW h \in Leases, PollLease(h) PROVE UNCHANGED Exchange!vars
  BY <1>7, Invisible, PolledPending DEF PollLease, chainVars, leaseVars
<1>8. ASSUME NEW h \in Leases, NEW g \in Leases, Retain(h, g) PROVE Exchange!Next
  BY <1>1, <1>8, ExchangeRetain DEF Exchange!Next
<1> QED
  BY <1>2, <1>3, <1>4, <1>5, <1>6, <1>7, <1>8 DEF Read

LEMMA ExchangeNext ==
  SurvivalInv /\ SerialInv /\ [Next]_vars => [Exchange!Next]_(Exchange!vars)
<1> SUFFICES ASSUME SurvivalInv, SerialInv, [Next]_vars
             PROVE  [Exchange!Next]_(Exchange!vars)
  OBVIOUS
<1>1. LeaseInv
  BY DEF SurvivalInv
<1>2. CASE StartWrite
  BY <1>1, <1>2, ExchangeStartWrite
<1>3. CASE Present
  BY <1>1, <1>3, ExchangeEndWrite DEF Present, Exchange!Next
<1>4. CASE Read
  BY <1>4, ExchangeRead
<1>5. ASSUME NEW s \in Slots, Signal(s) PROVE [Exchange!Next]_(Exchange!vars)
  BY <1>1, <1>5, ExchangeSignal DEF Exchange!Next, PublishedFrames
<1>6. CASE RequestStop
  BY <1>6, Invisible DEF RequestStop, slotVars, chainVars, leaseVars
<1>7. CASE UNCHANGED vars
  BY <1>7, Invisible DEF vars
<1> QED
  BY <1>2, <1>3, <1>4, <1>5, <1>6, <1>7 DEF Next

LEMMA ExchangeInit == Init => Exchange!Init
<1> SUFFICES ASSUME Init PROVE Exchange!Init
  OBVIOUS
<1> QED
  BY DEF Init, Exchange!Init, Exchange!NoFrame

\* The chain is a FrameExchange: whatever the writer, the readers and the GPU do,
\* readers are handed whole frames, completed ones first, never going backwards,
\* and what they hold stays (ImplementsFrameExchange; start_write, end_write,
\* start_read_slot).
THEOREM ChainImplementsExchange == Spec => ImplementsFrameExchange
<1>1. Init => SurvivalInv /\ SerialInv
  BY LeaseInvInit
  DEF Init, SurvivalInv, CompletedFrameSurvives, SparedInv, SerialInv
<1>2. SurvivalInv => LeaseInv
  BY DEF SurvivalInv
<1> QED
  BY <1>1, <1>2, SurvivalInvNext, SerialInvNext, ExchangeNext, ExchangeInit, PTL
  DEF Spec, ImplementsFrameExchange, Exchange!Spec
=============================================================================
