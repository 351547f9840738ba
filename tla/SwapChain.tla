----------------------------- MODULE SwapChain -----------------------------
(***************************************************************************)
(* The composition swapchain (swap_chain.hpp, swap_chain.tpp): the slots    *)
(* through which Flutter's raster thread hands frames to the outputs.       *)
(*                                                                          *)
(* Three parties act on it:                                                 *)
(*   raster   the Flutter raster thread.  attach_framebuffer calls          *)
(*            start_write, which may wait for the GPU without holding the   *)
(*            chain's mutex; flutter_present calls end_write.               *)
(*   wayland  the compositor's main thread.  Outputs select frames with     *)
(*            start_read_slot and keep them with leases.  Leases are        *)
(*            dropped, and fences of leased slots polled, WITHOUT the mutex. *)
(*   GPU      signals the ready fence of a slot, in any order.              *)
(*                                                                          *)
(* Critical sections are one action each, except where another thread can   *)
(* change what the section reads: between the two scans of                  *)
(* choose_write_buffer_locked, before start_write looks for a fence to      *)
(* wait on, and between the two looks start_read_slot takes at fences.      *)
(* Within one scan the polls commute with the signals and releases on other *)
(* slots, so a scan is atomic.                                              *)
(***************************************************************************)
EXTENDS DamageHistory, FiniteSets

CONSTANTS
  N,            \* number of slots
  Leases,       \* identities of the shared_ptr leases that may be alive at once
  FrameDamages, \* damage lists the engine side may pass to end_write
  MaxSerial     \* bound on the frames published in a behaviour

ASSUME ChainAssumption ==
  /\ N \in Nat /\ N >= 4      \* assert(buffers.size() >= 4)
  /\ MaxSerial \in Nat
  /\ IsFiniteSet(Leases)

Slots == 1..N
NoSlot == 0
Torn == -1       \* pixels of a slot somebody is drawing into

VARIABLES
  frame_serial,       \* serial of the frame last published in each slot, 0 if none
  ready_fence,        \* "none" (-1 in the code), "pending" or "signalled"
  presentation_refs,  \* number of leases the slot knows of
  pixels,             \* serial of the frame whose drawing commands fill the slot
  write_buffer, latest_buffer, write_in_progress, next_frame_serial,
  damage_history,
  raster,             \* where the raster thread is in start_write
  newest_ready,       \* its local in choose_write_buffer_locked
  pending,            \* the slot whose duplicated fence it waits on
  raster_target,      \* EmbedderState::raster_target holds this chain
  wayland,            \* where the Wayland thread is in start_read_slot
  leases,             \* the slot each lease pins
  stop_requested,     \* EmbedderState::stop_signal
  newest_read         \* history: highest serial handed to a reader as completed

slotVars == <<frame_serial, ready_fence, pixels>>
chainVars == <<write_buffer, latest_buffer, write_in_progress, next_frame_serial,
               damage_history>>
rasterVars == <<raster, newest_ready, pending, raster_target>>
leaseVars == <<presentation_refs, leases>>
vars == <<frame_serial, ready_fence, presentation_refs, pixels, write_buffer,
          latest_buffer, write_in_progress, next_frame_serial, damage_history,
          raster, newest_ready, pending, raster_target, wayland, leases,
          stop_requested, newest_read>>

-----------------------------------------------------------------------------
Presented(s) == presentation_refs[s] > 0

\* What Slot::is_ready_nonblocking answers ...
Ready(s) == ready_fence[s] # "pending"

\* ... and what asking it about every slot of S does: a signalled fence is consumed.
Polled(S) == [s \in Slots |-> IF s \in S /\ ready_fence[s] = "signalled"
                              THEN "none" ELSE ready_fence[s]]

\* The slot with the highest serial of S, or NoSlot.
Newest(s, S) ==
  \/ S = {} /\ s = NoSlot
  \/ s \in S /\ \A t \in S : frame_serial[t] <= frame_serial[s]

\* The slot of S with the lowest serial, the first of them in slot order.
Oldest(s, S) ==
  /\ s \in S
  /\ \A t \in S : \/ frame_serial[s] < frame_serial[t]
                  \/ frame_serial[s] = frame_serial[t] /\ s <= t

\* Nobody is inside a critical section of the chain's mutex.
MutexFree == raster \notin {"scanned", "unchosen"} /\ wayland = "idle"

Init ==
  /\ frame_serial = [s \in Slots |-> 0]
  /\ ready_fence = [s \in Slots |-> "none"]
  /\ presentation_refs = [s \in Slots |-> 0]
  /\ pixels = [s \in Slots |-> 0]
  /\ write_buffer = N
  /\ latest_buffer = NoSlot
  /\ write_in_progress = FALSE
  /\ next_frame_serial = 1
  /\ damage_history = NewJournal(1)
  /\ raster = "idle"
  /\ newest_ready = NoSlot
  /\ pending = NoSlot
  /\ raster_target = FALSE
  /\ wayland = "idle"
  /\ leases = [h \in Leases |-> NoSlot]
  /\ stop_requested = FALSE
  /\ newest_read = 0

-----------------------------------------------------------------------------
(* Raster thread: attach_framebuffer -> start_write                        *)

\* Mutant: the slot's own fence is polled, which another poll may have closed,
\* instead of a duplicate.
AtLoopTopOwnFence ==
  /\ MutexFree
  /\ \/ raster = "idle"
     \/ raster = "waiting" /\ ready_fence[pending] = "signalled"

\* At the top of start_write's loop, on entry or after the awaited fence signalled.
AtLoopTop ==
  /\ MutexFree
  /\ \/ raster = "idle"
     \/ raster = "waiting" /\ Ready(pending)

\* start_write returns nullptr because of the stop signal, seen at the top of
\* the loop or by the poll; attach_framebuffer forgets its target.
StartWriteStopped ==
  /\ stop_requested
  /\ raster = "waiting" \/ AtLoopTop
  /\ raster' = "idle"
  /\ pending' = NoSlot
  /\ raster_target' = FALSE
  /\ UNCHANGED <<slotVars, chainVars, leaseVars, newest_ready, wayland,
                 stop_requested, newest_read>>

\* A target obtained earlier and never presented may be used again.
Reusable ==
  /\ write_in_progress
  /\ write_buffer # NoSlot
  /\ write_buffer # latest_buffer
  /\ ~Presented(write_buffer)

StartWriteReuse ==
  /\ ~stop_requested
  /\ AtLoopTop
  /\ Reusable
  /\ raster' = "idle"
  /\ pending' = NoSlot
  /\ raster_target' = TRUE
  /\ UNCHANGED <<slotVars, chainVars, leaseVars, newest_ready, wayland,
                 stop_requested, newest_read>>

\* choose_write_buffer_locked, first scan: the newest completed frame is kept.
ScanNewestReady ==
  /\ ~stop_requested
  /\ AtLoopTop
  /\ ~Reusable
  /\ LET published == {s \in Slots : frame_serial[s] # 0}
     IN /\ \E s \in Slots \cup {NoSlot} :
             /\ Newest(s, {t \in published : Ready(t)})
             /\ newest_ready' = s
        /\ ready_fence' = Polled(published)
  /\ raster' = "scanned"
  /\ pending' = NoSlot
  /\ UNCHANGED <<frame_serial, pixels, chainVars, leaseVars, raster_target, wayland,
                 stop_requested, newest_read>>

\* Mutants: leased slots, or the newest completed frame, are not spared, or the
\* fence of the chosen slot is not asked for.
OverwritableLeased == {s \in Slots : s # latest_buffer /\ s # newest_ready}
OverwritableNewest == {s \in Slots : s # latest_buffer /\ ~Presented(s)}
CandidatesUnfinished == {s \in Slots : s # latest_buffer /\ s # newest_ready /\ ~Presented(s)}

\* Slots the second scan asks about, and those it may take.
Overwritable == {s \in Slots : s # latest_buffer /\ s # newest_ready /\ ~Presented(s)}
Candidates == {s \in Overwritable : Ready(s)}

\* choose_write_buffer_locked, second scan, finds the oldest free slot.
ChooseWriteBuffer ==
  /\ raster = "scanned"
  /\ \E s \in Slots :
       /\ Oldest(s, Candidates)
       /\ write_buffer' = s
       /\ pixels' = [pixels EXCEPT ![s] = Torn]
  /\ write_in_progress' = TRUE
  /\ ready_fence' = Polled(Overwritable)
  /\ raster' = "idle"
  /\ newest_ready' = NoSlot
  /\ raster_target' = TRUE
  /\ UNCHANGED <<frame_serial, latest_buffer, next_frame_serial, damage_history,
                 leaseVars, pending, wayland, stop_requested, newest_read>>

\* ... or nothing.
NoWriteBuffer ==
  /\ raster = "scanned"
  /\ Candidates = {}
  /\ write_buffer' = NoSlot
  /\ write_in_progress' = FALSE
  /\ raster' = "unchosen"
  /\ newest_ready' = NoSlot
  /\ UNCHANGED <<slotVars, latest_buffer, next_frame_serial, damage_history,
                 leaseVars, pending, raster_target, wayland, stop_requested,
                 newest_read>>

\* Mutant: the fence of the latest frame is not waited for.
AwaitableNotLatest ==
  {s \in Slots : s # latest_buffer /\ ~Presented(s) /\ ready_fence[s] # "none"}

\* Slots whose fence start_write may wait for.
Awaitable == {s \in Slots : ~Presented(s) /\ ready_fence[s] # "none"}

\* The fence is duplicated and the mutex released before the poll.
WaitForFence ==
  /\ raster = "unchosen"
  /\ \E s \in Slots : Oldest(s, Awaitable) /\ pending' = s
  /\ raster' = "waiting"
  /\ UNCHANGED <<slotVars, chainVars, leaseVars, newest_ready, raster_target,
                 wayland, stop_requested, newest_read>>

\* "All remaining buffers are leased": start_write returns nullptr.
Refusing == raster = "unchosen" /\ Awaitable = {}

RefuseWrite ==
  /\ Refusing
  /\ raster' = "idle"
  /\ raster_target' = FALSE
  /\ UNCHANGED <<slotVars, chainVars, leaseVars, newest_ready, pending, wayland,
                 stop_requested, newest_read>>

\* fcntl cannot duplicate the fence, or the poll fails: also nullptr.
FenceWaitFails ==
  /\ \/ raster = "unchosen" /\ Awaitable # {}
     \/ raster = "waiting"
  /\ raster' = "idle"
  /\ pending' = NoSlot
  /\ raster_target' = FALSE
  /\ UNCHANGED <<slotVars, chainVars, leaseVars, newest_ready, wayland,
                 stop_requested, newest_read>>

-----------------------------------------------------------------------------
(* Raster thread: flutter_present -> commit_framebuffer -> end_write       *)

\* fence is "none" when no native fence could be made and glFinish was called.
EndWrite(damage, fence) ==
  /\ raster = "idle"
  /\ raster_target
  /\ MutexFree
  /\ write_buffer # NoSlot
  /\ next_frame_serial <= MaxSerial
  /\ ready_fence' = [ready_fence EXCEPT ![write_buffer] = fence]
  /\ damage_history' = Publish(damage_history, next_frame_serial, Normalize(damage))
  /\ frame_serial' = [frame_serial EXCEPT ![write_buffer] = next_frame_serial]
  /\ pixels' = [pixels EXCEPT ![write_buffer] = next_frame_serial]
  /\ next_frame_serial' = next_frame_serial + 1
  /\ latest_buffer' = write_buffer
  /\ write_in_progress' = FALSE
  /\ raster_target' = FALSE
  /\ UNCHANGED <<leaseVars, write_buffer, raster, newest_ready, pending, wayland,
                 stop_requested, newest_read>>

-----------------------------------------------------------------------------
(* Wayland thread                                                          *)

Pin(h, s) ==
  /\ leases' = [leases EXCEPT ![h] = s]
  /\ presentation_refs' = [presentation_refs EXCEPT ![s] = @ + 1]

\* start_read_slot when the newest frame is complete.
ReadLatest(h) ==
  /\ MutexFree
  /\ leases[h] = NoSlot
  /\ latest_buffer # NoSlot
  /\ Ready(latest_buffer)
  /\ ready_fence' = Polled({latest_buffer})
  /\ Pin(h, latest_buffer)
  /\ newest_read' = frame_serial[latest_buffer]
  /\ UNCHANGED <<frame_serial, pixels, chainVars, rasterVars, wayland, stop_requested>>

\* start_read_slot when it is not: the mutex stays taken for the scan.
FindLatestPending ==
  /\ MutexFree
  /\ \E h \in Leases : leases[h] = NoSlot
  /\ latest_buffer # NoSlot
  /\ ~Ready(latest_buffer)
  /\ wayland' = "scanning"
  /\ UNCHANGED <<slotVars, chainVars, rasterVars, leaseVars, stop_requested, newest_read>>

\* Mutant: the slot being drawn into is offered to readers.
ReadableWhileWritten == {s \in Slots : frame_serial[s] # 0}

\* Published slots that are not being drawn into.
Readable == {s \in Slots : /\ frame_serial[s] # 0
                           /\ ~(write_in_progress /\ s = write_buffer)}

\* The scan polls a slot only if no completed slot before it has a higher serial.
ScanPolls == {s \in Readable :
                ~\E t \in Readable : /\ t < s
                                     /\ Ready(t)
                                     /\ frame_serial[t] > frame_serial[s]}

\* The newest completed frame is leased, or the pending one if there is none.
ReadOlder(h) ==
  /\ wayland = "scanning"
  /\ leases[h] = NoSlot
  /\ \E s \in Slots \cup {NoSlot} :
       /\ Newest(s, {t \in Readable : Ready(t)})
       /\ IF s = NoSlot
          THEN Pin(h, latest_buffer) /\ UNCHANGED newest_read
          ELSE Pin(h, s) /\ newest_read' = frame_serial[s]
  /\ ready_fence' = Polled(ScanPolls)
  /\ wayland' = "idle"
  /\ UNCHANGED <<frame_serial, pixels, chainVars, rasterVars, stop_requested>>

\* swap_presented_slot takes a second reference on a slot already leased.
Retain(h, g) ==
  /\ wayland = "idle"
  /\ leases[h] = NoSlot
  /\ leases[g] # NoSlot
  /\ Pin(h, leases[g])
  /\ UNCHANGED <<slotVars, chainVars, rasterVars, wayland, stop_requested, newest_read>>

\* Mutant: the deleter forgets the slot's reference.
ReleaseLeaks(h) ==
  /\ wayland = "idle"
  /\ leases[h] # NoSlot
  /\ leases' = [leases EXCEPT ![h] = NoSlot]
  /\ UNCHANGED <<presentation_refs, slotVars, chainVars, rasterVars, wayland,
                 stop_requested, newest_read>>

\* The lease's deleter, or release_presented_slot.  No mutex.
Release(h) ==
  /\ wayland = "idle"
  /\ leases[h] # NoSlot
  /\ leases' = [leases EXCEPT ![h] = NoSlot]
  /\ presentation_refs' = [presentation_refs EXCEPT
                             ![leases[h]] = IF @ > 0 THEN @ - 1 ELSE @]
  /\ UNCHANGED <<slotVars, chainVars, rasterVars, wayland, stop_requested, newest_read>>

\* output_frame asks whether a slot it leases is complete.  No mutex.
PollLease(h) ==
  /\ wayland = "idle"
  /\ leases[h] # NoSlot
  /\ ready_fence' = Polled({leases[h]})
  /\ UNCHANGED <<frame_serial, pixels, chainVars, rasterVars, leaseVars, wayland,
                 stop_requested, newest_read>>

\* The vsync scheduler's admission check.
LatestFrameReady ==
  /\ MutexFree
  /\ latest_buffer # NoSlot
  /\ ready_fence' = Polled({latest_buffer})
  /\ UNCHANGED <<frame_serial, pixels, chainVars, rasterVars, leaseVars, wayland,
                 stop_requested, newest_read>>

-----------------------------------------------------------------------------
(* GPU and shutdown                                                        *)

Signal(s) ==
  /\ ready_fence[s] = "pending"
  /\ ready_fence' = [ready_fence EXCEPT ![s] = "signalled"]
  /\ UNCHANGED <<frame_serial, pixels, chainVars, rasterVars, leaseVars, wayland,
                 stop_requested, newest_read>>

RequestStop ==
  /\ ~stop_requested
  /\ stop_requested' = TRUE
  /\ UNCHANGED <<slotVars, chainVars, rasterVars, leaseVars, wayland, newest_read>>

-----------------------------------------------------------------------------
StartWrite ==
  \/ StartWriteStopped
  \/ StartWriteReuse
  \/ ScanNewestReady
  \/ ChooseWriteBuffer
  \/ NoWriteBuffer
  \/ WaitForFence
  \/ RefuseWrite
  \/ FenceWaitFails

Present == \E damage \in FrameDamages, fence \in {"none", "pending"} : EndWrite(damage, fence)

Read ==
  \/ FindLatestPending
  \/ LatestFrameReady
  \/ \E h \in Leases : ReadLatest(h) \/ ReadOlder(h) \/ Release(h) \/ PollLease(h)
  \/ \E h, g \in Leases : Retain(h, g)

Next ==
  \/ StartWrite
  \/ Present
  \/ Read
  \/ \E s \in Slots : Signal(s)
  \/ RequestStop

Spec == Init /\ [][Next]_vars

\* Submitted GPU work ends; a thread inside a critical section leaves it; the
\* raster thread, once woken, gets the mutex although the Wayland thread keeps
\* taking it (start_read_slot and latest_frame_ready hold it for a scan only).
Fairness ==
  /\ \A s \in Slots : WF_vars(Signal(s))
  /\ WF_vars(ChooseWriteBuffer \/ NoWriteBuffer \/ WaitForFence \/ RefuseWrite)
  /\ WF_vars(\E h \in Leases : ReadOlder(h))
  /\ SF_vars(StartWriteStopped \/ StartWriteReuse \/ ScanNewestReady)

FairSpec == Spec /\ Fairness

-----------------------------------------------------------------------------
(* Properties                                                              *)

\* Every variable has the type of its counterpart in SwapChain, Slot and
\* EmbedderState.
TypeOK ==
  /\ frame_serial \in [Slots -> Nat]
  /\ ready_fence \in [Slots -> {"none", "pending", "signalled"}]
  /\ presentation_refs \in [Slots -> Nat]
  /\ pixels \in [Slots -> Nat \cup {Torn}]
  /\ write_buffer \in Slots \cup {NoSlot}
  /\ latest_buffer \in Slots \cup {NoSlot}
  /\ write_in_progress \in BOOLEAN
  /\ next_frame_serial \in Nat \ {0}
  /\ raster \in {"idle", "scanned", "unchosen", "waiting"}
  /\ newest_ready \in Slots \cup {NoSlot}
  /\ pending \in Slots \cup {NoSlot}
  /\ raster_target \in BOOLEAN
  /\ wayland \in {"idle", "scanning"}
  /\ leases \in [Leases -> Slots \cup {NoSlot}]
  /\ stop_requested \in BOOLEAN
  /\ newest_read \in Nat

\* A slot some output leases is never the one the raster thread draws into, and
\* still holds the frame published under its serial ("Never overwrite a frame
\* being read/submitted by an output", choose_write_buffer_locked).
LeaseSafety ==
  \A h \in Leases : leases[h] # NoSlot =>
    /\ ~(write_in_progress /\ write_buffer = leases[h])
    /\ pixels[leases[h]] = frame_serial[leases[h]]
    /\ frame_serial[leases[h]] # 0

\* presentation_refs counts the leases: a reference is neither leaked, which
\* would take the slot out of circulation, nor dropped twice, which would
\* expose a frame that is still on screen.
RefCountExact ==
  \A s \in Slots : presentation_refs[s] = Cardinality({h \in Leases : leases[h] = s})

\* The newest completed frame a reader has seen, or a newer completed one, is
\* still there to be read, whatever the writer does meanwhile ("Preserve a
\* completed frame for the reader").
CompletedFrameSurvives ==
  newest_read > 0 =>
    \E s \in Readable : Ready(s) /\ frame_serial[s] >= newest_read

\* A frame is published only into a slot whose previous GPU work has ended:
\* end_write closes the fence it replaces, so an unfinished one would be lost
\* ("never replace an unfinished slot's fence", start_write).
UnfinishedFenceKept ==
  [][\A s \in Slots : frame_serial'[s] # frame_serial[s] =>
       ready_fence[s] = "none"]_vars

\* start_write gives a frame up for want of a slot ("All remaining buffers are
\* leased by an output") only if more than N - 2 slots are leased when it looks, or
\* if the newest frame, spared as the pending one, has completed since.
RefusedOnlyWhenLeased ==
  [][raster = "scanned" /\ raster' = "unchosen" /\ Awaitable = {} =>
       \/ Cardinality({s \in Slots : Presented(s)}) > N - 2
       \/ /\ newest_ready # latest_buffer
          /\ ready_fence[latest_buffer] = "none"]_vars

\* start_write comes back, with a slot or without, although readers keep taking
\* the mutex and leasing the slots it waits for.
StartWriteReturns == raster # "idle" ~> raster = "idle"

\* The chain as a FrameExchange: a frame is complete unless its slot's fence is
\* pending, and a lease holds whatever was drawn into its slot.
Exchange == INSTANCE FrameExchange WITH
  published <- next_frame_serial - 1,
  complete <- (1 .. next_frame_serial - 1) \
                {frame_serial[s] : s \in {t \in Slots : ready_fence[t] = "pending"}},
  held <- [h \in Leases |-> IF leases[h] = NoSlot THEN 0 ELSE pixels[leases[h]]],
  newest_read <- newest_read

\* The chain keeps the promises of FrameExchange.
ImplementsFrameExchange == Exchange!Spec
=============================================================================
