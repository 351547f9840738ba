---------------------------- MODULE OutputFrame ----------------------------
(***************************************************************************)
(* Presentation of composition frames on the outputs: output_frame          *)
(* (output.cpp), the composition target's replacement                       *)
(* (ensure_composition_target, clear_composition_target, reconcile) and the *)
(* scheduling of repaints.  It runs on the Wayland thread over the chain,   *)
(* of which it uses what FrameExchange.tla promises; the chain is replaced  *)
(* by one of a new generation whenever the layout changes.                  *)
(*                                                                          *)
(* Pixels are modelled: every frame has a picture, every output a screen,   *)
(* and a commit redraws only the damaged part of the screen, as wlr_scene   *)
(* does.  A pixel of a picture is the serial of the last frame that changed *)
(* it, so two frames agree on the pixels that did not change in between.    *)
(*                                                                          *)
(* Left out: the call of vsync_callback by the driving output, which        *)
(* touches none of these variables (VsyncScheduler.tla), frame-done events, *)
(* and outputs without a box in the layout.  The branch of output_frame for *)
(* a source older than what is displayed is not an action:                  *)
(* SelectionNeverRegresses says that it is never taken.                     *)
(***************************************************************************)
EXTENDS DamageHistory

CONSTANTS
  Outputs,
  Boxes,          \* source boxes an output may have
  Reports,        \* damage reports (lists of engine rectangles) of a frame
  MaxFrames,      \* bound on the frames published per generation
  MaxGenerations  \* bound on the chains created

\* The composition covers every box (OutputConfiguration.tla).
ASSUME BoxesAssumption == Boxes \subseteq Rects

ASSUME ReportsAssumption ==
  Reports \subseteq Seq([finite : BOOLEAN, left : Int, top : Int, right : Int, bottom : Int])

ASSUME BoundsAssumption == MaxFrames \in Nat /\ MaxGenerations \in Nat

VARIABLES
  generation,     \* of the last chain created
  target,         \* whether published_target_ is set
  published, complete, newest_read,   \* the chain, see FrameExchange
  damage_history, \* its journal
  pictures,       \* the picture of every published frame of the chain
  notified,       \* commit_framebuffer's task is queued for the Wayland thread
  enabled, box,   \* per output: wlr_output->enabled, its source box
  scene, presented,         \* frames leased by scene_slot and presented_slot, 0 if none
  scene_commit_pending,
  last_scene_buffer,        \* whether it is set
  last_source_box,          \* the box of the last commit, NoBox if none
  last_presented_source_serial, last_source_generation,
  cursor_frame_pending, cursor_cleanup_pending,
  frame_due,      \* wlroots will emit the output's frame event
  retry,          \* schedule_frame_timer is armed
  scene_box, scene_damage, screen     \* wlr_scene: box, damage, pixels on screen

chainVars == <<generation, target, published, complete, newest_read, damage_history,
               pictures>>
configVars == <<enabled, box>>
shownVars == <<last_scene_buffer, last_source_box, last_presented_source_serial,
               last_source_generation, screen>>
sceneVars == <<scene, presented, scene_commit_pending, scene_box, scene_damage>>
cursorVars == <<cursor_frame_pending, cursor_cleanup_pending>>
vars == <<chainVars, notified, configVars, sceneVars, shownVars, cursorVars,
          frame_due, retry>>

-----------------------------------------------------------------------------
PixelsOf(rect) == (rect.left .. rect.right - 1) \X (rect.top .. rect.bottom - 1)
Composition == (0 .. Width - 1) \X (0 .. Height - 1)

NoBox == [left |-> 0, top |-> 0, right |-> 0, bottom |-> 0]
Blank == <<0, 0>>

\* Screen coordinates are relative to the output's box, and a screen is as large
\* as its box (last_dest_width, last_dest_height).
At(b, p) == <<b.left + p[1], b.top + p[2]>>
Screen(b) == {p \in Composition : At(b, p) \in PixelsOf(b)}
BlankScreen == [p \in Composition |-> Blank]

\* Pixels a frame with this damage report has changed.
Touched(report) ==
  IF report = << >> THEN Composition
  ELSE UNION {PixelsOf(Snapped(report[i]).rect) : i \in DOMAIN report}

\* The leases of all outputs, as readers of the chain.
Chain == INSTANCE FrameExchange WITH
  Leases <- Outputs \X {"scene", "presented"},
  held <- [h \in Outputs \X {"scene", "presented"} |->
             IF h[2] = "scene" THEN scene[h[1]] ELSE presented[h[1]]]

Init ==
  /\ generation = 0 /\ target = FALSE
  /\ published = 0 /\ complete = {} /\ newest_read = 0
  /\ damage_history = NewJournal(0)
  /\ pictures = << >>
  /\ notified = FALSE
  /\ enabled = [o \in Outputs |-> FALSE]
  /\ box \in [Outputs -> Boxes]
  /\ scene = [o \in Outputs |-> 0]
  /\ presented = [o \in Outputs |-> 0]
  /\ scene_commit_pending = [o \in Outputs |-> FALSE]
  /\ last_scene_buffer = [o \in Outputs |-> FALSE]
  /\ last_source_box = [o \in Outputs |-> NoBox]
  /\ last_presented_source_serial = [o \in Outputs |-> 0]
  /\ last_source_generation = [o \in Outputs |-> 0]
  /\ cursor_frame_pending = [o \in Outputs |-> FALSE]
  /\ cursor_cleanup_pending = [o \in Outputs |-> FALSE]
  /\ frame_due = [o \in Outputs |-> FALSE]
  /\ retry = [o \in Outputs |-> FALSE]
  /\ scene_box = [o \in Outputs |-> NoBox]
  /\ scene_damage = [o \in Outputs |-> Composition]
  /\ screen = [o \in Outputs |-> BlankScreen]

-----------------------------------------------------------------------------
(* The chain: raster thread, GPU, and the queue to the Wayland thread       *)

\* end_write, then the task of commit_framebuffer.  The first frame of a chain
\* fills the picture whatever it reports.
PublishFrame(report) ==
  /\ target
  /\ published < MaxFrames
  /\ published' = published + 1
  /\ complete' \in {complete, complete \cup {published + 1}}
  /\ damage_history' = Publish(damage_history, published + 1, Normalize(report))
  /\ pictures' = Append(pictures,
       [p \in Composition |->
          IF published = 0 \/ p \in Touched(report)
          THEN published + 1 ELSE pictures[published][p]])
  /\ notified' = TRUE
  /\ UNCHANGED <<generation, target, newest_read, configVars, sceneVars, shownVars,
                 cursorVars, frame_due, retry>>

CompleteFrame(f) ==
  /\ f \in (1..published) \ complete
  /\ complete' = complete \cup {f}
  /\ UNCHANGED <<generation, target, published, newest_read, damage_history, pictures,
                 notified, configVars, sceneVars, shownVars, cursorVars, frame_due, retry>>

\* schedule_output_frame for each output: at once, or by the timer when the last
\* commit is less than a refresh interval old.
Scheduled(now) ==
  /\ now \subseteq {o \in Outputs : enabled[o]}
  /\ frame_due' = [o \in Outputs |-> frame_due[o] \/ o \in now]
  /\ retry' = [o \in Outputs |-> retry[o] \/ (enabled[o] /\ o \notin now)]

\* The queued task: schedule_compositor_frame.
RunFrameTask ==
  /\ notified
  /\ notified' = FALSE
  /\ \E now \in SUBSET Outputs : Scheduled(now)
  /\ UNCHANGED <<chainVars, configVars, sceneVars, shownVars, cursorVars>>

RetryFires(o) ==
  /\ retry[o]
  /\ retry' = [retry EXCEPT ![o] = FALSE]
  /\ frame_due' = [frame_due EXCEPT ![o] = @ \/ enabled[o]]
  /\ UNCHANGED <<chainVars, notified, configVars, sceneVars, shownVars, cursorVars>>

\* wlroots emits a frame event of its own: a page flip, damage of a client.
FlipFinishes(o) ==
  /\ enabled[o]
  /\ ~frame_due[o]
  /\ frame_due' = [frame_due EXCEPT ![o] = TRUE]
  /\ UNCHANGED <<chainVars, notified, configVars, sceneVars, shownVars, cursorVars, retry>>

\* schedule_cursor_frame, for one output that needs it.
ScheduleCursorFrame(o, cleanup) ==
  /\ enabled[o]
  /\ cursor_frame_pending' = [cursor_frame_pending EXCEPT ![o] = TRUE]
  /\ cursor_cleanup_pending' = [cursor_cleanup_pending EXCEPT ![o] = @ \/ cleanup]
  /\ frame_due' = [frame_due EXCEPT ![o] = TRUE]
  /\ UNCHANGED <<chainVars, notified, configVars, sceneVars, shownVars, retry>>

-----------------------------------------------------------------------------
(* Reconfiguration: reconcile -> ensure_composition_target                 *)

\* A disabled output loses its picture and its timer.
Enable(on) ==
  /\ enabled' = [o \in Outputs |-> o \in on]
  /\ retry' = [o \in Outputs |-> retry[o] /\ o \in on]
  /\ frame_due' = [o \in Outputs |-> o \in on]
  /\ screen' = [o \in Outputs |-> IF o \in on THEN screen[o] ELSE BlankScreen]

EmptyChain ==
  /\ published' = 0 /\ complete' = {} /\ newest_read' = 0
  /\ damage_history' = NewJournal(generation')
  /\ pictures' = << >>
  /\ notified' = FALSE

DropLeases ==
  /\ scene' = [o \in Outputs |-> 0]
  /\ presented' = [o \in Outputs |-> 0]
  /\ scene_box' = [o \in Outputs |-> NoBox]
  /\ scene_damage' = [o \in Outputs |-> Composition]

NewTarget(on, boxes) ==
  /\ on # {}
  /\ generation < MaxGenerations
  /\ generation' = generation + 1
  /\ target' = TRUE
  /\ EmptyChain
  /\ Enable(on)
  /\ box' = boxes
  /\ DropLeases
  /\ scene_commit_pending' = [o \in Outputs |-> FALSE]
  /\ last_scene_buffer' = [o \in Outputs |-> FALSE]
  /\ last_source_box' = [o \in Outputs |-> NoBox]
  /\ last_presented_source_serial' = [o \in Outputs |-> 0]
  /\ UNCHANGED <<last_source_generation, cursorVars>>

\* No output is on, or the buffers cannot be allocated: clear_composition_target.
ClearTarget(on) ==
  /\ target
  /\ target' = FALSE
  /\ UNCHANGED generation
  /\ EmptyChain
  /\ Enable(on)
  /\ DropLeases
  /\ UNCHANGED <<box, scene_commit_pending, last_scene_buffer, last_source_box,
                 last_presented_source_serial, last_source_generation, cursorVars>>

-----------------------------------------------------------------------------
(* output_frame                                                            *)

\* select_output_frame: the frame leased as source, and whether it is (or, for
\* an incomplete one, meanwhile became) ready when output_frame asks.
Selections ==
  {[frame |-> f, ready |-> TRUE] : f \in Chain!Selectable} \cup
  {[frame |-> f, ready |-> r] : f \in Chain!SelectableIncomplete, r \in BOOLEAN}

SelectionTaken(sel) ==
  /\ complete' = IF sel.ready THEN complete \cup {sel.frame} ELSE complete
  /\ newest_read' = IF sel.frame \in Chain!Selectable THEN sel.frame ELSE newest_read
  /\ UNCHANGED <<generation, target, published, damage_history, pictures>>

\* Mutant: no retry while an older frame than the latest is shown.
LatestPendingIgnored == FALSE

LatestPending == published \notin complete

Called(o) ==
  /\ frame_due[o]
  /\ frame_due' = [frame_due EXCEPT ![o] = FALSE]
  /\ UNCHANGED <<notified, configVars>>

ArmRetry(o, arm) == retry' = [retry EXCEPT ![o] = @ \/ arm]

\* Early returns: no chain, or no frame published yet (bootstrap, 1 ms retry).
FrameWithoutChain(o) ==
  /\ Called(o)
  /\ ~enabled[o] \/ ~target
  /\ UNCHANGED <<chainVars, sceneVars, shownVars, cursorVars, retry>>

FrameBeforeFirst(o) ==
  /\ Called(o)
  /\ enabled[o] /\ target
  /\ published = 0
  /\ ArmRetry(o, TRUE)
  /\ UNCHANGED <<chainVars, sceneVars, shownVars, cursorVars>>

\* A cursor update may repaint from the frame already on screen.
Reusable(o, sel, cursor) == ~sel.ready /\ cursor /\ presented[o] \in complete

\* Back-pressure: the selected frame is not finished, 4 ms retry.
FrameNotReady(o, sel, cursor) ==
  /\ Called(o)
  /\ ~sel.ready
  /\ ~Reusable(o, sel, cursor)
  /\ SelectionTaken(sel)
  /\ ArmRetry(o, TRUE)
  /\ UNCHANGED <<sceneVars, shownVars, cursorVars>>

\* Mutant: the newest frame is shown whether or not it is ready.
SourceOfNewest(o, sel) == published

SourceOf(o, sel) == IF sel.ready THEN sel.frame ELSE presented[o]

SameGeneration(o) == last_source_generation[o] = generation
MappingChanged(o) == last_source_box[o] # box[o]

\* Mutant: only the source's own damage, as if no frame had been skipped.
OutputDamageOfSource(o, source) ==
  IF MappingChanged(o) \/ ~last_scene_buffer[o] \/ cursor_cleanup_pending[o]
  THEN Full("Generation")
  ELSE Since(damage_history, last_source_generation[o], source - 1, source)

\* The damage between what the output shows and the source.
OutputDamage(o, source) ==
  IF MappingChanged(o) \/ ~last_scene_buffer[o] \/ cursor_cleanup_pending[o]
  THEN Full("Generation")
  ELSE Since(damage_history, last_source_generation[o],
             last_presented_source_serial[o], source)

ForcePresent(o, software_cursor) ==
  \/ ~SameGeneration(o)
  \/ ~last_scene_buffer[o]
  \/ MappingChanged(o)
  \/ cursor_frame_pending[o]
  \/ cursor_cleanup_pending[o]
  \/ scene_commit_pending[o]
  \/ software_cursor

\* Nothing changed on this output: account for the frame without a commit.
FrameUndamaged(o, sel, software_cursor) ==
  LET source == SourceOf(o, sel) IN
  /\ Called(o)
  /\ sel.ready \/ Reusable(o, sel, cursor_frame_pending[o] \/ software_cursor)
  /\ ~ForcePresent(o, software_cursor)
  /\ ~Intersects(OutputDamage(o, source), box[o])
  /\ SelectionTaken(sel)
  /\ ArmRetry(o, LatestPending)
  /\ last_presented_source_serial' =
       [last_presented_source_serial EXCEPT ![o] = Larger(@, source)]
  /\ last_source_generation' = [last_source_generation EXCEPT ![o] = generation]
  /\ UNCHANGED <<sceneVars, last_scene_buffer, last_source_box, screen, cursorVars>>

\* What wlr_scene repaints: the damage handed over with the buffer, everything
\* when the node was empty or its source box changed.
RepaintArea(o, source) ==
  IF scene[o] = 0 \/ scene_box[o] # box[o] THEN Screen(box[o])
  ELSE {p \in Screen(box[o]) : \/ p \in scene_damage[o]
                               \/ At(box[o], p) \in PixelsOf(OutputDamage(o, source).rect)}

\* The source becomes the scene's buffer.  Then the commit succeeds, fails (1 ms
\* retry), or is put off because Flutter holds the GL context (16 ms retry).
FramePresented(o, sel, software_cursor, committed) ==
  LET source == SourceOf(o, sel) IN
  /\ Called(o)
  /\ sel.ready \/ Reusable(o, sel, cursor_frame_pending[o] \/ software_cursor)
  /\ \/ ForcePresent(o, software_cursor)
     \/ Intersects(OutputDamage(o, source), box[o])
  /\ SelectionTaken(sel)
  /\ scene' = [scene EXCEPT ![o] = source]
  /\ scene_box' = [scene_box EXCEPT ![o] = box[o]]
  /\ scene_commit_pending' = [scene_commit_pending EXCEPT ![o] = ~committed]
  /\ ArmRetry(o, LatestPending \/ ~committed)
  /\ IF committed
     THEN /\ scene_damage' = [scene_damage EXCEPT ![o] = {}]
          /\ screen' = [screen EXCEPT ![o] =
               [p \in Composition |->
                  IF p \in RepaintArea(o, source)
                  THEN <<generation, pictures[source][At(box[o], p)]>>
                  ELSE screen[o][p]]]
          /\ last_scene_buffer' = [last_scene_buffer EXCEPT ![o] = TRUE]
          /\ cursor_frame_pending' = [cursor_frame_pending EXCEPT ![o] = FALSE]
          /\ cursor_cleanup_pending' = [cursor_cleanup_pending EXCEPT ![o] = FALSE]
          /\ last_presented_source_serial' = [last_presented_source_serial EXCEPT
               ![o] = IF SameGeneration(o) THEN Larger(@, source) ELSE source]
          /\ last_source_generation' = [last_source_generation EXCEPT ![o] = generation]
          /\ last_source_box' = [last_source_box EXCEPT ![o] = box[o]]
          /\ presented' = [presented EXCEPT ![o] = source]
     ELSE /\ scene_damage' = [scene_damage EXCEPT ![o] = RepaintArea(o, source)]
          /\ UNCHANGED <<shownVars, cursorVars, presented>>

OutputFrame(o) ==
  \/ FrameWithoutChain(o)
  \/ FrameBeforeFirst(o)
  \/ /\ enabled[o] /\ target
     /\ \E sel \in Selections, software_cursor \in BOOLEAN :
          \/ FrameNotReady(o, sel, cursor_frame_pending[o] \/ software_cursor)
          \/ FrameUndamaged(o, sel, software_cursor)
          \/ \E committed \in BOOLEAN : FramePresented(o, sel, software_cursor, committed)

\* The same handler when its commit goes through.
OutputFrameCommits(o) ==
  /\ enabled[o] /\ target
  /\ \E sel \in Selections, software_cursor \in BOOLEAN :
       \/ FrameUndamaged(o, sel, software_cursor)
       \/ FramePresented(o, sel, software_cursor, TRUE)

Next ==
  \/ \E report \in Reports : PublishFrame(report)
  \/ \E f \in 1..published : CompleteFrame(f)
  \/ RunFrameTask
  \/ \E o \in Outputs :
       \/ RetryFires(o)
       \/ FlipFinishes(o)
       \/ \E cleanup \in BOOLEAN : ScheduleCursorFrame(o, cleanup)
       \/ OutputFrame(o)
  \/ \E on \in SUBSET Outputs :
       \/ \E boxes \in [Outputs -> Boxes] : NewTarget(on, boxes)
       \/ ClearTarget(on)

Spec == Init /\ [][Next]_vars

\* GPU work ends, queued tasks, timers and frame events are served, and an output
\* that keeps trying does not find the GL context taken, or its commit refused,
\* every time.
Fairness ==
  /\ \A f \in 1..MaxFrames : WF_vars(CompleteFrame(f))
  /\ WF_vars(RunFrameTask)
  /\ \A o \in Outputs :
       /\ WF_vars(RetryFires(o))
       /\ WF_vars(OutputFrame(o))
       /\ SF_vars(OutputFrameCommits(o))

FairSpec == Spec /\ Fairness

-----------------------------------------------------------------------------
(* Properties                                                              *)

\* Every variable has the type of its counterpart.
TypeOK ==
  /\ generation \in 0..MaxGenerations
  /\ target \in BOOLEAN
  /\ published \in 0..MaxFrames
  /\ complete \subseteq 1..published
  /\ newest_read \in 0..published
  /\ damage_history.latest = published
  /\ pictures \in Seq([Composition -> 1..MaxFrames]) /\ Len(pictures) = published
  /\ notified \in BOOLEAN
  /\ enabled \in [Outputs -> BOOLEAN]
  /\ box \in [Outputs -> Boxes]
  /\ scene \in [Outputs -> 0..published]
  /\ presented \in [Outputs -> 0..published]
  /\ last_source_box \in [Outputs -> Boxes \cup {NoBox}]
  /\ last_presented_source_serial \in [Outputs -> 0..MaxFrames]
  /\ last_source_generation \in [Outputs -> 0..generation]
  /\ screen \in [Outputs -> [Composition -> (0..MaxGenerations) \X (0..MaxFrames)]]

\* What is on screen is, pixel for pixel, the output's part of the frame whose
\* serial the output accounts for: skipped frames, frames without local damage,
\* deferred and failed commits and a journal that forgot entries included
\* ("Repair from its own accepted serial").
ScreenShowsAcceptedFrame ==
  \A o \in Outputs :
    target /\ enabled[o] /\ last_scene_buffer[o] /\ SameGeneration(o) =>
      \A p \in Screen(last_source_box[o]) :
        screen[o][p] =
          <<generation, pictures[last_presented_source_serial[o]][At(last_source_box[o], p)]>>

\* start_read_slot never offers an output a completed frame older than the one
\* it accounts for, nor makes a cursor repaint fall back on one, so the "Never
\* regress output content" branch of output_frame is never taken.
SelectionNeverRegresses ==
  \A o \in Outputs :
    enabled[o] /\ target /\ SameGeneration(o) =>
      \A sel \in Selections :
        /\ sel.ready => sel.frame >= last_presented_source_serial[o]
        /\ Reusable(o, sel, TRUE) => presented[o] >= last_presented_source_serial[o]

\* Once Flutter goes quiet every output ends up showing the last frame, without
\* further input: an older completed frame chosen meanwhile, a deferred commit
\* or a failed one does not swallow the repaint ("must not consume the only
\* repaint request").
LastFrameIsShown ==
  \A o \in Outputs :
    (generation = MaxGenerations /\ target /\ published = MaxFrames /\ enabled[o]) ~>
      \/ ~target
      \/ ~enabled[o]
      \/ /\ SameGeneration(o)
         /\ last_presented_source_serial[o] = MaxFrames
=============================================================================
