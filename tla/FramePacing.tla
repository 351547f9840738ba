---------------------------- MODULE FramePacing ----------------------------
(***************************************************************************)
(* Who wakes the vsync scheduler.  Flutter may not draw before its baton    *)
(* comes back, and the compositor polls the scheduler only from queued      *)
(* tasks, from the vsync timer of the driving output and from that output's *)
(* frame events; the driver changes with the cursor and with the            *)
(* configuration.  If a baton were left without a wakeup the screen would   *)
(* freeze until some unrelated input arrived.                               *)
(*                                                                          *)
(* The scheduler (VsyncScheduler.tla) is seen here without a clock: early   *)
(* says whether its next tick is still to come.  output_frame (see          *)
(* OutputFrame.tla) is seen only as a caller of vsync_callback.             *)
(***************************************************************************)
EXTENDS Integers

NoOutput == "none"

CONSTANTS
  Outputs,
  Refresh,     \* refresh rate of each output
  MaxDrawing   \* bound on the frames Flutter has in its pipeline

ASSUME PacingAssumption ==
  /\ Refresh \in [Outputs -> Nat]
  \* every set of outputs has a fastest one, as finite ones do
  /\ \A on \in SUBSET Outputs :
       on # {} => \E o \in on : \A p \in on : Refresh[p] <= Refresh[o]
  /\ NoOutput \notin Outputs
  /\ MaxDrawing \in Nat

Modes == {"render", "active", "highest"}

VARIABLES
  mode,            \* ZENITH_VSYNC_OUTPUT
  enabled,         \* outputs that are on
  main_output,     \* server->output
  active_output,
  target,          \* a composition target is published
  has_frame, latest_ready,  \* of its chain: latest_buffer is set, is complete
  baton, early,  \* the scheduler's baton; its tick lies ahead
  rate,            \* refresh rate the scheduler last dispatched at, 0 if none
  drawing,         \* frames Flutter draws on batons handed back
  vsync_task, frame_task,   \* queued for the Wayland thread (several count as one)
  vsync_timer, retry,       \* armed timers of each output
  frame_due        \* wlroots will emit the output's frame event

outputVars == <<mode, enabled, main_output, active_output>>
chainVars == <<target, has_frame, latest_ready>>
schedulerVars == <<baton, early, rate, drawing, vsync_timer>>
vars == <<outputVars, chainVars, schedulerVars, vsync_task, frame_task, retry, frame_due>>

-----------------------------------------------------------------------------
Fastest(on) == CHOOSE o \in on : \A p \in on : Refresh[p] <= Refresh[o]

\* vsync_driver_output; current_render_output is main_output here.
DriverFor(active) ==
  CASE enabled = {} -> NoOutput
    [] enabled # {} /\ mode = "render" -> main_output
    [] enabled # {} /\ mode = "active" /\ active # NoOutput -> active
    [] OTHER -> Fastest(enabled)

Driver == DriverFor(active_output)

Init ==
  /\ mode \in Modes
  /\ enabled = {} /\ main_output = NoOutput /\ active_output = NoOutput
  /\ target = FALSE /\ has_frame = FALSE /\ latest_ready = TRUE
  /\ baton = FALSE /\ early = FALSE /\ rate = 0 /\ drawing = 0
  /\ vsync_task = FALSE /\ frame_task = FALSE
  /\ vsync_timer = [o \in Outputs |-> FALSE]
  /\ retry = [o \in Outputs |-> FALSE]
  /\ frame_due = [o \in Outputs |-> FALSE]

-----------------------------------------------------------------------------
(* vsync_callback                                                          *)

Polls == Driver # NoOutput /\ target /\ baton

\* A poll at another rate forgets the tick.
TickAhead == early /\ rate = Refresh[Driver]

\* Mutant: no timer is set while the GPU is busy.
VsyncCallbackForgets(timers) ==
  \/ /\ ~Polls \/ ~latest_ready
     /\ vsync_timer' = timers
     /\ UNCHANGED <<baton, early, rate, drawing>>
  \/ /\ Polls
     /\ latest_ready /\ TickAhead
     /\ vsync_timer' = [timers EXCEPT ![Driver] = TRUE]
     /\ UNCHANGED <<baton, early, rate, drawing>>
  \/ /\ Polls
     /\ latest_ready /\ ~TickAhead
     /\ vsync_timer' = [timers EXCEPT ![Driver] = FALSE]
     /\ baton' = FALSE
     /\ early' \in BOOLEAN
     /\ rate' = Refresh[Driver]
     /\ drawing' \in {drawing, drawing + 1} \cap (0..MaxDrawing)

\* Called with the timers that are armed at that point.
VsyncCallback(timers) ==
  \/ /\ ~Polls
     /\ vsync_timer' = timers
     /\ UNCHANGED <<baton, early, rate, drawing>>
  \/ /\ Polls
     /\ ~latest_ready \/ TickAhead
     /\ vsync_timer' = [timers EXCEPT ![Driver] = TRUE]
     /\ UNCHANGED <<baton, early, rate, drawing>>
  \/ /\ Polls
     /\ latest_ready /\ ~TickAhead
     /\ vsync_timer' = [timers EXCEPT ![Driver] = FALSE]
     /\ baton' = FALSE
     /\ early' \in BOOLEAN      \* the tick after next may be within the tolerance
     /\ rate' = Refresh[Driver]
     /\ drawing' \in {drawing, drawing + 1} \cap (0..MaxDrawing)

-----------------------------------------------------------------------------
(* Flutter, the GPU and the clock                                          *)

\* flutter_vsync_callback.  The engine has one baton out at a time.
RequestVsync ==
  /\ ~baton
  /\ baton' = TRUE
  /\ vsync_task' = TRUE
  /\ UNCHANGED <<outputVars, chainVars, early, rate, drawing, vsync_timer, frame_task,
                 retry, frame_due>>

\* The frame goes to the current chain, or to one replaced meanwhile, or nowhere.
FinishDrawing ==
  /\ drawing > 0
  /\ drawing' = drawing - 1
  /\ \/ /\ target
        /\ has_frame' = TRUE
        /\ latest_ready' \in BOOLEAN
        /\ frame_task' = TRUE
     \/ UNCHANGED <<has_frame, latest_ready, frame_task>>
  /\ UNCHANGED <<outputVars, target, baton, early, rate, vsync_timer, vsync_task,
                 retry, frame_due>>

GpuCompletes ==
  /\ ~latest_ready
  /\ latest_ready' = TRUE
  /\ UNCHANGED <<outputVars, target, has_frame, schedulerVars, vsync_task, frame_task,
                 retry, frame_due>>

TickComes ==
  /\ early
  /\ early' = FALSE
  /\ UNCHANGED <<outputVars, chainVars, baton, rate, drawing, vsync_timer, vsync_task,
                 frame_task, retry, frame_due>>

-----------------------------------------------------------------------------
(* The Wayland thread                                                      *)

RunVsyncTask ==
  /\ vsync_task
  /\ vsync_task' = FALSE
  /\ VsyncCallback(vsync_timer)
  /\ UNCHANGED <<outputVars, chainVars, frame_task, retry, frame_due>>

VsyncTimerFires(o) ==
  /\ vsync_timer[o]
  /\ VsyncCallback([vsync_timer EXCEPT ![o] = FALSE])
  /\ UNCHANGED <<outputVars, chainVars, vsync_task, frame_task, retry, frame_due>>

\* schedule_compositor_frame: the driver at once, the others now or by their timer.
RunFrameTask ==
  /\ frame_task
  /\ frame_task' = FALSE
  /\ \E at_once \in SUBSET enabled :
       /\ Driver # NoOutput => Driver \in at_once
       /\ frame_due' = [o \in Outputs |-> frame_due[o] \/ o \in at_once]
       /\ retry' = [o \in Outputs |-> retry[o] \/ o \in enabled \ at_once]
  /\ UNCHANGED <<outputVars, chainVars, schedulerVars, vsync_task>>

RetryFires(o) ==
  /\ retry[o]
  /\ retry' = [retry EXCEPT ![o] = FALSE]
  /\ frame_due' = [frame_due EXCEPT ![o] = @ \/ o \in enabled]
  /\ UNCHANGED <<outputVars, chainVars, schedulerVars, vsync_task, frame_task>>

\* wlroots emits a frame event of its own: a page flip, damage of a client.
FlipFinishes(o) ==
  /\ o \in enabled /\ ~frame_due[o]
  /\ frame_due' = [frame_due EXCEPT ![o] = TRUE]
  /\ UNCHANGED <<outputVars, chainVars, schedulerVars, vsync_task, frame_task, retry>>

\* Pointer motion: update_active_output_from_cursor, then schedule_cursor_frame,
\* which repaints the output under the cursor, the previous one and the driver.
CursorMoves(o) ==
  /\ o \in enabled
  /\ active_output' = o
  /\ \E also \in SUBSET enabled :
       frame_due' = [p \in Outputs |-> frame_due[p] \/ p \in also \cup {o, DriverFor(o)}]
  /\ UNCHANGED <<mode, enabled, main_output, chainVars, schedulerVars, vsync_task,
                 frame_task, retry>>

-----------------------------------------------------------------------------
(* output_frame, by its ways out                                           *)

Called(o) ==
  /\ frame_due[o]
  /\ frame_due' = [frame_due EXCEPT ![o] = FALSE]
  /\ UNCHANGED <<outputVars, chainVars, vsync_task, frame_task>>

CallbackIfDriver(o) ==
  \/ o = Driver /\ VsyncCallback(vsync_timer)
  \/ o # Driver /\ UNCHANGED schedulerVars

FrameWithoutChain(o) ==
  /\ Called(o)
  /\ o \notin enabled \/ ~target
  /\ UNCHANGED <<schedulerVars, retry>>

\* Mutant: the output just tries again until there is a frame.
FrameBeforeFirstSilent(o) ==
  /\ Called(o)
  /\ o \in enabled /\ target /\ ~has_frame
  /\ retry' = [retry EXCEPT ![o] = TRUE]
  /\ UNCHANGED schedulerVars

\* No frame yet: "still service one vsync tick so Flutter can produce the first".
FrameBeforeFirst(o) ==
  /\ Called(o)
  /\ o \in enabled /\ target /\ ~has_frame
  /\ CallbackIfDriver(o)
  /\ retry' = [retry EXCEPT ![o] = TRUE]

\* The selected frame is incomplete, the commit failed or was put off.
FrameRetried(o) ==
  /\ Called(o)
  /\ o \in enabled /\ target /\ has_frame
  /\ retry' = [retry EXCEPT ![o] = TRUE]
  /\ UNCHANGED schedulerVars

\* A frame was committed, or none was needed.
FrameServiced(o) ==
  /\ Called(o)
  /\ o \in enabled /\ target /\ has_frame
  /\ CallbackIfDriver(o)
  /\ retry' = [retry EXCEPT ![o] = @ \/ ~latest_ready]

-----------------------------------------------------------------------------
\* output_exists, asked by vsync_driver_output.
ActiveAfter(on) == IF active_output \in on THEN active_output ELSE NoOutput

\* reconcile: outputs on are switched on, the others off, and the composition
\* target is replaced unless nothing about the layout changed (a configuration
\* that was rolled back) or allocating it failed.
Reconcile(on) ==
  /\ enabled' = on
  /\ main_output' \in IF main_output \in on THEN {main_output}
                      ELSE IF on = {} THEN {NoOutput} ELSE on
  /\ active_output' = ActiveAfter(on)
  /\ \/ /\ target /\ on = enabled /\ on # {}
        /\ UNCHANGED chainVars
     \/ /\ target' \in IF on = {} THEN {FALSE} ELSE BOOLEAN
        /\ has_frame' = FALSE
        /\ latest_ready' = TRUE
  /\ vsync_timer' = [o \in Outputs |-> vsync_timer[o] /\ o \in on]
  /\ retry' = [o \in Outputs |-> retry[o] /\ o \in on]
  /\ frame_due' = [o \in Outputs |-> o \in on]
  /\ UNCHANGED <<mode, baton, early, rate, drawing, vsync_task, frame_task>>

OutputFrame(o) ==
  FrameWithoutChain(o) \/ FrameBeforeFirst(o) \/ FrameRetried(o) \/ FrameServiced(o)

Next ==
  \/ RequestVsync
  \/ FinishDrawing
  \/ GpuCompletes
  \/ TickComes
  \/ RunVsyncTask
  \/ RunFrameTask
  \/ \E o \in Outputs :
       \/ VsyncTimerFires(o)
       \/ RetryFires(o)
       \/ FlipFinishes(o)
       \/ CursorMoves(o)
       \/ OutputFrame(o)
  \/ \E on \in SUBSET Outputs : Reconcile(on)

Spec == Init /\ [][Next]_vars

\* The GPU, the clock and the event loop make progress.  The driving output is
\* served in the end although its commits may fail and although the cursor may
\* make another output the driver before its frame event comes.
Fairness ==
  /\ WF_vars(GpuCompletes)
  /\ WF_vars(TickComes)
  /\ WF_vars(RunVsyncTask)
  /\ WF_vars(RunFrameTask)
  /\ \A o \in Outputs :
       /\ WF_vars(VsyncTimerFires(o))
       /\ WF_vars(RetryFires(o))
       /\ WF_vars(OutputFrame(o))
       /\ SF_vars(o = Driver /\ (FrameBeforeFirst(o) \/ FrameServiced(o)))

FairSpec == Spec /\ Fairness

-----------------------------------------------------------------------------
(* Properties                                                              *)

\* Every variable has the type of its counterpart, and the outputs that drive or
\* are active are on.
TypeOK ==
  /\ mode \in Modes
  /\ enabled \subseteq Outputs
  /\ main_output \in IF enabled = {} THEN {NoOutput} ELSE enabled
  /\ active_output \in enabled \cup {NoOutput}
  /\ target \in BOOLEAN /\ (target => enabled # {})
  /\ has_frame \in BOOLEAN
  /\ latest_ready \in BOOLEAN
  /\ baton \in BOOLEAN
  /\ early \in BOOLEAN
  /\ rate \in {Refresh[o] : o \in Outputs} \cup {0}
  /\ drawing \in 0..MaxDrawing
  /\ vsync_task \in BOOLEAN
  /\ frame_task \in BOOLEAN
  /\ vsync_timer \in [Outputs -> BOOLEAN]
  /\ retry \in [Outputs -> BOOLEAN]
  /\ frame_due \in [Outputs -> BOOLEAN]

\* A baton Flutter waits for always has a wakeup to come: a queued task, the timer
\* of an output that is on, or a frame of the output that drives the clock now.
BatonHasWakeup ==
  baton /\ target =>
    \/ vsync_task
    \/ \E o \in enabled : vsync_timer[o]
    \/ frame_due[Driver]
    \/ retry[Driver]

\* Every baton comes back, or the last output or the composition target is lost:
\* Flutter never waits for input to be allowed to draw again.
BatonComesBack == baton ~> ~baton \/ ~target
=============================================================================
