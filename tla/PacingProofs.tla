---------------------------- MODULE PacingProofs ----------------------------
(***************************************************************************)
(* Proofs about the pacing of Flutter, in two parts.                        *)
(*                                                                          *)
(* The scheduler (VsyncScheduler), for every set of refresh intervals and   *)
(* every tolerance: it never hands back three batons within one interval,   *)
(* and its next tick is near and on the grid.  The argument keeps two more  *)
(* facts than the properties: the tick after the last dispatch lies more    *)
(* than an interval behind the dispatch before it, and it is a whole number *)
(* of intervals away from the phase.                                        *)
(*                                                                          *)
(* Its callers (FramePacing), for every set of outputs: a deposited baton   *)
(* has a wakeup to come.                                                    *)
(***************************************************************************)
EXTENDS FramePacing, VsyncScheduler, TLAPS

\* Dispatches so far are in the past, and leave a tick to wait for.
Recorded ==
  /\ now # 0
  /\ interval_ns = 0 <=> last = 0
  /\ last = 0 => before_last = 0
  /\ last <= now
  /\ before_last # 0 => next_tick_ns > before_last + interval_ns

\* The tick is a whole number of intervals after the phase.
OnGrid ==
  interval_ns # 0 =>
    /\ phase # 0 /\ phase <= now
    /\ \E k \in Nat \ {0} : next_tick_ns = phase + k * interval_ns

ClockInv == ClockTypeOK /\ Recorded /\ TickInReach /\ OnGrid

-----------------------------------------------------------------------------
\* Skipping missed ticks ends at the first tick of the grid after now.
LEMMA SkipMissed ==
  ASSUME NEW a \in Nat, NEW b \in Nat \ {0}
  PROVE  /\ (a \div b + 1) * b \in Nat
         /\ (a \div b + 1) * b > a
         /\ (a \div b + 1) * b <= a + b
         /\ (a \div b + 1) * b >= b
<1> DEFINE q == a \div b
           r == a % b
<1>1. q \in Nat /\ r \in Nat /\ r < b /\ a = b * q + r
  BY Z3
<1>2. (q + 1) * b = b * q + b
  BY <1>1, Z3
<1>3. b * q \in Nat
  BY <1>1, Z3
<1> HIDE DEF q, r
<1>4. (q + 1) * b \in Nat /\ (q + 1) * b > a /\ (q + 1) * b <= a + b /\ (q + 1) * b >= b
  BY <1>1, <1>2, <1>3
<1> QED
  BY <1>4 DEF q

\* Whole intervals leave no remainder, and add up.
LEMMA Multiples ==
  ASSUME NEW k \in Nat, NEW j \in Nat, NEW b \in Nat \ {0}
  PROVE  /\ k * b \in Nat
         /\ (k * b) % b = 0
         /\ k * b + j * b = (k + j) * b
         /\ k # 0 => k * b > 0
<1>1. k * b \in Nat /\ j * b \in Nat
  BY Z3
<1>2. (k * b) % b = 0
  BY <1>1, Z3
<1>3. k * b + j * b = (k + j) * b
  BY Z3
<1>4. k # 0 => k * b > 0
  BY Z3
<1> QED
  BY <1>1, <1>2, <1>3, <1>4

\* The tolerance is a small part of the interval.
LEMMA ToleranceBounds ==
  ASSUME NEW interval \in Intervals
  PROVE  Tolerance(interval) \in Nat /\ Tolerance(interval) <= interval
<1> DEFINE share == interval \div JitterShare
<1>1. interval \in Nat /\ JitterShare \in Nat \ {0} /\ MaxJitter \in Nat
  BY SchedulerAssumption
<1>2. share \in Nat /\ share <= interval
  BY <1>1, Z3
<1> HIDE DEF share
<1>3. Tolerance(interval) = IF MaxJitter < share THEN MaxJitter ELSE share
  BY DEF Tolerance, share
<1> QED
  BY <1>1, <1>2, <1>3

\* Where poll puts the next tick, seen from now and from the tick before it.
LEMMA NextTick ==
  ASSUME NEW tick \in Nat, NEW interval \in Intervals, now \in Nat,
         ~TooEarly(tick, interval)
  PROVE  /\ TickAfter(tick, interval) \in Nat
         /\ TickAfter(tick, interval) > now
         /\ TickAfter(tick, interval) <= now + interval + Tolerance(interval)
         /\ tick # 0 => TickAfter(tick, interval) >= tick + interval
<1>1. interval \in Nat \ {0}
  BY SchedulerAssumption
<1>2. Tolerance(interval) \in Nat /\ Tolerance(interval) <= interval
  BY ToleranceBounds
<1>3. CASE tick = 0
  BY <1>1, <1>2, <1>3 DEF TickAfter
<1>4. CASE tick # 0 /\ now >= tick
  <2> DEFINE skipped == ((now - tick) \div interval + 1) * interval
  <2>1. now - tick \in Nat
    BY <1>4
  <2>2. /\ skipped \in Nat
        /\ skipped > now - tick
        /\ skipped <= now - tick + interval
        /\ skipped >= interval
    BY <2>1, <1>1, SkipMissed
  <2>3. TickAfter(tick, interval) = tick + skipped
    BY <1>4 DEF TickAfter
  <2> HIDE DEF skipped
  <2> QED
    BY <2>2, <2>3, <1>1, <1>2, <1>4
<1>5. CASE tick # 0 /\ now < tick
  BY <1>1, <1>2, <1>5 DEF TickAfter, TooEarly
<1> QED
  BY <1>3, <1>4, <1>5

\* ... which is a whole number of intervals after it.
LEMMA NextTickOnGrid ==
  ASSUME NEW tick \in Nat, NEW interval \in Intervals, now \in Nat
  PROVE  \E j \in Nat \ {0} :
           TickAfter(tick, interval) = (IF tick = 0 THEN now ELSE tick) + j * interval
<1>1. interval \in Nat \ {0}
  BY SchedulerAssumption
<1>2. CASE tick # 0 /\ now >= tick
  <2> DEFINE skipped == (now - tick) \div interval
  <2>1. now - tick \in Nat
    BY <1>2
  <2>2. skipped \in Nat
    BY <2>1, <1>1, Z3
  <2>3. TickAfter(tick, interval) = tick + (skipped + 1) * interval
    BY <1>2 DEF TickAfter
  <2> HIDE DEF skipped
  <2>4. skipped + 1 \in Nat \ {0}
    BY <2>2
  <2>5. TickAfter(tick, interval)
          = (IF tick = 0 THEN now ELSE tick) + (skipped + 1) * interval
    BY <1>2, <2>3
  <2> QED
    BY <2>4, <2>5
<1>3. CASE tick = 0 \/ now < tick
  <2>1. interval = 1 * interval
    BY <1>1
  <2>2. TickAfter(tick, interval) = (IF tick = 0 THEN now ELSE tick) + interval
    BY <1>1, <1>3 DEF TickAfter
  <2> QED
    BY <2>1, <2>2
<1> QED
  BY <1>2, <1>3

-----------------------------------------------------------------------------
LEMMA ClockInitInv == ClockInit => ClockInv
<1> SUFFICES ASSUME ClockInit PROVE ClockInv
  OBVIOUS
<1>1. now \in Nat /\ now # 0 /\ 0 \notin Intervals
  BY SchedulerAssumption DEF ClockInit
<1>2. pending \in BOOLEAN
  BY DEF ClockInit
<1> QED
  BY <1>1, <1>2 DEF ClockInit, ClockInv, ClockTypeOK, Recorded, TickInReach, OnGrid

LEMMA TimePassesInv == ClockInv /\ TimePasses => ClockInv'
<1> SUFFICES ASSUME ClockInv, TimePasses PROVE ClockInv'
  OBVIOUS
<1>1. PICK t \in (now + 1)..MaxTime : now' = t
  BY DEF TimePasses
<1>2. now' \in Nat /\ now' > now
  BY <1>1, SchedulerAssumption DEF ClockInv, ClockTypeOK
<1>3. UNCHANGED <<pending, interval_ns, next_tick_ns, phase, last, before_last>>
  BY DEF TimePasses, history
<1>4. ClockTypeOK' /\ Recorded'
  BY <1>2, <1>3 DEF ClockInv, ClockTypeOK, Recorded
<1>5. TickInReach'
  BY <1>3 DEF ClockInv, TickInReach, Tolerance
<1>6. OnGrid'
  BY <1>2, <1>3 DEF ClockInv, ClockTypeOK, OnGrid
<1> QED
  BY <1>4, <1>5, <1>6 DEF ClockInv

\* The dispatch, with the time since the dispatch before the last one.
LEMMA DispatchInv ==
  ASSUME ClockInv, NEW interval \in Intervals, NEW ready \in BOOLEAN,
         Dispatch(interval, ready)
  PROVE  /\ ClockInv'
         /\ interval = interval_ns /\ before_last # 0 =>
              now - before_last >= interval_ns - Tolerance(interval_ns)
<1> DEFINE tick == IF interval # interval_ns THEN 0 ELSE next_tick_ns
<1>1. /\ interval_ns' = interval /\ next_tick_ns' = TickAfter(tick, interval)
      /\ pending' = FALSE /\ phase' \in {now, phase} /\ now' = now /\ last' = now
      /\ before_last' = IF interval # interval_ns THEN 0 ELSE last
      /\ ~TooEarly(tick, interval)
  BY DEF Dispatch
<1>2. /\ now \in Nat \ {0} /\ interval \in Nat \ {0} /\ tick \in Nat /\ phase \in Nat
      /\ last \in Nat /\ before_last \in Nat
  BY SchedulerAssumption DEF ClockInv, ClockTypeOK, Recorded
<1>3. /\ next_tick_ns' \in Nat /\ next_tick_ns' > now
      /\ next_tick_ns' <= now + interval + Tolerance(interval)
      /\ tick # 0 => next_tick_ns' >= tick + interval
  BY <1>1, <1>2, NextTick
<1>4. Tolerance(interval) \in Nat /\ Tolerance(interval)' = Tolerance(interval)
  BY ToleranceBounds DEF Tolerance
<1>5. before_last' # 0 =>
        /\ tick = next_tick_ns /\ tick # 0 /\ last < tick /\ before_last' = last
  BY <1>1, <1>2 DEF ClockInv, ClockTypeOK, Recorded, TickInReach
<1>6. ClockTypeOK'
  <2>1. pending' \in BOOLEAN
    BY <1>1
  <2> QED
    BY <1>1, <1>2, <1>3, <1>5, <2>1 DEF ClockTypeOK
<1>7. Recorded'
  BY <1>1, <1>2, <1>3, <1>5 DEF Recorded
<1>8. TickInReach'
  BY <1>1, <1>3, <1>4 DEF TickInReach
<1>10. OnGrid'
  <2>1. PICK j \in Nat \ {0} :
          next_tick_ns' = (IF tick = 0 THEN now ELSE tick) + j * interval
    BY <1>1, <1>2, NextTickOnGrid
  <2>2. CASE interval # interval_ns
    <3>1. phase' = now /\ next_tick_ns' = phase' + j * interval_ns'
      BY <1>1, <2>1, <2>2 DEF Dispatch
    <3>2. phase' # 0 /\ phase' <= now'
      BY <1>1, <1>2, <3>1
    <3> QED
      BY <3>1, <3>2 DEF OnGrid
  <2>3. CASE interval = interval_ns
    <3>1. PICK k \in Nat \ {0} : next_tick_ns = phase + k * interval
      BY <1>2, <2>3 DEF ClockInv, OnGrid
    <3>2. k * interval \in Nat /\ k * interval > 0 /\ j * interval \in Nat
          /\ k * interval + j * interval = (k + j) * interval
      BY <1>2, Multiples
    <3>3. tick = phase + k * interval /\ tick # 0
      BY <1>2, <2>3, <3>1, <3>2
    <3> DEFINE a == k * interval
               b == j * interval
               c == (k + j) * interval
    <3>4. next_tick_ns' = phase + (k + j) * interval
      <4>1. next_tick_ns' = tick + b /\ tick = phase + a /\ a + b = c /\ a \in Nat /\ b \in Nat
        BY <2>1, <3>2, <3>3
      <4> HIDE DEF a, b, c, tick
      <4>2. next_tick_ns' = phase + c
        BY <4>1, <1>2
      <4> QED
        BY <4>2 DEF c
    <3>5. phase' = phase /\ phase # 0 /\ phase <= now
      BY <1>2, <2>3 DEF Dispatch, ClockInv, OnGrid
    <3>6. k + j \in Nat \ {0}
      OBVIOUS
    <3> QED
      BY <1>1, <3>4, <3>5, <3>6 DEF OnGrid
  <2> QED
    BY <2>2, <2>3
<1>9. ASSUME interval = interval_ns, before_last # 0
      PROVE  now - before_last >= interval - Tolerance(interval)
  <2>1. tick = next_tick_ns /\ next_tick_ns > before_last + interval
    BY <1>9 DEF ClockInv, Recorded
  <2>2. now >= tick - Tolerance(interval)
    BY <1>1, <1>2, <1>4 DEF TooEarly
  <2> QED
    BY <2>1, <2>2, <1>2, <1>4
<1> QED
  BY <1>1, <1>6, <1>7, <1>8, <1>9, <1>10 DEF ClockInv

LEMMA ClockStepInv == ClockInv /\ [ClockNext]_clockVars => ClockInv'
<1> SUFFICES ASSUME ClockInv, [ClockNext]_clockVars PROVE ClockInv'
  OBVIOUS
<1>1. CASE TimePasses
  BY <1>1, TimePassesInv
<1>2. CASE Request
  BY <1>2 DEF Request, history, ClockInv, ClockTypeOK, Recorded, TickInReach, OnGrid, Tolerance
<1>3. ASSUME NEW interval \in Intervals, NEW ready \in BOOLEAN, Dispatch(interval, ready)
      PROVE  ClockInv'
  BY <1>3, DispatchInv
<1>4. CASE UNCHANGED clockVars
  BY <1>4 DEF clockVars, history, ClockInv, ClockTypeOK, Recorded, TickInReach, OnGrid, Tolerance
<1> QED
  BY <1>1, <1>2, <1>3, <1>4 DEF ClockNext

LEMMA ClockInvHolds == ClockSpec => []ClockInv
  BY ClockInitInv, ClockStepInv, PTL DEF ClockSpec

-----------------------------------------------------------------------------
\* The scheduler's state has its types.
THEOREM SchedulerTyped == ClockSpec => []ClockTypeOK
<1>1. ClockInv => ClockTypeOK
  BY DEF ClockInv
<1> QED
  BY <1>1, ClockInvHolds, PTL

\* The next tick lies ahead of the last dispatch, and not far.
THEOREM TickStaysInReach == ClockSpec => []TickInReach
<1>1. ClockInv => TickInReach
  BY DEF ClockInv
<1> QED
  BY <1>1, ClockInvHolds, PTL

\* The tick stays on the grid of the first dispatch.
THEOREM TickNeverDrifts == ClockSpec => []NoDrift
<1>1. ClockInv => NoDrift
  <2> SUFFICES ASSUME ClockInv, interval_ns # 0
               PROVE  next_tick_ns > phase /\ (next_tick_ns - phase) % interval_ns = 0
    BY DEF NoDrift
  <2>1. interval_ns \in Nat \ {0} /\ phase \in Nat
    BY SchedulerAssumption DEF ClockInv, ClockTypeOK
  <2>2. PICK k \in Nat \ {0} : next_tick_ns = phase + k * interval_ns
    BY DEF ClockInv, OnGrid
  <2>3. k * interval_ns \in Nat /\ k * interval_ns > 0 /\ (k * interval_ns) % interval_ns = 0
    BY <2>1, Multiples
  <2>4. next_tick_ns - phase = k * interval_ns
    BY <2>1, <2>2, <2>3
  <2> QED
    BY <2>1, <2>2, <2>3, <2>4
<1> QED
  BY <1>1, ClockInvHolds, PTL

\* No three batons are handed back within one refresh interval, whatever polls.
THEOREM NeverABurst == ClockSpec => NoBurst
<1> DEFINE Spaced == /\ pending /\ ~pending'
                     /\ interval_ns' = interval_ns
                     /\ before_last # 0
                     => now - before_last >= interval_ns - Tolerance(interval_ns)
<1>1. ClockInv /\ [ClockNext]_clockVars => [Spaced]_clockVars
  <2> SUFFICES ASSUME ClockInv, ClockNext, pending, ~pending',
                      interval_ns' = interval_ns, before_last # 0
               PROVE  now - before_last >= interval_ns - Tolerance(interval_ns)
    OBVIOUS
  <2>1. PICK interval \in Intervals, ready \in BOOLEAN : Dispatch(interval, ready)
    BY DEF ClockNext, TimePasses, Request
  <2>2. interval = interval_ns
    BY <2>1 DEF Dispatch
  <2> QED
    BY <2>1, <2>2, DispatchInv
<1> QED
  BY <1>1, ClockInvHolds, PTL DEF ClockSpec, NoBurst

-----------------------------------------------------------------------------
(* Wakeups.  Every step that takes a wakeup away either polls for the driver *)
(* at that moment, which ends in a timer or with the baton handed back, or   *)
(* leaves another wakeup; and whatever changes the driver schedules a frame  *)
(* of the new one.                                                           *)

\* What drives the clock while an output is on is on itself.
LEMMA DriverIsOn ==
  ASSUME TypeOK, enabled # {}, NEW active \in enabled \cup {NoOutput}
  PROVE  DriverFor(active) \in enabled
<1>1. main_output \in enabled
  BY DEF TypeOK
<1>2. Fastest(enabled) \in enabled
  BY PacingAssumption DEF Fastest, TypeOK
<1> QED
  BY <1>1, <1>2 DEF DriverFor

\* A poll for an output that is on leaves a timer of it, or hands the baton back.
LEMMA PollLeavesTimer ==
  ASSUME TypeOK, target, NEW timers \in [Outputs -> BOOLEAN], VsyncCallback(timers)
  PROVE  /\ baton' => baton /\ \E o \in enabled : vsync_timer'[o]
         /\ vsync_timer' \in [Outputs -> BOOLEAN]
<1>1. Driver \in enabled /\ enabled \subseteq Outputs /\ NoOutput \notin Outputs
  BY DriverIsOn, PacingAssumption DEF TypeOK, Driver
<1>2. Polls <=> baton
  BY <1>1 DEF Polls
<1>3. vsync_timer' \in [Outputs -> BOOLEAN]
  BY <1>1 DEF VsyncCallback, TypeOK
<1>4. ASSUME baton'
      PROVE  baton /\ vsync_timer' = [timers EXCEPT ![Driver] = TRUE]
  BY <1>2, <1>4 DEF VsyncCallback
<1>5. baton' => baton /\ vsync_timer'[Driver]
  BY <1>1, <1>4
<1> QED
  BY <1>1, <1>3, <1>5

\* Without a composition target a poll changes nothing.
LEMMA PollTypes ==
  ASSUME TypeOK, NEW timers \in [Outputs -> BOOLEAN], VsyncCallback(timers)
  PROVE  /\ baton' \in BOOLEAN /\ early' \in BOOLEAN
         /\ rate' \in {Refresh[o] : o \in Outputs} \cup {0}
         /\ drawing' \in 0..MaxDrawing
         /\ vsync_timer' \in [Outputs -> BOOLEAN]
<1>1. CASE Polls
  <2>1. Driver \in Outputs
    BY <1>1, DriverIsOn DEF Polls, TypeOK, Driver
  <2> QED
    BY <2>1 DEF VsyncCallback, TypeOK
<1>2. CASE ~Polls
  BY <1>2 DEF VsyncCallback, TypeOK
<1> QED
  BY <1>1, <1>2

LEMMA PacingTypeInit == Init => TypeOK
<1> SUFFICES ASSUME Init PROVE TypeOK
  OBVIOUS
<1>1. drawing \in 0..MaxDrawing /\ rate \in {Refresh[o] : o \in Outputs} \cup {0}
  BY PacingAssumption DEF Init
<1>2. /\ vsync_timer \in [Outputs -> BOOLEAN] /\ retry \in [Outputs -> BOOLEAN]
      /\ frame_due \in [Outputs -> BOOLEAN]
  BY DEF Init
<1> QED
  BY <1>1, <1>2 DEF Init, TypeOK

LEMMA PacingTypeNext == TypeOK /\ [Next]_vars => TypeOK'
<1> SUFFICES ASSUME TypeOK, [Next]_vars PROVE TypeOK'
  OBVIOUS
<1> USE DEF outputVars, chainVars, schedulerVars
<1>1. CASE RequestVsync
  BY <1>1 DEF RequestVsync, TypeOK
<1>2. CASE FinishDrawing
  <2>1. drawing' \in 0..MaxDrawing
    BY <1>2, PacingAssumption DEF FinishDrawing, TypeOK
  <2> QED
    BY <1>2, <2>1 DEF FinishDrawing, TypeOK
<1>3. CASE GpuCompletes
  BY <1>3 DEF GpuCompletes, TypeOK
<1>4. CASE TickComes
  BY <1>4 DEF TickComes, TypeOK
<1>5. CASE RunVsyncTask
  <2>1. VsyncCallback(vsync_timer) /\ vsync_timer \in [Outputs -> BOOLEAN]
    BY <1>5 DEF RunVsyncTask, TypeOK
  <2> QED
    BY <1>5, <2>1, PollTypes DEF RunVsyncTask, TypeOK
<1>6. CASE RunFrameTask
  BY <1>6 DEF RunFrameTask, TypeOK
<1>7. ASSUME NEW o \in Outputs, VsyncTimerFires(o) PROVE TypeOK'
  <2>1. [vsync_timer EXCEPT ![o] = FALSE] \in [Outputs -> BOOLEAN]
    BY DEF TypeOK
  <2> QED
    BY <1>7, <2>1, PollTypes DEF VsyncTimerFires, TypeOK
<1>8. ASSUME NEW o \in Outputs, RetryFires(o) PROVE TypeOK'
  BY <1>8 DEF RetryFires, TypeOK
<1>9. ASSUME NEW o \in Outputs, FlipFinishes(o) PROVE TypeOK'
  BY <1>9 DEF FlipFinishes, TypeOK
<1>10. ASSUME NEW o \in Outputs, CursorMoves(o) PROVE TypeOK'
  BY <1>10 DEF CursorMoves, TypeOK
<1>11. ASSUME NEW o \in Outputs, OutputFrame(o) PROVE TypeOK'
  <2>1. /\ UNCHANGED <<outputVars, chainVars, vsync_task, frame_task>>
        /\ frame_due' \in [Outputs -> BOOLEAN] /\ retry' \in [Outputs -> BOOLEAN]
        /\ UNCHANGED schedulerVars \/ VsyncCallback(vsync_timer)
    BY <1>11 DEF OutputFrame, FrameWithoutChain, FrameBeforeFirst, FrameRetried, FrameServiced,
       Called, CallbackIfDriver, TypeOK
  <2>2. CASE UNCHANGED schedulerVars
    BY <2>1, <2>2 DEF TypeOK
  <2>3. CASE VsyncCallback(vsync_timer)
    <3>1. vsync_timer \in [Outputs -> BOOLEAN]
      BY DEF TypeOK
    <3> QED
      BY <2>1, <2>3, <3>1, PollTypes DEF TypeOK
  <2> QED
    BY <2>1, <2>2, <2>3
<1>12. ASSUME NEW on \in SUBSET Outputs, Reconcile(on) PROVE TypeOK'
  <2>1. enabled' = on /\ main_output' \in IF on = {} THEN {NoOutput} ELSE on
    BY <1>12 DEF Reconcile, TypeOK
  <2>2. active_output' \in on \cup {NoOutput}
    BY <1>12 DEF Reconcile, ActiveAfter
  <2>3. target' \in BOOLEAN /\ (target' => on # {}) /\ has_frame' \in BOOLEAN /\ latest_ready' \in BOOLEAN
    BY <1>12 DEF Reconcile, TypeOK
  <2>4. /\ vsync_timer' \in [Outputs -> BOOLEAN] /\ retry' \in [Outputs -> BOOLEAN]
        /\ frame_due' \in [Outputs -> BOOLEAN]
        /\ UNCHANGED <<mode, baton, early, rate, drawing, vsync_task, frame_task>>
    BY <1>12 DEF Reconcile, TypeOK
  <2> QED
    BY <2>1, <2>2, <2>3, <2>4 DEF TypeOK
<1>13. CASE UNCHANGED vars
  BY <1>13 DEF vars, TypeOK
<1> QED
  BY <1>1, <1>2, <1>3, <1>4, <1>5, <1>6, <1>7, <1>8, <1>9, <1>10, <1>11, <1>12, <1>13 DEF Next


\* One step keeps a wakeup.
LEMMA WakeupKept == TypeOK /\ BatonHasWakeup /\ [Next]_vars => BatonHasWakeup'
<1> SUFFICES ASSUME TypeOK, BatonHasWakeup, [Next]_vars, baton', target'
             PROVE  \/ vsync_task'
                    \/ \E o \in enabled' : vsync_timer'[o]
                    \/ frame_due'[Driver']
                    \/ retry'[Driver']
  BY DEF BatonHasWakeup
<1> USE DEF outputVars, chainVars, schedulerVars
<1>1. enabled # {} => Driver \in enabled /\ Driver \in Outputs
  BY DriverIsOn DEF TypeOK, Driver
<1>2. vsync_timer \in [Outputs -> BOOLEAN]
  BY DEF TypeOK
<1>3. CASE UNCHANGED outputVars /\ target
  <2>1. Driver' = Driver /\ enabled # {} /\ Driver \in Outputs /\ Driver \in enabled
    BY <1>1, <1>3 DEF Driver, DriverFor, TypeOK
  <2>2. baton => \/ vsync_task
                 \/ \E o \in enabled : vsync_timer[o]
                 \/ frame_due[Driver]
                 \/ retry[Driver]
    BY <1>3 DEF BatonHasWakeup
  <2>3. CASE RequestVsync
    BY <2>3 DEF RequestVsync
  <2>4. CASE FinishDrawing \/ GpuCompletes \/ TickComes \/ UNCHANGED vars
    <3>1. baton /\ UNCHANGED <<enabled, vsync_task, vsync_timer, frame_due, retry>>
      BY <2>4 DEF FinishDrawing, GpuCompletes, TickComes, vars
    <3> QED
      BY <2>1, <2>2, <3>1
  <2>5. CASE RunVsyncTask
    BY <1>2, <1>3, <2>5, PollLeavesTimer DEF RunVsyncTask
  <2>6. CASE RunFrameTask
    BY <1>3, <2>1, <2>2, <2>6 DEF RunFrameTask
  <2>7. ASSUME NEW o \in Outputs, VsyncTimerFires(o)
        PROVE  \E p \in enabled' : vsync_timer'[p]
    <3>1. [vsync_timer EXCEPT ![o] = FALSE] \in [Outputs -> BOOLEAN]
      BY <1>2
    <3> QED
      BY <1>3, <2>7, <3>1, PollLeavesTimer DEF VsyncTimerFires
  <2>8. ASSUME NEW o \in Outputs, RetryFires(o)
        PROVE  \/ vsync_task' \/ (\E p \in enabled' : vsync_timer'[p])
               \/ frame_due'[Driver'] \/ retry'[Driver']
    <3>1. baton /\ UNCHANGED <<vsync_task, vsync_timer, enabled>>
      BY <2>8 DEF RetryFires
    <3>2. frame_due[Driver] => frame_due'[Driver]
      BY <2>1, <2>8 DEF RetryFires, TypeOK
    <3>3. retry[Driver] => frame_due'[Driver] \/ retry'[Driver]
      BY <2>1, <2>8 DEF RetryFires, TypeOK
    <3> QED
      BY <2>1, <2>2, <3>1, <3>2, <3>3
  <2>9. ASSUME NEW o \in Outputs, FlipFinishes(o)
        PROVE  \/ vsync_task' \/ (\E p \in enabled' : vsync_timer'[p])
               \/ frame_due'[Driver'] \/ retry'[Driver']
    <3>1. frame_due[Driver] => frame_due'[Driver]
      BY <2>1, <2>9 DEF FlipFinishes, TypeOK
    <3> QED
      BY <2>1, <2>2, <2>9, <3>1 DEF FlipFinishes
  <2>10. ASSUME NEW o \in Outputs, OutputFrame(o)
         PROVE  \/ vsync_task' \/ (\E p \in enabled' : vsync_timer'[p])
                \/ frame_due'[Driver'] \/ retry'[Driver']
    <3>1. CASE VsyncCallback(vsync_timer)
      BY <1>2, <1>3, <3>1, PollLeavesTimer
    <3>2. CASE ~VsyncCallback(vsync_timer)
      <4>1. /\ baton /\ UNCHANGED <<vsync_task, vsync_timer, enabled>>
            /\ frame_due' = [frame_due EXCEPT ![o] = FALSE]
        BY <2>10, <3>2 DEF OutputFrame, FrameWithoutChain, FrameBeforeFirst, FrameRetried,
           FrameServiced, Called, CallbackIfDriver
      <4>2. retry[Driver] => retry'[Driver]
        BY <2>1, <2>10 DEF OutputFrame, FrameWithoutChain, FrameBeforeFirst, FrameRetried,
           FrameServiced, TypeOK
      <4>3. o = Driver => retry'[Driver]
        BY <2>1, <1>3, <2>10, <3>2 DEF OutputFrame, FrameWithoutChain, FrameBeforeFirst,
           FrameRetried, FrameServiced, CallbackIfDriver, TypeOK
      <4>4. o # Driver /\ frame_due[Driver] => frame_due'[Driver]
        BY <2>1, <4>1 DEF TypeOK
      <4> QED
        BY <2>1, <2>2, <4>1, <4>2, <4>3, <4>4
    <3> QED
      BY <3>1, <3>2
  <2>11. ASSUME NEW on \in SUBSET Outputs, Reconcile(on)
         PROVE  frame_due'[Driver']
    <3>1. enabled' = on /\ Driver \in on
      BY <1>3, <2>1, <2>11 DEF Reconcile
    <3> QED
      BY <2>1, <2>11, <3>1 DEF Reconcile
  <2>12. ASSUME NEW o \in Outputs, CursorMoves(o)
         PROVE  frame_due'[Driver']
    <3>1. Driver' = DriverFor(o)
      BY <2>12 DEF CursorMoves, Driver, DriverFor
    <3> QED
      BY <2>1, <2>12, <3>1 DEF CursorMoves
  <2> QED
    BY <1>3, <2>3, <2>4, <2>5, <2>6, <2>7, <2>8, <2>9, <2>10, <2>11, <2>12 DEF Next
<1>4. ASSUME NEW o \in Outputs, CursorMoves(o)
      PROVE  frame_due'[Driver']
  <2>1. Driver' = DriverFor(o) /\ o \in enabled /\ enabled # {}
    BY <1>4 DEF CursorMoves, Driver, DriverFor
  <2>2. DriverFor(o) \in Outputs
    BY <2>1, DriverIsOn DEF TypeOK
  <2> QED
    BY <1>4, <2>1, <2>2 DEF CursorMoves
<1>5. ASSUME NEW on \in SUBSET Outputs, Reconcile(on)
      PROVE  frame_due'[Driver']
  <2>1. TypeOK'
    BY PacingTypeNext
  <2>2. enabled' = on /\ enabled' # {} /\ enabled' \subseteq Outputs
    BY <1>5, <2>1 DEF Reconcile, TypeOK
  <2>3. Driver' \in on
    <3>1. main_output' \in on /\ active_output' \in on \cup {NoOutput}
      BY <2>1, <2>2 DEF TypeOK
    <3>2. Fastest(on) \in on
      BY <2>2, PacingAssumption DEF Fastest
    <3> QED
      BY <2>2, <3>1, <3>2 DEF Driver, DriverFor
  <2> QED
    BY <1>5, <2>3 DEF Reconcile
<1>6. CASE ~(UNCHANGED outputVars /\ target)
  <2>1. (\E o \in Outputs : CursorMoves(o)) \/ (\E on \in SUBSET Outputs : Reconcile(on))
    BY <1>6 DEF Next, vars, RequestVsync, FinishDrawing, GpuCompletes, TickComes, RunVsyncTask,
       RunFrameTask, VsyncTimerFires, RetryFires, FlipFinishes, OutputFrame, FrameWithoutChain,
       FrameBeforeFirst, FrameRetried, FrameServiced, Called
  <2> QED
    BY <1>4, <1>5, <2>1
<1> QED
  BY <1>3, <1>6

\* A baton Flutter waits for has a wakeup to come, for any outputs, refresh rates
\* and driver modes (BatonHasWakeup; vsync_callback, output_frame, reconcile,
\* schedule_cursor_frame).
THEOREM BatonAlwaysHasWakeup == Spec => []BatonHasWakeup
<1>1. Init => BatonHasWakeup
  BY DEF Init, BatonHasWakeup
<1> QED
  BY <1>1, PacingTypeInit, PacingTypeNext, WakeupKept, PTL DEF Spec
=============================================================================
