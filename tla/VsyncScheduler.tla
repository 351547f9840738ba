--------------------------- MODULE VsyncScheduler ---------------------------
(***************************************************************************)
(* The clock Flutter draws by (flutter_engine/vsync_scheduler.hpp).         *)
(* Flutter's thread deposits a baton when it wants to draw; the Wayland     *)
(* thread polls, on timers and output events of every kind, and hands the   *)
(* baton back when the next refresh tick is due and the GPU has caught up.  *)
(* Who polls, and when, is FramePacing.tla; here polls come at any time.    *)
(*                                                                          *)
(* Polls that change nothing (no baton, GPU busy, too early) are stuttering *)
(* steps.  Time is an integer clock; nanoseconds in the code.               *)
(***************************************************************************)
EXTENDS Integers

CONSTANTS
  Intervals,     \* refresh intervals of the outputs that may drive the clock
  MaxJitter,     \* 200'000 ns in the code
  JitterShare,   \* 20 in the code: the tolerance is at most interval / 20
  MaxTime        \* bound on the clock in a model

ASSUME SchedulerAssumption ==
  /\ Intervals \subseteq Nat \ {0}     \* assert(interval_ns > 0)
  /\ MaxJitter \in Nat
  /\ JitterShare \in Nat \ {0, 1}
  /\ MaxTime \in Nat

VARIABLES
  now,            \* the clock
  pending,        \* whether a baton is deposited
  interval_ns, next_tick_ns,   \* 0 before the first tick
  phase,          \* history: time of the first dispatch at this interval
  last, before_last   \* history: times of the last two, 0 if none at this interval

history == <<phase, last, before_last>>
clockVars == <<now, pending, interval_ns, next_tick_ns, history>>

ClockInit ==
  /\ now \in 1..MaxTime
  /\ pending = FALSE
  /\ interval_ns = 0
  /\ next_tick_ns = 0
  /\ phase = 0
  /\ last = 0
  /\ before_last = 0

-----------------------------------------------------------------------------
TimePasses ==
  /\ \E t \in (now + 1)..MaxTime : now' = t
  /\ UNCHANGED <<pending, interval_ns, next_tick_ns, history>>

Request ==
  /\ pending' = TRUE
  /\ UNCHANGED <<now, interval_ns, next_tick_ns, history>>

Tolerance(interval) ==
  IF MaxJitter < interval \div JitterShare THEN MaxJitter ELSE interval \div JitterShare

TooEarly(tick, interval) == tick > now /\ tick - now > Tolerance(interval)

\* Mutants: every tick starts a new phase, missed ticks are made up for, or the
\* first tick is not recorded.
TickAfterRestart(tick, interval) == now + interval
TickAfterCatchUp(tick, interval) ==
  IF tick = 0 THEN now + interval ELSE tick + interval

\* A late tick skips the ones missed; one within the tolerance keeps the phase.
TickAfter(tick, interval) ==
  IF tick = 0 THEN now + interval
  ELSE IF now >= tick THEN tick + ((now - tick) \div interval + 1) * interval
  ELSE tick + interval

\* poll, when it hands the baton back.
Dispatch(interval, frame_ready) ==
  LET changed == interval # interval_ns
      tick == IF changed THEN 0 ELSE next_tick_ns
  IN /\ pending
     /\ frame_ready
     /\ ~TooEarly(tick, interval)
     /\ interval_ns' = interval
     /\ next_tick_ns' = TickAfter(tick, interval)
     /\ pending' = FALSE
     /\ phase' = IF changed THEN now ELSE phase
     /\ last' = now
     /\ before_last' = IF changed THEN 0 ELSE last
     /\ UNCHANGED now

ClockNext ==
  \/ TimePasses
  \/ Request
  \/ \E interval \in Intervals, frame_ready \in BOOLEAN : Dispatch(interval, frame_ready)

ClockSpec == ClockInit /\ [][ClockNext]_clockVars

-----------------------------------------------------------------------------
(* Properties                                                              *)

\* The clock, the pacing state of the scheduler and the history have their types; a tick is set once an interval is known.
ClockTypeOK ==
  /\ now \in Nat
  /\ pending \in BOOLEAN
  /\ interval_ns \in Intervals \cup {0}
  /\ next_tick_ns \in Nat /\ (next_tick_ns = 0 <=> interval_ns = 0)
  /\ phase \in Nat
  /\ last \in Nat
  /\ before_last \in Nat

\* However late, early or bunched up the polls are, no three batons are handed
\* back within one refresh interval (less the tolerance): a stall or thousands
\* of idle output callbacks never make a burst of ticks ("Skip missed ticks after
\* stalls/idle; never issue a catch-up burst").
NoBurst ==
  [][/\ pending /\ ~pending'
     /\ interval_ns' = interval_ns
     /\ before_last # 0
     => now - before_last >= interval_ns - Tolerance(interval_ns)]_clockVars

\* The tick stays on the grid set by the first dispatch: jitter of the event loop
\* does not add up ("without resetting phase and drifting by a full timer
\* millisecond each frame").
NoDrift ==
  interval_ns # 0 =>
    /\ next_tick_ns > phase
    /\ (next_tick_ns - phase) % interval_ns = 0

\* The next tick lies after the last dispatch, at most an interval and the
\* tolerance away: a deposited baton is never put off by more than that, nor
\* handed back by a tick already used.
TickInReach ==
  last # 0 =>
    /\ next_tick_ns > last
    /\ next_tick_ns <= last + interval_ns + Tolerance(interval_ns)
=============================================================================
