------------------------------ MODULE KeyRepeat ------------------------------
(* Key events on their way to Flutter, and the repeats the compositor makes up *)
(* for it (KeyRepeater, EmbedderState::send_key_event, keyboard_handle_key).    *)
(*                                                                             *)
(* Keys arrive on the Wayland thread and are handled on the platform thread.   *)
(* A press asks the Wayland thread for the keyboard's repeat rate and creates  *)
(* the timer when the answer is back; any key event handled in between makes   *)
(* the answer void.  The platform thread takes its whole queue as a batch, and *)
(* a timer can fire only between two batches.  What Flutter answers to a key   *)
(* event is not modelled.                                                      *)
EXTENDS Naturals, Sequences

CONSTANTS
  Keys,        \* the keys of the keyboard
  Repeats,     \* what repeat_info may say: {TRUE}, {FALSE} or both
  MaxPresses,  \* bound: keys pressed in a run
  MaxQueue     \* bound: tasks waiting when a timer fires

ASSUME RepeatsAssumption == Repeats \subseteq BOOLEAN

NoKey == [event |-> "none"]
Event(e, k) == [event |-> e, key |-> k]
(* The tasks of both queues: "ask" and "arm" are the lambdas of schedule_repeat *)
Task == [event : {"press", "release", "repeat"}, key : Keys]
          \cup [event : {"stop"}, key : {"none"}]
          \cup [event : {"ask"}, key : Keys, request : Nat \ {0}]
          \cup [event : {"arm"}, key : Keys, request : Nat \ {0}, repeats : BOOLEAN]

VARIABLES
  held,           \* keys down on the keyboard
  keyboard,       \* the seat has a keyboard
  presses,
  platformQueue,  \* EmbedderState::callable_queue
  batch,          \* the tasks CallableQueue::execute is working through
  waylandQueue,   \* ZenithServer::callable_queue: the repeats asked for
  generation, timer, repeated, \* KeyRepeater
  live,           \* timer sources in the event loop, by the request they serve
  told,           \* the last key event Flutter was told
  down,           \* keys Flutter was told are pressed and not yet released
  handled,        \* the last press or release the platform thread handled
  stage           \* "running", "shutting down", "closed" (the queue), "stopped"

seatVars == <<held, keyboard, presses>>
repeater == <<generation, timer, repeated, live>>
flutter  == <<told, down, handled>>
keyVars == <<seatVars, platformQueue, batch, waylandQueue, repeater, flutter, stage>>

KeyInit ==
  /\ held = {} /\ keyboard = FALSE /\ presses = 0
  /\ platformQueue = <<>> /\ batch = <<>> /\ waylandQueue = <<>>
  /\ generation = 0 /\ timer = 0 /\ repeated = NoKey /\ live = {}
  /\ told = NoKey /\ down = {} /\ handled = NoKey
  /\ stage = "running"

Open == stage \in {"running", "shutting down"}

(* CallableQueue::enqueue refuses once the queue is closed.                    *)
Enqueue(task) ==
  platformQueue' = IF Open THEN Append(platformQueue, task) ELSE platformQueue

-------------------------------------------------------------------------------
(* The Wayland thread. *)

(* A key goes down.  A shortcut keeps the press to itself.                     *)
KeyPressed(k) ==
  /\ stage = "running" /\ presses < MaxPresses /\ k \notin held
  /\ held' = held \cup {k} /\ keyboard' = TRUE /\ presses' = presses + 1
  /\ \/ Enqueue(Event("press", k))
     \/ UNCHANGED platformQueue
  /\ UNCHANGED <<batch, waylandQueue, repeater, flutter, stage>>

KeyReleased(k) ==
  /\ stage = "running" /\ k \in held
  /\ held' = held \ {k} /\ keyboard' = TRUE
  /\ Enqueue(Event("release", k))
  /\ UNCHANGED <<presses, batch, waylandQueue, repeater, flutter, stage>>

(* wlroots releases what is held before a keyboard goes.                       *)
Unplug ==
  /\ stage = "running" /\ keyboard /\ held = {}
  /\ keyboard' = FALSE
  /\ UNCHANGED <<held, presses, platformQueue, batch, waylandQueue, repeater,
                 flutter, stage>>

(* The first lambda of schedule_repeat; `repeats` says whether rate > 0.        *)
AnswerRepeat ==
  /\ waylandQueue # <<>> /\ Head(waylandQueue).event = "ask"
  /\ waylandQueue' = Tail(waylandQueue)
  /\ \E repeats \in Repeats :
       IF keyboard /\ stage = "running"
       THEN Enqueue([event |-> "arm", key |-> Head(waylandQueue).key,
                     request |-> Head(waylandQueue).request, repeats |-> repeats])
       ELSE UNCHANGED platformQueue
  /\ UNCHANGED <<seatVars, batch, repeater, flutter, stage>>

RequestShutdown ==
  /\ stage = "running"
  /\ stage' = "shutting down"
  /\ UNCHANGED <<seatVars, platformQueue, batch, waylandQueue, repeater, flutter>>

(* stop_engine closes the queue behind a last task.                            *)
StopEngine ==
  /\ stage = "shutting down"
  /\ stage' = "closed"
  /\ platformQueue' = Append(platformQueue, Event("stop", "none"))
  /\ UNCHANGED <<seatVars, batch, waylandQueue, repeater, flutter>>

-------------------------------------------------------------------------------
(* The platform thread. *)

TakeBatch ==
  /\ stage # "stopped" /\ batch = <<>> /\ platformQueue # <<>>
  /\ batch' = platformQueue /\ platformQueue' = <<>>
  /\ UNCHANGED <<seatVars, waylandQueue, repeater, flutter, stage>>

CancelRepeatKeepsSource ==   \* mutant: forgets to remove the source
  generation' = generation + 1 /\ timer' = 0 /\ UNCHANGED live

(* cancel_repeat *)
CancelRepeat ==
  /\ generation' = generation + 1
  /\ live' = live \ {timer}
  /\ timer' = 0

ScheduleRepeatEarly(k) ==   \* mutant: takes the number before it cancels
  /\ CancelRepeat
  /\ waylandQueue' = Append(waylandQueue, [event |-> "ask", key |-> k, request |-> generation])

ScheduleRepeat(k) ==
  /\ CancelRepeat
  /\ waylandQueue' = Append(waylandQueue, [event |-> "ask", key |-> k, request |-> generation'])

NextIs(e) == batch # <<>> /\ Head(batch).event = e /\ batch' = Tail(batch)

HandlePress ==
  /\ NextIs("press")
  /\ LET k == Head(batch).key IN
       /\ ScheduleRepeat(k)
       /\ told' = Event("press", k) /\ handled' = told'
       /\ down' = down \cup {k}
  /\ UNCHANGED <<seatVars, platformQueue, repeated, stage>>

HandleRelease ==
  /\ NextIs("release")
  /\ LET k == Head(batch).key IN
       /\ CancelRepeat
       /\ told' = Event("release", k) /\ handled' = told'
       /\ down' = down \ {k}
  /\ UNCHANGED <<seatVars, platformQueue, waylandQueue, repeated, stage>>

HandleRepeat ==
  /\ NextIs("repeat")
  /\ told' = Event("repeat", Head(batch).key)
  /\ UNCHANGED <<seatVars, platformQueue, waylandQueue, repeater, down, handled, stage>>

ArmTimerUnchecked ==   \* mutant: does not compare the request
  /\ NextIs("arm")
  /\ IF Head(batch).repeats
     THEN /\ repeated' = Event("repeat", Head(batch).key)
          /\ timer' = Head(batch).request
          /\ live' = live \cup {timer'}
     ELSE UNCHANGED <<repeated, timer, live>>
  /\ UNCHANGED <<seatVars, platformQueue, waylandQueue, generation, flutter, stage>>

(* The second lambda of schedule_repeat.                                       *)
ArmTimer ==
  /\ NextIs("arm")
  /\ LET request == Head(batch).request IN
       IF request = generation /\ Head(batch).repeats
       THEN /\ repeated' = Event("repeat", Head(batch).key)
            /\ timer' = request
            /\ live' = live \cup {request}
       ELSE UNCHANGED <<repeated, timer, live>>
  /\ UNCHANGED <<seatVars, platformQueue, waylandQueue, generation, flutter, stage>>

FinalTaskKeepsTimer ==   \* mutant: does not cancel
  /\ NextIs("stop") /\ stage' = "stopped"
  /\ UNCHANGED <<seatVars, platformQueue, waylandQueue, repeater, flutter>>

(* The last task, which stop_engine queued.                                    *)
FinalTask ==
  /\ NextIs("stop")
  /\ CancelRepeat
  /\ stage' = "stopped"
  /\ UNCHANGED <<seatVars, platformQueue, waylandQueue, repeated, flutter>>

(* Every source sends the event the repeater holds now, not one of its own.    *)
TimerFires ==
  /\ stage # "stopped" /\ batch = <<>> /\ live # {}
  /\ Len(platformQueue) < MaxQueue
  /\ Enqueue(repeated)
  /\ UNCHANGED <<seatVars, batch, waylandQueue, repeater, flutter, stage>>

RunTask == HandlePress \/ HandleRelease \/ HandleRepeat \/ ArmTimer \/ FinalTask

KeyNext ==
  \/ \E k \in Keys : KeyPressed(k) \/ KeyReleased(k)
  \/ Unplug \/ AnswerRepeat \/ RequestShutdown \/ StopEngine
  \/ TakeBatch \/ RunTask \/ TimerFires

KeySpec == KeyInit /\ [][KeyNext]_keyVars

(* Both event loops serve their queues, and a shutdown that was requested goes *)
(* on to stop the engine.                                                      *)
KeyFairness == /\ WF_keyVars(AnswerRepeat) /\ WF_keyVars(StopEngine)
            /\ WF_keyVars(TakeBatch) /\ WF_keyVars(RunTask)

FairKeySpec == KeySpec /\ KeyFairness

-------------------------------------------------------------------------------
KeyTypeOK ==
  /\ held \subseteq Keys /\ down \subseteq Keys /\ keyboard \in BOOLEAN
  /\ platformQueue \in Seq(Task) /\ batch \in Seq(Task)
  /\ waylandQueue \in Seq(Task)
  /\ generation \in Nat /\ timer \in 0..generation /\ live \subseteq 1..generation
  /\ handled \in {NoKey} \cup [event : {"press", "release"}, key : Keys]
  /\ repeated \in {NoKey} \cup [event : {"repeat"}, key : Keys]
  /\ stage \in {"running", "shutting down", "closed", "stopped"}

(* There is at most one timer, and the repeater can still remove it: an answer *)
(* that was overtaken by another key must not create a second one              *)
(* (key_repeater.cpp: request != generation).                                  *)
OneTimer == live = IF timer = 0 THEN {} ELSE {timer}

(* A timer repeats the key of the last event handled, and that event was its   *)
(* press: neither a release nor another key that came while the rate was being *)
(* fetched leaves a timer behind.                                              *)
TimerFollowsLastKey ==
  live # {} => /\ handled.event = "press"
               /\ repeated = Event("repeat", handled.key)

(* What makes the two above hold at every step: a request that is still valid  *)
(* is for the key whose press was handled last, and a timer is the one of the  *)
(* current request.                                                            *)
Valid(r, g, h) ==
  r.request <= g /\ (r.request = g => h = Event("press", r.key))
AllValid(q, g, h) ==
  \A i \in 1..Len(q) : q[i].event \in {"ask", "arm"} => Valid(q[i], g, h)
RequestsAreCurrent ==
  /\ timer \in {0, generation}
  /\ timer # 0 => handled.event = "press" /\ repeated = Event("repeat", handled.key)
  /\ AllValid(waylandQueue, generation, handled)
  /\ AllValid(platformQueue, generation, handled)
  /\ AllValid(batch, generation, handled)

(* When the engine has been shut down no timer is left in the event loop that  *)
(* will be destroyed with it.                                                  *)
NoTimerOutlivesEngine == stage = "stopped" => live = {}

(* A repeat is told of a key that Flutter believes to be pressed: "Multiple    *)
(* keydown events means repeated key" (send_key_event).                        *)
RepeatsExtendPresses == told.event = "repeat" => told.key \in down

(* A press that nothing overtakes starts repeating: the round trip for the     *)
(* rate ends with a timer for it (when the rate allows one), unless another    *)
(* key, or the end of the engine, comes first.                                 *)
PressStartsRepeat ==
  \A g \in 1..(2 * MaxPresses + 1) :
    (handled.event = "press" /\ generation = g /\ stage # "stopped")
       ~> (timer = g \/ generation # g)
=============================================================================
