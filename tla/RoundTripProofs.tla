-------------------------- MODULE RoundTripProofs --------------------------
(* What passes between the platform thread and the Wayland thread and back,   *)
(* for any keys, views, requests and bounds.  Keys: the repeater never has    *)
(* two timers, the one it has repeats the key whose press was handled last,   *)
(* and none is left when the engine has stopped.  Resize calls: a stored      *)
(* request always has a worker, and only one, and the last request wins.      *)
EXTENDS KeyRepeat, ResizeRequests, SequenceTheorems, TLAPS

-----------------------------------------------------------------------------
(* Keys and their repeats                                                     *)

KeyInv == KeyTypeOK /\ OneTimer /\ RequestsAreCurrent

(* Appending a task that is no stale request keeps a queue valid.              *)
LEMMA Appended ==
  ASSUME NEW q \in Seq(Task), NEW t \in Task, NEW g, NEW h, AllValid(q, g, h),
         t.event \in {"ask", "arm"} => Valid(t, g, h)
  PROVE  Append(q, t) \in Seq(Task) /\ AllValid(Append(q, t), g, h)
<1>1. /\ Append(q, t) \in Seq(Task)
      /\ \A i \in 1..Len(Append(q, t)) :
           \/ i \in 1..Len(q) /\ Append(q, t)[i] = q[i]
           \/ Append(q, t)[i] = t
  OBVIOUS
<1> QED
  BY <1>1 DEF AllValid

(* So does taking its head, which is then valid itself.                        *)
LEMMA Taken ==
  ASSUME NEW q \in Seq(Task), q # <<>>, NEW g, NEW h, AllValid(q, g, h)
  PROVE  /\ Tail(q) \in Seq(Task) /\ AllValid(Tail(q), g, h)
         /\ Head(q) \in Task
         /\ Head(q).event \in {"ask", "arm"} => Valid(Head(q), g, h)
<1>1. /\ Tail(q) \in Seq(Task) /\ Head(q) \in Task
      /\ 1 \in 1..Len(q) /\ Head(q) = q[1]
      /\ \A i \in 1..Len(Tail(q)) : i + 1 \in 1..Len(q) /\ Tail(q)[i] = q[i + 1]
  OBVIOUS
<1> QED
  BY <1>1 DEF AllValid

(* A new generation makes every request void, whatever was handled.            *)
LEMMA Outdated ==
  ASSUME NEW q \in Seq(Task), NEW g \in Nat, NEW h, NEW k, AllValid(q, g, h)
  PROVE  AllValid(q, g + 1, k)
<1> SUFFICES ASSUME NEW i \in 1..Len(q), q[i].event \in {"ask", "arm"}
             PROVE  Valid(q[i], g + 1, k)
  BY DEF AllValid
<1>1. q[i] \in Task
  OBVIOUS
<1>2. q[i].request \in Nat \ {0}
  BY <1>1 DEF Task
<1> QED
  BY <1>2 DEF AllValid, Valid

(* What the invariant says of the queues.                                      *)
LEMMA Queues ==
  ASSUME KeyInv
  PROVE  /\ platformQueue \in Seq(Task) /\ AllValid(platformQueue, generation, handled)
         /\ batch \in Seq(Task) /\ AllValid(batch, generation, handled)
         /\ waylandQueue \in Seq(Task) /\ AllValid(waylandQueue, generation, handled)
         /\ generation \in Nat
  BY DEF KeyInv, KeyTypeOK, RequestsAreCurrent

(* An empty repeater satisfies the invariant.                                  *)
LEMMA KeyInitInv == KeyInit => KeyInv
<1> SUFFICES ASSUME KeyInit PROVE KeyInv
  OBVIOUS
<1>1. <<>> \in Seq(Task) /\ Len(<<>>) = 0
  OBVIOUS
<1>2. KeyTypeOK
  <2>1. keyboard \in BOOLEAN
    BY DEF KeyInit
  <2> QED
    BY <1>1, <2>1 DEF KeyInit, KeyTypeOK
<1>3. OneTimer /\ RequestsAreCurrent
  BY <1>1 DEF KeyInit, OneTimer, RequestsAreCurrent, AllValid
<1> QED
  BY <1>2, <1>3 DEF KeyInv

(* Enqueueing anything but a stale answer keeps the platform queue valid.      *)
LEMMA Enqueued ==
  ASSUME KeyInv, NEW t \in Task, Enqueue(t),
         t.event \in {"ask", "arm"} => Valid(t, generation, handled)
  PROVE  platformQueue' \in Seq(Task) /\ AllValid(platformQueue', generation, handled)
<1>1. platformQueue' \in {platformQueue, Append(platformQueue, t)}
  BY DEF Enqueue
<1> QED
  BY <1>1, Queues, Appended

(* Cancelling while a task is taken: no timer is left and no request is valid. *)
LEMMA Cancelled ==
  ASSUME KeyInv, CancelRepeat, batch # <<>>, batch' = Tail(batch), NEW k
  PROVE  /\ generation' = generation + 1 /\ timer' = 0 /\ live' = {}
         /\ batch' \in Seq(Task) /\ AllValid(batch', generation', k)
         /\ AllValid(platformQueue, generation', k)
         /\ AllValid(waylandQueue, generation', k)
<1>1. generation' = generation + 1 /\ timer' = 0 /\ live' = {}
  BY DEF KeyInv, OneTimer, CancelRepeat
<1>2. Tail(batch) \in Seq(Task) /\ AllValid(Tail(batch), generation, handled)
  BY Queues, Taken
<1> QED
  BY <1>1, <1>2, Queues, Outdated
(* Every step keeps the invariant: one step of the proof per action.           *)
LEMMA KeyStepInv == ASSUME KeyInv, [KeyNext]_keyVars PROVE KeyInv'
<1> USE DEF NoKey
<1> DEFINE Typed == /\ held \subseteq Keys /\ down \subseteq Keys
                    /\ stage \in {"running", "shutting down", "closed", "stopped"}
           Repeater == /\ generation \in Nat /\ timer \in {0, generation}
                       /\ live = (IF timer = 0 THEN {} ELSE {timer})
                       /\ handled \in {NoKey} \cup [event : {"press", "release"}, key : Keys]
                       /\ repeated \in {NoKey} \cup [event : {"repeat"}, key : Keys]
                       /\ timer # 0 => /\ handled.event = "press"
                                       /\ repeated = Event("repeat", handled.key)
           Valids == /\ platformQueue \in Seq(Task) /\ batch \in Seq(Task)
                     /\ waylandQueue \in Seq(Task)
                     /\ AllValid(platformQueue, generation, handled)
                     /\ AllValid(batch, generation, handled)
                     /\ AllValid(waylandQueue, generation, handled)
<1>1. Typed /\ keyboard \in BOOLEAN /\ Repeater /\ Valids
  BY DEF KeyInv, KeyTypeOK, OneTimer, RequestsAreCurrent
<1>2. ASSUME Typed', keyboard' \in BOOLEAN, Repeater', Valids'
      PROVE  KeyInv'
  <2>1. /\ generation' \in Nat /\ timer' \in 0..generation'
        /\ live' \subseteq 1..generation'
    <3>1. /\ generation' \in Nat /\ timer' \in {0, generation'}
          /\ live' = IF timer' = 0 THEN {} ELSE {timer'}
      BY <1>2
    <3> QED
      BY <3>1
  <2>2. KeyTypeOK'
    <3> HIDE DEF NoKey
    <3>1. Typed' /\ Valids' /\ Repeater'
      BY <1>2
    <3> QED
      BY <1>2, <2>1, <3>1, Zenon DEF KeyTypeOK
  <2>3. OneTimer' /\ RequestsAreCurrent'
    BY <1>2 DEF OneTimer, RequestsAreCurrent
  <2> QED
    BY <2>2, <2>3 DEF KeyInv
<1> HIDE DEF Typed, Repeater, Valids
<1>3. ASSUME UNCHANGED <<seatVars, repeater, flutter, stage>>
      PROVE  Typed' /\ keyboard' \in BOOLEAN /\ Repeater'
  BY <1>1, <1>3 DEF Typed, Repeater, seatVars, repeater, flutter
<1>4. CASE UNCHANGED keyVars
  BY <1>1, <1>2, <1>3, <1>4 DEF keyVars, Valids, repeater, flutter
<1>5. ASSUME NEW k \in Keys, KeyPressed(k) PROVE KeyInv'
  <2>1. Event("press", k) \in Task /\ Event("press", k).event = "press"
    BY DEF Event, Task
  <2>2. platformQueue' \in Seq(Task) /\ AllValid(platformQueue', generation, handled)
    BY <1>5, <2>1, Enqueued, Queues DEF KeyPressed
  <2>3. Typed' /\ keyboard' \in BOOLEAN /\ Repeater'
    <3>1. keyboard' \in BOOLEAN
      BY <1>5 DEF KeyPressed
    <3> QED
      BY <1>1, <1>5, <3>1 DEF KeyPressed, Typed, Repeater, repeater, flutter
  <2>4. Valids'
    BY <1>1, <1>5, <2>2 DEF KeyPressed, Valids, repeater, flutter
  <2> QED
    BY <1>2, <2>3, <2>4
<1>6. ASSUME NEW k \in Keys, KeyReleased(k) PROVE KeyInv'
  <2>1. Event("release", k) \in Task /\ Event("release", k).event = "release"
    BY DEF Event, Task
  <2>2. platformQueue' \in Seq(Task) /\ AllValid(platformQueue', generation, handled)
    BY <1>6, <2>1, Enqueued DEF KeyReleased
  <2>3. Typed' /\ keyboard' \in BOOLEAN /\ Repeater'
    <3>1. keyboard' \in BOOLEAN
      BY <1>6 DEF KeyReleased
    <3> QED
      BY <1>1, <1>6, <3>1 DEF KeyReleased, Typed, Repeater, repeater, flutter
  <2>4. Valids'
    BY <1>1, <1>6, <2>2 DEF KeyReleased, Valids, repeater, flutter
  <2> QED
    BY <1>2, <2>3, <2>4
<1>7. CASE Unplug
  <2>1. keyboard' \in BOOLEAN
    BY <1>7 DEF Unplug
  <2> QED
    BY <1>1, <1>2, <1>7, <2>1 DEF Unplug, Typed, Repeater, Valids, repeater, flutter
<1>8. CASE AnswerRepeat
  <2> DEFINE ask == Head(waylandQueue)
  <2>1. /\ waylandQueue' \in Seq(Task) /\ AllValid(waylandQueue', generation, handled)
        /\ ask \in Task
        /\ ask.event \in {"ask", "arm"} => Valid(ask, generation, handled)
    BY <1>8, Queues, Taken DEF AnswerRepeat
  <2>2. platformQueue' \in Seq(Task) /\ AllValid(platformQueue', generation, handled)
    <3>1. CASE UNCHANGED platformQueue
      BY <3>1, Queues
    <3>2. ASSUME NEW repeats \in Repeats,
                 Enqueue([event |-> "arm", key |-> ask.key,
                          request |-> ask.request, repeats |-> repeats])
          PROVE  platformQueue' \in Seq(Task) /\ AllValid(platformQueue', generation, handled)
      <4>1. ask.event = "ask" /\ ask.key \in Keys /\ ask.request \in Nat \ {0}
        BY <1>8, <2>1 DEF AnswerRepeat, Task
      <4>2. repeats \in BOOLEAN
        BY RepeatsAssumption
      <4> DEFINE arm == [event |-> "arm", key |-> ask.key,
                         request |-> ask.request, repeats |-> repeats]
      <4>3. arm \in Task
        BY <4>1, <4>2 DEF Task
      <4>4. Valid(arm, generation, handled)
        <5>1. arm.key = ask.key /\ arm.request = ask.request
          OBVIOUS
        <5>2. Valid(ask, generation, handled)
          BY <2>1, <4>1
        <5> HIDE DEF arm, ask
        <5> QED
          BY <5>1, <5>2 DEF Valid
      <4> QED
        BY <3>2, <4>3, <4>4, Enqueued
    <3> QED
      BY <1>8, <3>1, <3>2 DEF AnswerRepeat
  <2>3. Valids'
    BY <1>1, <1>8, <2>1, <2>2 DEF AnswerRepeat, Valids, repeater, flutter
  <2> QED
    BY <1>2, <1>3, <1>8, <2>3 DEF AnswerRepeat
<1>9. CASE RequestShutdown \/ StopEngine
  <2>1. Event("stop", "none") \in Task /\ Event("stop", "none").event = "stop"
    BY DEF Event, Task
  <2>2. platformQueue' \in Seq(Task) /\ AllValid(platformQueue', generation, handled)
    BY <1>9, <2>1, Queues, Appended DEF RequestShutdown, StopEngine
  <2>3. Typed' /\ keyboard' \in BOOLEAN /\ Repeater' /\ Valids'
    <3>1. keyboard' \in BOOLEAN
      BY <1>1, <1>9 DEF RequestShutdown, StopEngine, seatVars
    <3> QED
      BY <1>1, <1>9, <2>2, <3>1 DEF RequestShutdown, StopEngine, Typed, Repeater,
                                    Valids, seatVars, repeater, flutter
  <2> QED
    BY <1>2, <2>3
<1>10. CASE TakeBatch
  <2>1. <<>> \in Seq(Task) /\ AllValid(<<>>, generation, handled)
    BY DEF AllValid
  <2>2. Valids'
    BY <1>1, <1>10, <2>1 DEF TakeBatch, Valids, repeater, flutter
  <2> QED
    BY <1>2, <1>3, <1>10, <2>2 DEF TakeBatch
<1>11. CASE HandlePress
  <2> DEFINE k == Head(batch).key
  <2>1. k \in Keys
    BY <1>11, Queues, Taken DEF HandlePress, NextIs, Task
  <2>2. Typed' /\ Repeater'
    <3>1. CancelRepeat /\ batch # <<>> /\ batch' = Tail(batch)
      BY <1>11 DEF HandlePress, NextIs, ScheduleRepeat
    <3>2. generation' = generation + 1 /\ timer' = 0 /\ live' = {} /\ generation' \in Nat
      BY <3>1, Queues DEF KeyInv, OneTimer, CancelRepeat
    <3>3. handled' \in [event : {"press"}, key : Keys]
      BY <1>11, <2>1 DEF HandlePress, Event
    <3>4. Repeater'
      BY <1>1, <1>11, <3>2, <3>3 DEF HandlePress, Repeater, flutter
    <3> QED
      BY <1>1, <1>11, <2>1, <3>4 DEF HandlePress, Typed, seatVars, flutter
  <2>3. /\ batch' \in Seq(Task) /\ AllValid(batch', generation', handled')
        /\ AllValid(platformQueue, generation', handled')
        /\ AllValid(waylandQueue, generation', handled')
        /\ generation' \in Nat
    BY <1>11, Cancelled, Queues DEF HandlePress, NextIs, ScheduleRepeat
  <2> DEFINE ask == [event |-> "ask", key |-> k, request |-> generation']
  <2>4. ask \in Task /\ Valid(ask, generation', handled')
    <3>1. generation' \in Nat \ {0}
      <4>1. CancelRepeat /\ generation \in Nat
        BY <1>11, Queues DEF HandlePress, ScheduleRepeat
      <4> QED
        BY <4>1 DEF CancelRepeat
    <3>2. handled' = Event("press", k)
      BY <1>11 DEF HandlePress
    <3>3. ask \in Task
      BY <2>1, <3>1 DEF Task
    <3>4. Valid(ask, generation', handled')
      BY <3>1, <3>2 DEF Valid
    <3> QED
      BY <3>3, <3>4
  <2>5. Append(waylandQueue, ask) \in Seq(Task)
        /\ AllValid(Append(waylandQueue, ask), generation', handled')
    BY <2>3, <2>4, Queues, Appended
  <2>6. Valids'
    BY <1>1, <1>11, <2>3, <2>5 DEF HandlePress, ScheduleRepeat, Valids
  <2>7. keyboard' \in BOOLEAN
    BY <1>1, <1>11 DEF HandlePress, seatVars
  <2> QED
    BY <1>2, <2>2, <2>6, <2>7
<1>12. CASE HandleRelease
  <2>1. Head(batch).key \in Keys
    BY <1>12, Queues, Taken DEF HandleRelease, NextIs, Task
  <2>2. Typed' /\ Repeater'
    <3>1. CancelRepeat /\ batch # <<>> /\ batch' = Tail(batch)
      BY <1>12 DEF HandleRelease, NextIs, ScheduleRepeat
    <3>2. generation' = generation + 1 /\ timer' = 0 /\ live' = {} /\ generation' \in Nat
      BY <3>1, Queues DEF KeyInv, OneTimer, CancelRepeat
    <3>3. handled' \in [event : {"release"}, key : Keys]
      BY <1>12, <2>1 DEF HandleRelease, Event
    <3>4. Repeater'
      BY <1>1, <1>12, <3>2, <3>3 DEF HandleRelease, Repeater, flutter
    <3> QED
      BY <1>1, <1>12, <2>1, <3>4 DEF HandleRelease, Typed, seatVars, flutter
  <2>3. Valids'
    BY <1>1, <1>12, Cancelled DEF HandleRelease, NextIs, Valids
  <2>4. keyboard' \in BOOLEAN
    BY <1>1, <1>12 DEF HandleRelease, seatVars
  <2> QED
    BY <1>2, <2>2, <2>3, <2>4
<1>13. CASE HandleRepeat
  <2>1. batch' \in Seq(Task) /\ AllValid(batch', generation, handled)
    BY <1>13, Queues, Taken DEF HandleRepeat, NextIs
  <2>2. Typed' /\ keyboard' \in BOOLEAN /\ Repeater' /\ Valids'
    BY <1>1, <1>13, <2>1 DEF HandleRepeat, Typed, Repeater, Valids, seatVars, repeater
  <2> QED
    BY <1>2, <2>2
<1>14. CASE ArmTimer
  <2> DEFINE arm == Head(batch)
  <2>1. /\ batch' \in Seq(Task) /\ AllValid(batch', generation, handled)
        /\ arm.key \in Keys /\ arm.request \in Nat \ {0}
        /\ Valid(arm, generation, handled)
    BY <1>14, Queues, Taken DEF ArmTimer, NextIs, Task
  <2>2. Typed' /\ keyboard' \in BOOLEAN /\ Valids'
    BY <1>1, <1>14, <2>1 DEF ArmTimer, Typed, Valids, seatVars, flutter
  <2>3. CASE arm.request = generation /\ arm.repeats
    <3>1. handled = Event("press", arm.key) /\ UNCHANGED <<generation, handled>>
      BY <1>14, <2>1, <2>3 DEF ArmTimer, Valid, flutter
    <3>2. /\ repeated' = Event("repeat", arm.key)
          /\ timer' = generation /\ live' = live \cup {generation}
      BY <1>14, <2>3 DEF ArmTimer
    <3>3. generation \in Nat \ {0} /\ live \in {{}, {generation}}
      BY <1>1, <2>1, <2>3 DEF Repeater
    <3>4. /\ generation' \in Nat /\ timer' \in {0, generation'}
          /\ live' = IF timer' = 0 THEN {} ELSE {timer'}
      BY <3>1, <3>2, <3>3
    <3>5. /\ handled' \in [event : {"press", "release"}, key : Keys]
          /\ handled'.event = "press" /\ handled'.key = arm.key
          /\ repeated' = Event("repeat", arm.key)
          /\ repeated' \in [event : {"repeat"}, key : Keys]
      BY <2>1, <3>1, <3>2 DEF Event
    <3>6. Repeater'
      BY <3>4, <3>5 DEF Repeater
    <3> QED
      BY <1>2, <2>2, <3>6
  <2>4. CASE ~(arm.request = generation /\ arm.repeats)
    <3>1. Repeater'
      BY <1>1, <1>14, <2>4 DEF ArmTimer, Repeater, flutter, Event
    <3> QED
      BY <1>2, <2>2, <3>1
  <2> QED
    BY <2>3, <2>4
<1>15. CASE FinalTask
  <2>1. Typed' /\ Repeater'
    <3>1. CancelRepeat /\ batch # <<>> /\ batch' = Tail(batch)
      BY <1>15 DEF FinalTask, NextIs, ScheduleRepeat
    <3>2. generation' = generation + 1 /\ timer' = 0 /\ live' = {} /\ generation' \in Nat
      BY <3>1, Queues DEF KeyInv, OneTimer, CancelRepeat
    <3>3. handled' = handled
      BY <1>15 DEF FinalTask, flutter
    <3>4. Repeater'
      BY <1>1, <1>15, <3>2, <3>3 DEF FinalTask, Repeater, flutter
    <3> QED
      BY <1>1, <1>15, <3>4 DEF FinalTask, Typed, seatVars, flutter
  <2>2. Valids'
    BY <1>1, <1>15, Cancelled DEF FinalTask, NextIs, Valids, flutter
  <2>3. keyboard' \in BOOLEAN
    BY <1>1, <1>15 DEF FinalTask, seatVars
  <2> QED
    BY <1>2, <2>1, <2>2, <2>3
<1>16. CASE TimerFires
  <2>1. repeated \in [event : {"repeat"}, key : Keys]
    BY <1>1, <1>16 DEF TimerFires, Repeater, Event
  <2>2. repeated \in Task /\ repeated.event = "repeat"
    BY <2>1 DEF Task
  <2>3. platformQueue' \in Seq(Task) /\ AllValid(platformQueue', generation, handled)
    BY <1>16, <2>2, Enqueued DEF TimerFires
  <2>4. Valids'
    BY <1>1, <1>16, <2>3 DEF TimerFires, Valids, repeater, flutter
  <2> QED
    BY <1>2, <1>3, <1>16, <2>4 DEF TimerFires
<1>17. KeyNext \/ UNCHANGED keyVars
  OBVIOUS
<1> QED
  BY <1>17, <1>4, <1>5, <1>6, <1>7, <1>8, <1>9, <1>10, <1>11, <1>12, <1>13, <1>14, <1>15,
     <1>16 DEF KeyNext, RunTask

(* The types of the model, and the queues' requests (key_repeater.cpp).         *)
THEOREM RepeaterTyped == KeySpec => [](KeyTypeOK /\ RequestsAreCurrent)
<1>1. KeySpec => []KeyInv
  BY KeyInitInv, KeyStepInv, PTL DEF KeySpec
<1> QED
  BY <1>1, PTL DEF KeyInv

(* However requests, answers and key events overtake each other, at most one   *)
(* timer source exists and the repeater holds it.                              *)
THEOREM NeverTwoTimers == KeySpec => []OneTimer
<1>1. KeySpec => []KeyInv
  BY KeyInitInv, KeyStepInv, PTL DEF KeySpec
<1> QED
  BY <1>1, PTL DEF KeyInv

(* A timer never repeats a key that was released, or followed by another key,  *)
(* as far as the platform thread has handled the events.                       *)
THEOREM TimerIsForTheLastKey == KeySpec => []TimerFollowsLastKey
<1>1. KeyInv => TimerFollowsLastKey
  BY DEF KeyInv, OneTimer, RequestsAreCurrent, TimerFollowsLastKey
<1>2. KeySpec => []KeyInv
  BY KeyInitInv, KeyStepInv, PTL DEF KeySpec
<1> QED
  BY <1>1, <1>2, PTL

-------------------------------------------------------------------------------
(* The end of the engine: its task is the last one handled, and takes the      *)
(* timer with it.                                                              *)

NoStop(q) == \A i \in 1..Len(q) : q[i].event # "stop"
StopOnlyLast(q) == \A i \in 1..(Len(q) - 1) : q[i].event # "stop"

StopIsLast ==
  /\ stage # "closed" => NoStop(platformQueue) /\ NoStop(batch)
  /\ stage = "closed" => /\ StopOnlyLast(platformQueue) /\ StopOnlyLast(batch)
                         /\ ~NoStop(batch) => platformQueue = <<>>
  /\ stage = "stopped" => platformQueue = <<>> /\ batch = <<>> /\ live = {}

EndInv == KeyInv /\ StopIsLast

LEMMA AppendedStop ==
  ASSUME NEW q \in Seq(Task), NEW t, NoStop(q)
  PROVE  /\ StopOnlyLast(Append(q, t))
         /\ t.event # "stop" => NoStop(Append(q, t))
<1>1. /\ Len(q) \in Nat /\ Len(Append(q, t)) = Len(q) + 1
      /\ Append(q, t)[Len(q) + 1] = t
      /\ \A i \in 1..Len(q) : Append(q, t)[i] = q[i]
  OBVIOUS
<1> QED
  BY <1>1 DEF NoStop, StopOnlyLast

LEMMA TakenStop ==
  ASSUME NEW q \in Seq(Task), q # <<>>
  PROVE  /\ NoStop(q) => NoStop(Tail(q)) /\ Head(q).event # "stop"
         /\ StopOnlyLast(q) => StopOnlyLast(Tail(q))
         /\ StopOnlyLast(q) /\ Head(q).event = "stop" => Tail(q) = <<>>
         /\ NoStop(q) => StopOnlyLast(q)
         /\ StopOnlyLast(q) /\ ~NoStop(q) /\ Head(q).event # "stop" => ~NoStop(Tail(q))
<1>1. /\ Tail(q) \in Seq(Task) /\ Len(q) \in Nat \ {0}
      /\ Len(Tail(q)) = Len(q) - 1 /\ Head(q) = q[1]
      /\ \A i \in 1..(Len(q) - 1) : Tail(q)[i] = q[i + 1]
  OBVIOUS
<1>2. StopOnlyLast(q) /\ Head(q).event = "stop" => Len(Tail(q)) = 0
  BY <1>1 DEF StopOnlyLast
<1>3. Len(Tail(q)) = 0 => Tail(q) = <<>>
  <2>1. Tail(q) # <<>> => Len(Tail(q)) \in Nat \ {0}
    BY <1>1, EmptySeq
  <2> QED
    BY <2>1
<1>4. NoStop(q) => NoStop(Tail(q)) /\ Head(q).event # "stop"
  BY <1>1 DEF NoStop
<1>5. StopOnlyLast(q) => StopOnlyLast(Tail(q))
  BY <1>1 DEF StopOnlyLast
<1>6. NoStop(q) => StopOnlyLast(q)
  BY <1>1 DEF NoStop, StopOnlyLast
<1>7. ASSUME NoStop(Tail(q)), Head(q).event # "stop" PROVE NoStop(q)
  <2> SUFFICES ASSUME NEW i \in 1..Len(q) PROVE q[i].event # "stop"
    BY DEF NoStop
  <2>1. CASE i = 1
    BY <1>1, <1>7, <2>1
  <2>2. CASE i # 1
    <3>1. i - 1 \in 1..Len(Tail(q)) /\ Tail(q)[i - 1] = q[i]
      BY <1>1, <2>2
    <3> QED
      BY <1>7, <3>1 DEF NoStop
  <2> QED
    BY <2>1, <2>2
<1> QED
  BY <1>2, <1>3, <1>4, <1>5, <1>6, <1>7

(* A task that is not the final one is queued ...                              *)
LEMMA EnqueuedStop ==
  ASSUME EndInv, NEW t, t.event # "stop", platformQueue' = platformQueue \/ Enqueue(t),
         UNCHANGED <<batch, live, stage>>
  PROVE  StopIsLast'
<1>1. platformQueue \in Seq(Task)
  BY Queues DEF EndInv
<1>2. CASE platformQueue' = platformQueue
  BY <1>2 DEF EndInv, StopIsLast
<1>3. CASE Open /\ platformQueue' = Append(platformQueue, t)
  <2>1. stage \in {"running", "shutting down"} /\ NoStop(platformQueue)
    BY <1>3 DEF Open, EndInv, StopIsLast
  <2>2. NoStop(platformQueue')
    BY <1>1, <1>3, <2>1, AppendedStop
  <2> QED
    BY <2>1, <2>2 DEF EndInv, StopIsLast
<1> QED
  BY <1>2, <1>3 DEF Enqueue

(* ... or has been run.                                                        *)
LEMMA RunStop ==
  ASSUME EndInv, batch # <<>>, batch' = Tail(batch), Head(batch).event # "stop",
         UNCHANGED <<platformQueue, stage>>
  PROVE  StopIsLast'
<1>1. batch \in Seq(Task)
  BY Queues DEF EndInv
<1>2. stage # "stopped"
  BY DEF EndInv, StopIsLast
<1> QED
  BY <1>1, <1>2, TakenStop DEF EndInv, StopIsLast

LEMMA StepEnd == ASSUME EndInv, [KeyNext]_keyVars PROVE StopIsLast'
<1> USE DEF Event
<1>1. CASE UNCHANGED keyVars
  BY <1>1 DEF keyVars, repeater, EndInv, StopIsLast
<1>2. ASSUME NEW k \in Keys, KeyPressed(k) \/ KeyReleased(k) PROVE StopIsLast'
  <2>1. Event("press", k).event # "stop" /\ Event("release", k).event # "stop"
    OBVIOUS
  <2> QED
    BY <1>2, <2>1, EnqueuedStop DEF KeyPressed, KeyReleased, repeater
<1>3. CASE Unplug
  BY <1>3 DEF Unplug, repeater, EndInv, StopIsLast
<1>4. CASE AnswerRepeat
  <2> DEFINE arm(r) == [event |-> "arm", key |-> Head(waylandQueue).key,
                        request |-> Head(waylandQueue).request, repeats |-> r]
  <2>1. \A r : arm(r).event # "stop"
    OBVIOUS
  <2> HIDE DEF arm
  <2>2. /\ platformQueue' = platformQueue \/ \E r \in Repeats : Enqueue(arm(r))
        /\ UNCHANGED <<batch, live, stage>>
    BY <1>4 DEF AnswerRepeat, repeater, arm
  <2> QED
    BY <2>1, <2>2, EnqueuedStop
<1>5. CASE RequestShutdown
  BY <1>5 DEF RequestShutdown, repeater, EndInv, StopIsLast
<1>6. CASE StopEngine
  <2>1. platformQueue \in Seq(Task) /\ batch \in Seq(Task)
    BY Queues DEF EndInv
  <2>2. /\ NoStop(platformQueue) /\ NoStop(batch) /\ stage' = "closed" /\ batch' = batch
        /\ platformQueue' = Append(platformQueue, Event("stop", "none"))
    BY <1>6 DEF StopEngine, EndInv, StopIsLast
  <2>3. StopOnlyLast(platformQueue') /\ StopOnlyLast(batch)
    <3>1. NoStop(batch) => StopOnlyLast(batch)
      BY <2>1 DEF NoStop, StopOnlyLast
    <3> QED
      BY <2>1, <2>2, <3>1, AppendedStop
  <2> QED
    BY <2>2, <2>3 DEF StopIsLast
<1>7. CASE TakeBatch
  <2>1. /\ stage # "stopped" /\ batch' = platformQueue /\ platformQueue' = <<>> /\ stage' = stage
    BY <1>7 DEF TakeBatch
  <2>2. NoStop(<<>>) /\ StopOnlyLast(<<>>)
    BY DEF NoStop, StopOnlyLast
  <2> QED
    BY <2>1, <2>2 DEF EndInv, StopIsLast
<1>8. CASE HandlePress \/ HandleRelease \/ HandleRepeat \/ ArmTimer
  BY <1>8, RunStop DEF HandlePress, HandleRelease, HandleRepeat, ArmTimer, NextIs
<1>9. CASE FinalTask
  <2>1. /\ batch # <<>> /\ Head(batch).event = "stop" /\ batch' = Tail(batch)
        /\ stage' = "stopped" /\ platformQueue' = platformQueue /\ CancelRepeat
        /\ batch \in Seq(Task)
    BY <1>9, Queues DEF FinalTask, NextIs, EndInv
  <2>2. ~NoStop(batch)
    BY <2>1, TakenStop
  <2>3. stage = "closed" /\ platformQueue' = <<>> /\ StopOnlyLast(batch)
    BY <2>1, <2>2 DEF EndInv, StopIsLast
  <2>4. batch' = <<>>
    BY <2>1, <2>3, TakenStop
  <2>5. live' = {}
    BY <2>1, Cancelled DEF EndInv
  <2>6. NoStop(<<>>)
    BY DEF NoStop
  <2> QED
    BY <2>1, <2>3, <2>4, <2>5, <2>6 DEF StopIsLast
<1>10. CASE TimerFires
  <2>1. repeated.event # "stop"
    <3>1. timer # 0
      BY <1>10 DEF TimerFires, EndInv, KeyInv, OneTimer
    <3> QED
      BY <3>1 DEF EndInv, KeyInv, RequestsAreCurrent
  <2> QED
    BY <1>10, <2>1, EnqueuedStop DEF TimerFires, repeater
<1> QED
  BY <1>1, <1>2, <1>3, <1>4, <1>5, <1>6, <1>7, <1>8, <1>9, <1>10 DEF KeyNext, RunTask

(* The event loop is destroyed with no timer in it that would still refer to   *)
(* the repeater (stop_engine, cancel_repeat).                                  *)
THEOREM TimersEndWithTheEngine == KeySpec => []NoTimerOutlivesEngine
<1>1. KeyInit => EndInv
  <2>1. KeyInit => StopIsLast
    BY DEF KeyInit, StopIsLast, NoStop
  <2> QED
    BY <2>1, KeyInitInv DEF EndInv
<1>2. EndInv /\ [KeyNext]_keyVars => EndInv'
  BY KeyStepInv, StepEnd DEF EndInv
<1>3. EndInv => NoTimerOutlivesEngine
  BY DEF EndInv, StopIsLast, NoTimerOutlivesEngine
<1> QED
  BY <1>1, <1>2, <1>3, PTL DEF KeySpec

-----------------------------------------------------------------------------
(* Resize calls                                                               *)

(* Requests are numbered; what is stored is what was asked last, and what    *)
(* was taken is that too until the shell asks again.                         *)
Numbered ==
  /\ \A v \in Views : asked[v].call <= calls /\ pending[v] \in {NoRequest, asked[v]}
  /\ taken # NoRequest => worker # NoView

(* A request that was taken is older than the one that is stored: requests  *)
(* reach a window in the order they were made.                              *)
TakenIsOlder ==
  taken # NoRequest =>
    /\ taken.call <= asked[worker].call
    /\ pending[worker] = NoRequest => taken = asked[worker]
    /\ pending[worker] # NoRequest => taken.call < pending[worker].call

(* Nothing stored and nothing taken: the window knows.                       *)
Settled(v) == pending[v] = NoRequest /\ (worker = v => taken = NoRequest)

SettledReflect ==
  \A v \in Views :
    Settled(v) /\ toplevels[v] = "live" /\ asked[v] # NoRequest => Reflected(v, asked[v])

Inv == TypeOK /\ RequestHasWorker /\ OneWorkerEach /\ Numbered /\ TakenIsOlder /\ SettledReflect

LEMMA InitInv == Init => Inv
<1> SUFFICES ASSUME Init PROVE Inv
  OBVIOUS
<1> USE ResizeAssumption
<1>1. NoRequest \in Stored /\ NoBox \in Boxes
  BY DEF NoRequest, Stored, NoBox, Boxes
<1>2. TypeOK
  BY <1>1 DEF Init, TypeOK
<1>3. RequestHasWorker /\ OneWorkerEach
  BY DEF Init, RequestHasWorker, OneWorkerEach, HasWorker
<1>4. Numbered /\ TakenIsOlder /\ SettledReflect
  BY DEF Init, Numbered, TakenIsOlder, SettledReflect, NoRequest
<1> QED
  BY <1>2, <1>3, <1>4 DEF Inv

(* A call stores a request newer than all others.                            *)
LEMMA ResizeWindowInv ==
  ASSUME Inv, NEW v \in Views, NEW r \in Requests, ResizeWindow(v, r)
  PROVE  Inv'
<1> USE ResizeAssumption
<1> DEFINE stored == [width |-> r.width, placed |-> r.placed, x |-> r.x, call |-> calls + 1]
<1>0. r \in [width : Nat, placed : BOOLEAN, x : Int] /\ calls \in Nat
  BY DEF Inv, TypeOK
<1>1. stored \in Stored /\ stored.call = calls + 1
  BY <1>0 DEF Stored
<1>2. stored # NoRequest
  BY <1>0 DEF NoRequest
<1>3. pending' = [pending EXCEPT ![v] = stored] /\ asked' = [asked EXCEPT ![v] = stored]
  BY DEF ResizeWindow, InsertOrAssign
<1> HIDE DEF stored
<1>4. TypeOK'
  <2>1. pending' \in [Views -> Stored] /\ asked' \in [Views -> Stored]
    BY <1>1, <1>3 DEF Inv, TypeOK
  <2> QED
    BY <1>0, <2>1 DEF Inv, TypeOK, ResizeWindow
<1>5. RequestHasWorker'
  <2> SUFFICES ASSUME NEW w \in Views
               PROVE  /\ pending'[w] # NoRequest => w \in scheduled'
                      /\ w \in scheduled' <=> HasWorker(w)'
    BY DEF RequestHasWorker
  <2>1. /\ pending[w] # NoRequest => w \in scheduled
        /\ w \in scheduled <=> HasWorker(w)
    BY DEF Inv, RequestHasWorker
  <2>2. CASE w = v
    BY <2>1, <2>2 DEF ResizeWindow, HasWorker, NeedsWorker
  <2>3. CASE w # v
    BY <1>3, <2>1, <2>3 DEF Inv, TypeOK, ResizeWindow, HasWorker, NeedsWorker
  <2> QED
    BY <2>2, <2>3
<1>6. OneWorkerEach'
  <2>1. v \in scheduled <=> HasWorker(v)
    BY DEF Inv, RequestHasWorker
  <2> QED
    BY <2>1 DEF Inv, OneWorkerEach, ResizeWindow, NeedsWorker, HasWorker
<1>7. Numbered'
  <2>1. \A w \in Views : asked[w].call <= calls /\ asked[w].call \in Nat
                         /\ pending[w] \in {NoRequest, asked[w]}
    BY DEF Inv, TypeOK, Stored, Numbered
  <2>2. \A w \in Views : asked'[w].call <= calls' /\ pending'[w] \in {NoRequest, asked'[w]}
    BY <1>0, <1>1, <1>3, <2>1 DEF Inv, TypeOK, ResizeWindow
  <2> QED
    BY <2>2 DEF Inv, Numbered, ResizeWindow
<1>8. TakenIsOlder'
  <2> SUFFICES ASSUME taken # NoRequest
               PROVE  /\ taken.call <= asked'[worker].call
                      /\ pending'[worker] = NoRequest => taken = asked'[worker]
                      /\ pending'[worker] # NoRequest => taken.call < pending'[worker].call
    BY DEF TakenIsOlder, ResizeWindow
  <2>1. /\ taken.call <= asked[worker].call
        /\ pending[worker] = NoRequest => taken = asked[worker]
        /\ pending[worker] # NoRequest => taken.call < pending[worker].call
        /\ worker \in Views
    BY DEF Inv, TypeOK, TakenIsOlder, Numbered
  <2>2. CASE worker = v
    <3>1. taken.call \in Nat /\ asked[v].call \in Nat /\ asked[v].call <= calls
      BY DEF Inv, TypeOK, Stored, Numbered
    <3>2. taken.call < calls + 1
      BY <1>0, <2>1, <2>2, <3>1
    <3>3. pending'[worker] = stored /\ asked'[worker] = stored
      BY <1>3, <2>2 DEF Inv, TypeOK
    <3> QED
      BY <1>0, <1>1, <1>2, <3>1, <3>2, <3>3
  <2>3. CASE worker # v
    BY <1>3, <2>1, <2>3 DEF Inv, TypeOK
  <2> QED
    BY <2>2, <2>3
<1>9. SettledReflect'
  <2> SUFFICES ASSUME NEW w \in Views, Settled(w)', toplevels'[w] = "live", asked'[w] # NoRequest
               PROVE  Reflected(w, asked[w])' 
    BY DEF SettledReflect
  <2>1. w # v
    BY <1>2, <1>3 DEF Inv, TypeOK, Settled
  <2>2. Reflected(w, asked[w])
    BY <1>3, <2>1 DEF Inv, TypeOK, Settled, SettledReflect, ResizeWindow
  <2> QED
    BY <1>3, <2>1, <2>2 DEF Inv, TypeOK, ResizeWindow, Reflected
<1> QED
  BY <1>4, <1>5, <1>6, <1>7, <1>8, <1>9 DEF Inv

(* Queueing a worker only moves it from the caller's hands into the queue.   *)
LEMMA EnqueueWorkerInv == ASSUME Inv, EnqueueWorker PROVE Inv'
<1> DEFINE n == Len(tasks)
<1>1. tasks \in Seq(Views) /\ calling \in Views /\ tasks' = Append(tasks, calling)
  BY DEF Inv, TypeOK, EnqueueWorker
<1>2. /\ tasks' \in Seq(Views) /\ n \in Nat
      /\ DOMAIN tasks = 1..n /\ DOMAIN tasks' = 1..(n + 1)
      /\ tasks'[n + 1] = calling
      /\ \A i \in 1..n : tasks'[i] = tasks[i]
  BY <1>1
<1>3. TypeOK'
  BY <1>2 DEF Inv, TypeOK, EnqueueWorker
<1>4. RequestHasWorker'
  <2> SUFFICES ASSUME NEW w \in Views
               PROVE  /\ pending'[w] # NoRequest => w \in scheduled'
                      /\ w \in scheduled' <=> HasWorker(w)'
    BY DEF RequestHasWorker
  <2>1. HasWorker(w)' <=> HasWorker(w)
    <3>1. (\E i \in DOMAIN tasks' : tasks'[i] = w)
            <=> (\E i \in DOMAIN tasks : tasks[i] = w) \/ calling = w
      BY <1>2
    <3> QED
      BY <3>1, ResizeAssumption DEF HasWorker, EnqueueWorker
  <2> QED
    BY <2>1 DEF Inv, RequestHasWorker, EnqueueWorker
<1>5. OneWorkerEach'
  <2>1. /\ \A i, j \in 1..n : tasks[i] = tasks[j] => i = j
        /\ \A i \in 1..n : tasks[i] # calling /\ tasks[i] # worker /\ tasks[i] \in Views
        /\ calling # worker
    <3>1. \A i \in 1..n : tasks[i] \in Views
      BY <1>1, <1>2
    <3>2. \A i \in 1..n : tasks[i] # calling /\ tasks[i] # worker
      BY <1>2 DEF Inv, OneWorkerEach
    <3>3. calling # worker
      BY <1>1, ResizeAssumption DEF Inv, OneWorkerEach
    <3>4. \A i, j \in 1..n : tasks[i] = tasks[j] => i = j
      BY <1>2 DEF Inv, OneWorkerEach
    <3> QED
      BY <3>1, <3>2, <3>3, <3>4
  <2>2. \A i \in 1..(n + 1) : i \in 1..n \/ i = n + 1
    BY <1>2
  <2>3. \A i, j \in 1..(n + 1) : tasks'[i] = tasks'[j] => i = j
    BY <1>2, <2>1, <2>2
  <2>4. \A i \in 1..(n + 1) : tasks'[i] # NoView /\ tasks'[i] # worker
    BY <1>1, <1>2, <2>1, <2>2, ResizeAssumption
  <2> QED
    BY <1>2, <2>3, <2>4 DEF OneWorkerEach, EnqueueWorker
<1>6. Numbered' /\ TakenIsOlder' /\ SettledReflect'
  BY DEF Inv, Numbered, TakenIsOlder, SettledReflect, Settled, Reflected, EnqueueWorker
<1> QED
  BY <1>3, <1>4, <1>5, <1>6 DEF Inv

(* Starting a worker moves it from the queue onto the thread.                *)
LEMMA StartWorkerInv == ASSUME Inv, StartWorker PROVE Inv'
<1> DEFINE n == Len(tasks)
<1>1. tasks \in Seq(Views) /\ tasks # <<>> /\ worker = NoView
      /\ worker' = Head(tasks) /\ tasks' = Tail(tasks) /\ taken' = taken
  BY DEF Inv, TypeOK, StartWorker
<1>2. /\ tasks' \in Seq(Views) /\ n \in Nat \ {0}
      /\ DOMAIN tasks = 1..n /\ DOMAIN tasks' = 1..(n - 1)
      /\ worker' = tasks[1] /\ worker' \in Views
      /\ \A i \in 1..(n - 1) : tasks'[i] = tasks[i + 1]
  BY <1>1
<1>3. TypeOK'
  BY <1>2 DEF Inv, TypeOK, StartWorker
<1>4. taken = NoRequest
  BY <1>1 DEF Inv, Numbered
<1>5. RequestHasWorker'
  <2> SUFFICES ASSUME NEW w \in Views
               PROVE  /\ pending'[w] # NoRequest => w \in scheduled'
                      /\ w \in scheduled' <=> HasWorker(w)'
    BY DEF RequestHasWorker
  <2>1. (\E i \in 1..n : tasks[i] = w) <=> worker' = w \/ \E i \in 1..(n - 1) : tasks'[i] = w
    <3>1. ASSUME NEW i \in 1..n, tasks[i] = w, i # 1
          PROVE  i - 1 \in 1..(n - 1) /\ tasks'[i - 1] = w
      <4>1. i - 1 \in 1..(n - 1) /\ (i - 1) + 1 = i
        BY <1>2, <3>1
      <4> QED
        BY <1>2, <3>1, <4>1
    <3>2. 1 \in 1..n /\ \A i \in 1..(n - 1) : i + 1 \in 1..n
      BY <1>2
    <3> QED
      BY <1>2, <3>1, <3>2
  <2>2. w # NoView
    BY ResizeAssumption
  <2> QED
    BY <1>1, <1>2, <2>1, <2>2 DEF Inv, RequestHasWorker, HasWorker, StartWorker
<1>6. OneWorkerEach'
  <2>1. \A i, j \in 1..n : tasks[i] = tasks[j] => i = j
    BY <1>2 DEF Inv, OneWorkerEach
  <2>2. \A i \in 1..(n - 1) : i + 1 \in 1..n /\ i + 1 # 1
    BY <1>2
  <2>3. \A i, j \in 1..(n - 1) : tasks'[i] = tasks'[j] => i = j
    BY <1>2, <2>1, <2>2
  <2>4. \A i \in 1..(n - 1) : tasks'[i] # worker' /\ tasks'[i] # calling
    BY <1>2, <2>1, <2>2 DEF Inv, OneWorkerEach
  <2>5. calling = NoView \/ calling # worker'
    BY <1>2 DEF Inv, OneWorkerEach
  <2> QED
    BY <1>2, <2>3, <2>4, <2>5 DEF OneWorkerEach, StartWorker
<1>7. Numbered' /\ TakenIsOlder' /\ SettledReflect'
  BY <1>1, <1>4 DEF Inv, Numbered, TakenIsOlder, SettledReflect, Settled, Reflected, StartWorker
<1> QED
  BY <1>3, <1>5, <1>6, <1>7 DEF Inv

(* What is taken is what was asked last.                                     *)
LEMMA TakeRequestInv == ASSUME Inv, TakeRequest PROVE Inv'
<1>1. /\ worker \in Views /\ taken = NoRequest /\ pending[worker] # NoRequest
      /\ taken' = pending[worker] /\ pending' = [pending EXCEPT ![worker] = NoRequest]
      /\ taken' = asked[worker]
  BY DEF Inv, TypeOK, TakeRequest, AtLoopTop, Numbered
<1>2. NoRequest \in Stored
  BY DEF NoRequest, Stored
<1>3. TypeOK'
  BY <1>1, <1>2 DEF Inv, TypeOK, TakeRequest
<1>4. RequestHasWorker' /\ OneWorkerEach'
  BY <1>1 DEF Inv, TypeOK, RequestHasWorker, OneWorkerEach, HasWorker, TakeRequest
<1>5. Numbered'
  BY <1>1, ResizeAssumption DEF Inv, TypeOK, Numbered, TakeRequest
<1>6. TakenIsOlder'
  <2>1. taken'.call <= asked[worker].call
    BY <1>1 DEF Inv, TypeOK, Stored
  <2> QED
    BY <1>1, <2>1 DEF Inv, TypeOK, TakenIsOlder, TakeRequest
<1>7. SettledReflect'
  BY <1>1 DEF Inv, TypeOK, SettledReflect, Settled, Reflected, TakeRequest
<1> QED
  BY <1>3, <1>4, <1>5, <1>6, <1>7 DEF Inv

(* A worker that stops leaves nothing stored behind.                         *)
LEMMA StopWorkerInv == ASSUME Inv, StopWorker PROVE Inv'
<1>1. /\ worker \in Views /\ taken = NoRequest /\ pending[worker] = NoRequest
      /\ scheduled' = scheduled \ {worker} /\ worker' = NoView
  BY DEF Inv, TypeOK, StopWorker, MayStop, AtLoopTop
<1>2. TypeOK'
  BY <1>1 DEF Inv, TypeOK, StopWorker
<1>3. RequestHasWorker'
  BY <1>1, ResizeAssumption
     DEF Inv, TypeOK, RequestHasWorker, OneWorkerEach, HasWorker, StopWorker
<1>4. OneWorkerEach'
  BY <1>1, ResizeAssumption DEF Inv, TypeOK, OneWorkerEach, StopWorker
<1>5. Numbered' /\ TakenIsOlder' /\ SettledReflect'
  BY <1>1 DEF Inv, Numbered, TakenIsOlder, SettledReflect, Settled, Reflected, StopWorker
<1> QED
  BY <1>2, <1>3, <1>4, <1>5 DEF Inv

(* An application leaves the window with what was taken, which is what was   *)
(* asked last unless something newer is stored.                              *)
LEMMA ApplyRequestInv == ASSUME Inv, ApplyRequest PROVE Inv'
<1>1. worker \in Views /\ taken \in Stored /\ taken # NoRequest /\ taken' = NoRequest
  BY DEF Inv, TypeOK, ApplyRequest
<1>2. /\ NoRequest \in Stored
      /\ taken.width \in Nat /\ taken.x \in Int /\ taken.placed \in BOOLEAN
  BY <1>1 DEF NoRequest, Stored
<1>3. \A v \in Views : /\ geometry[v] \in Boxes /\ configured[v] \in Boxes
                       /\ geometry[v].x \in Int /\ configured[v].x \in Int
  BY DEF Inv, TypeOK, Boxes
<1>4. Cache(geometry[worker], taken) \in Boxes /\ SentTo(worker, taken) \in Boxes
  <2>1. [geometry[worker] EXCEPT !.width = taken.width] \in Boxes
    BY <1>1, <1>2, <1>3 DEF Boxes
  <2>2. [x |-> taken.x, width |-> taken.width] \in Boxes
    BY <1>2 DEF Boxes
  <2>3. [x |-> configured[worker].x, width |-> taken.width] \in Boxes
    BY <1>1, <1>2, <1>3 DEF Boxes
  <2> QED
    BY <1>1, <1>3, <2>1, <2>2, <2>3 DEF Cache, SentTo
<1>5. TypeOK'
  <2>1. geometry' \in [Views -> Boxes] /\ configured' \in [Views -> Boxes]
    BY <1>4 DEF Inv, TypeOK, ApplyRequest
  <2> QED
    BY <1>1, <1>2, <2>1 DEF Inv, TypeOK, ApplyRequest
<1>6. RequestHasWorker' /\ OneWorkerEach'
  BY DEF Inv, RequestHasWorker, OneWorkerEach, HasWorker, ApplyRequest
<1>7. Numbered' /\ TakenIsOlder'
  BY <1>1 DEF Inv, Numbered, TakenIsOlder, ApplyRequest
<1>8. SettledReflect'
  <2> SUFFICES ASSUME NEW v \in Views, Settled(v)', toplevels'[v] = "live", asked'[v] # NoRequest
               PROVE  Reflected(v, asked[v])'
    BY DEF SettledReflect
  <2>1. CASE v = worker
    <3>1. taken = asked[v] /\ asked' = asked
      BY <1>1, <2>1 DEF Inv, TakenIsOlder, Settled, ApplyRequest
    <3>2. /\ geometry'[v] = Cache(geometry[v], taken)
          /\ configured'[v] = SentTo(v, taken)
      BY <1>1, <2>1 DEF Inv, TypeOK, ApplyRequest
    <3>3. /\ configured'[v].width = taken.width
          /\ taken.placed /\ v \in Xwayland => configured'[v].x = taken.x
      BY <3>2 DEF SentTo
    <3>4. taken.placed /\ taken.width > 0
            => geometry'[v] = [x |-> taken.x, width |-> taken.width]
      BY <1>2, <3>2 DEF Cache
    <3>5. geometry'[v] # NoBox /\ taken.width > 0 => geometry'[v].width = taken.width
      <4>1. [geometry[v] EXCEPT !.width = taken.width].width = taken.width
        BY <1>3 DEF Boxes
      <4> QED
        BY <1>2, <3>2, <4>1 DEF Cache
    <3> QED
      BY <3>1, <3>3, <3>4, <3>5 DEF Reflected
  <2>2. CASE v # worker
    <3>1. geometry'[v] = geometry[v] /\ configured'[v] = configured[v] /\ asked' = asked
      BY <2>2 DEF Inv, TypeOK, ApplyRequest
    <3>2. Reflected(v, asked[v])
      BY <2>2 DEF Inv, SettledReflect, Settled, ApplyRequest
    <3> QED
      BY <3>1, <3>2 DEF Reflected
  <2> QED
    BY <2>1, <2>2
<1> QED
  BY <1>5, <1>6, <1>7, <1>8 DEF Inv

(* A window that goes is no longer promised anything.                        *)
LEMMA WindowsInv ==
  ASSUME Inv, NEW v \in Views, DestroyToplevel(v) \/ DestroySurface(v)
  PROVE  Inv'
<1>1. NoBox \in Boxes
  BY DEF NoBox, Boxes
<1>2. TypeOK'
  BY <1>1 DEF Inv, TypeOK, DestroyToplevel, DestroySurface
<1>3. RequestHasWorker' /\ OneWorkerEach' /\ Numbered' /\ TakenIsOlder'
  BY DEF Inv, RequestHasWorker, OneWorkerEach, HasWorker, Numbered, TakenIsOlder,
         DestroyToplevel, DestroySurface
<1>4. SettledReflect'
  <2> SUFFICES ASSUME NEW w \in Views, Settled(w)', toplevels'[w] = "live", asked'[w] # NoRequest
               PROVE  Reflected(w, asked[w])'
    BY DEF SettledReflect
  <2>1. w # v /\ toplevels[w] = "live"
    BY DEF Inv, TypeOK, DestroyToplevel, DestroySurface
  <2>2. Reflected(w, asked[w])
    BY <2>1 DEF Inv, SettledReflect, Settled, DestroyToplevel, DestroySurface
  <2> QED
    BY <2>1, <2>2 DEF Inv, TypeOK, Reflected, DestroyToplevel, DestroySurface
<1> QED
  BY <1>2, <1>3, <1>4 DEF Inv

LEMMA NextInv == ASSUME Inv, [Next]_vars PROVE Inv'
<1>1. CASE UNCHANGED vars
  BY <1>1 DEF vars, Inv, TypeOK, RequestHasWorker, OneWorkerEach, HasWorker, Numbered,
              TakenIsOlder, SettledReflect, Settled, Reflected
<1>2. CASE Platform
  BY <1>2, ResizeWindowInv, EnqueueWorkerInv DEF Platform
<1>3. CASE Work
  BY <1>3, StartWorkerInv, TakeRequestInv, StopWorkerInv, ApplyRequestInv DEF Work
<1>4. CASE Windows
  BY <1>4, WindowsInv DEF Windows
<1> QED
  BY <1>1, <1>2, <1>3, <1>4 DEF Next

THEOREM InvHolds == Spec => []Inv
  BY InitInv, NextInv, PTL DEF Spec

(* Every variable keeps its type, for any windows and number of calls.       *)
THEOREM WorkersTyped == Spec => []TypeOK
<1>1. Inv => TypeOK
  BY DEF Inv
<1> QED
  BY <1>1, InvHolds, PTL

(* A stored request always has a worker on its way (resize_window).          *)
THEOREM NothingStranded == Spec => []RequestHasWorker
<1>1. Inv => RequestHasWorker
  BY DEF Inv
<1> QED
  BY <1>1, InvHolds, PTL

(* No window has two workers at once (g_resize_window_worker_scheduled).     *)
THEOREM NeverTwoWorkers == Spec => []OneWorkerEach
<1>1. Inv => OneWorkerEach
  BY DEF Inv
<1> QED
  BY <1>1, InvHolds, PTL

(* Once its worker has stopped a window has what was asked for last.         *)
THEOREM TheLastRequestWins == Spec => []LastRequestWins
<1>1. Inv => LastRequestWins
  <2> SUFFICES ASSUME Inv, NEW v \in Views \ scheduled,
                      toplevels[v] = "live", asked[v] # NoRequest
               PROVE  Reflected(v, asked[v])
    BY DEF LastRequestWins
  <2>1. pending[v] = NoRequest /\ worker # v
    BY DEF Inv, RequestHasWorker, HasWorker
  <2> QED
    BY <2>1 DEF Inv, SettledReflect, Settled
<1> QED
  BY <1>1, InvHolds, PTL
=============================================================================
