--------------------------- MODULE ShutdownProofs ---------------------------
(* For any number of chains, texture frames, events and calls: the platform   *)
(* thread's queue is closed once, behind its last task; every chain and every *)
(* texture frame is freed once, after its last use and before the renderer    *)
(* goes; and Dart's calls are done before what they touch is torn down.       *)
EXTENDS Shutdown, SequenceTheorems, FiniteSetTheorems, TLAPS

PlatformTask == [kind : {"start", "event", "stop"}, of : {None}]
PlatformQueue == [tasks : Seq(PlatformTask), readable : BOOLEAN, closed : BOOLEAN]

NoStop(tasks) == \A i \in 1..Len(tasks) : tasks[i] # Task("stop", None)
OnlyLastStops(tasks) ==
  /\ tasks # <<>> /\ tasks[Len(tasks)] = Task("stop", None)
  /\ \A i \in 1..(Len(tasks) - 1) : tasks[i] # Task("stop", None)

Gone == thread \in {"leaving", "stopped", "ended"}

PlatformTyped ==
  /\ platform \in PlatformQueue /\ platformBatch \in Seq(PlatformTask)
  /\ thread \in {"none", "running", "leaving", "stopped", "ended"}

(* Until the engine is told to stop the queue is open.                        *)
OpenUntilStopped ==
  /\ stage = "starting" => thread = "none"
  /\ stage \in {"starting", "running"} => ~ platform.closed
  /\ stage = "running" => thread # "none"
  /\ ~ platform.closed => /\ ~ stopped /\ ~ Gone
                          /\ NoStop(platform.tasks) /\ NoStop(platformBatch)

(* Then there is one final task, at the end of what was accepted.             *)
StopIsLast ==
  /\ platform.closed /\ ~ Gone =>
       \/ OnlyLastStops(platform.tasks) /\ NoStop(platformBatch)
       \/ platform.tasks = <<>> /\ OnlyLastStops(platformBatch)
  /\ stopped /\ ~ Gone => IsNext(platformBatch, "stop")
  /\ Gone => stopped /\ platform.tasks = <<>> /\ platformBatch = <<>>

Inv == PlatformTyped /\ OpenUntilStopped /\ StopIsLast

platformVars == <<stage, platform, platformBatch, thread, stopped>>

LEMMA InitInv == Init => Inv
<1> SUFFICES ASSUME Init PROVE Inv
  OBVIOUS
<1> USE DEF Init, NewQueue, None
<1>1. PlatformTyped
  BY DEF PlatformTyped, PlatformQueue
<1>2. OpenUntilStopped /\ StopIsLast
  BY DEF OpenUntilStopped, StopIsLast, Gone, NoStop
<1> QED
  BY <1>1, <1>2 DEF Inv

(* A task behind the others.                                                  *)
LEMMA AppendTask ==
  ASSUME NEW tasks \in Seq(PlatformTask), NEW t \in PlatformTask
  PROVE  /\ Append(tasks, t) \in Seq(PlatformTask)
         /\ t # Task("stop", None) /\ NoStop(tasks) => NoStop(Append(tasks, t))
         /\ t = Task("stop", None) /\ NoStop(tasks) => OnlyLastStops(Append(tasks, t))
<1>1. /\ Append(tasks, t) \in Seq(PlatformTask) /\ Append(tasks, t) # <<>>
      /\ Len(Append(tasks, t)) = Len(tasks) + 1 /\ Len(tasks) \in Nat
      /\ Append(tasks, t)[Len(tasks) + 1] = t
      /\ \A i \in 1..Len(tasks) : Append(tasks, t)[i] = tasks[i]
  OBVIOUS
<1> QED
  BY <1>1 DEF NoStop, OnlyLastStops

(* The rest of a batch.                                                       *)
LEMMA TailOfBatch ==
  ASSUME NEW batch \in Seq(PlatformTask), batch # <<>>
  PROVE  /\ Tail(batch) \in Seq(PlatformTask) /\ Head(batch) \in PlatformTask
         /\ NoStop(batch) => NoStop(Tail(batch)) /\ Head(batch) # Task("stop", None)
         /\ OnlyLastStops(batch) /\ Head(batch) # Task("stop", None) => OnlyLastStops(Tail(batch))
         /\ OnlyLastStops(batch) /\ Head(batch) = Task("stop", None) =>
              Tail(batch) = <<>> /\ batch = <<Task("stop", None)>>
<1>1. /\ Tail(batch) \in Seq(PlatformTask) /\ Head(batch) \in PlatformTask
      /\ Len(batch) \in Nat \ {0} /\ Len(Tail(batch)) = Len(batch) - 1 /\ Head(batch) = batch[1]
      /\ \A i \in 1..(Len(batch) - 1) : Tail(batch)[i] = batch[i + 1]
  OBVIOUS
<1>2. ASSUME Len(batch) = 1 PROVE Tail(batch) = <<>> /\ batch = <<batch[1]>>
  <2>0. Tail(batch) # <<>> => Len(Tail(batch)) \in Nat \ {0}
    BY <1>1, EmptySeq
  <2>1. Tail(batch) = <<>>
    <3>1. Len(Tail(batch)) = 0
      BY <1>1, <1>2
    <3> QED
      BY <2>0, <3>1
  <2>2. <<batch[1]>> \in Seq(PlatformTask) /\ Len(<<batch[1]>>) = 1 /\ <<batch[1]>>[1] = batch[1]
    BY <1>1
  <2>3. batch = <<batch[1]>>
    BY <1>2, <2>2, SeqEqual
  <2> QED
    BY <2>1, <2>3
<1>3. Len(batch) # 1 => Tail(batch) # <<>>
  BY <1>1, EmptySeq
<1>4. NoStop(batch) => NoStop(Tail(batch)) /\ Head(batch) # Task("stop", None)
  BY <1>1 DEF NoStop
<1>5. ASSUME OnlyLastStops(batch), Head(batch) = Task("stop", None)
      PROVE  Len(batch) = 1
  BY <1>1, <1>5 DEF OnlyLastStops
<1>6. ASSUME OnlyLastStops(batch), Head(batch) # Task("stop", None)
      PROVE  OnlyLastStops(Tail(batch))
  <2>1. Len(batch) # 1
    BY <1>1, <1>6 DEF OnlyLastStops
  <2>2. Tail(batch)[Len(Tail(batch))] = batch[Len(batch)]
    BY <1>1, <2>1
  <2> QED
    BY <1>1, <1>3, <1>6, <2>1, <2>2 DEF OnlyLastStops
<1> QED
  BY <1>1, <1>2, <1>4, <1>5, <1>6

-----------------------------------------------------------------------------
(* Steps that leave the platform thread's queue and its state alone.          *)
LEMMA Elsewhere ==
  ASSUME Inv, UNCHANGED <<platform, platformBatch, thread, stopped>>,
         \/ UNCHANGED stage
         \/ stage # "stopping" /\ stage' \notin {"starting", "running", "stopping"}
         \/ stage = "stopping" /\ stage' \notin {"starting", "running"}
  PROVE  Inv'
  BY DEF Inv, PlatformTyped, OpenUntilStopped, StopIsLast, Gone, IsNext

(* An event, from the Wayland thread.                                         *)
LEMMA EnqueueInv ==
  ASSUME Inv, NEW t \in PlatformTask, t # Task("stop", None),
         platform' = Enqueue(platform, t),
         UNCHANGED <<stage, platformBatch, thread, stopped>>
  PROVE  Inv'
<1>1. CASE platform.closed
  <2>1. platform' = platform
    BY <1>1 DEF Enqueue
  <2> QED
    BY <2>1, Elsewhere
<1>2. CASE ~ platform.closed
  <2>1. /\ platform' = [platform EXCEPT !.tasks = Append(@, t), !.readable = TRUE]
        /\ platform.tasks \in Seq(PlatformTask)
    BY <1>2 DEF Enqueue, Inv, PlatformTyped, PlatformQueue
  <2>2. platform'.tasks = Append(platform.tasks, t) /\ platform'.closed = platform.closed
        /\ platform'.readable = TRUE /\ platform' \in [tasks : {Append(platform.tasks, t)},
                                     readable : {TRUE}, closed : BOOLEAN]
    BY <2>1 DEF Inv, PlatformTyped, PlatformQueue
  <2>3. Append(platform.tasks, t) \in Seq(PlatformTask) /\ NoStop(platform'.tasks)
    BY <1>2, <2>1, <2>2, AppendTask DEF Inv, OpenUntilStopped
  <2>4. PlatformTyped'
    BY <2>2, <2>3 DEF Inv, PlatformTyped, PlatformQueue
  <2>5. OpenUntilStopped' /\ StopIsLast'
    BY <1>2, <2>2, <2>3 DEF Inv, OpenUntilStopped, StopIsLast, Gone, NoStop
  <2> QED
    BY <2>4, <2>5 DEF Inv
<1> QED
  BY <1>1, <1>2

LEMMA RunEngineInv == ASSUME Inv, RunEngine PROVE Inv'
<1> DEFINE t == Task("start", None)
<1>1. t \in PlatformTask /\ t # Task("stop", None)
  BY DEF Task, PlatformTask, None
<1>2. /\ ~ platform.closed /\ ~ stopped
      /\ thread' = "running" /\ stage' = "running" /\ UNCHANGED <<platformBatch, stopped>>
  BY DEF RunEngine, Inv, OpenUntilStopped
<1>3. platform' = [platform EXCEPT !.tasks = Append(@, t), !.readable = TRUE]
  BY <1>2 DEF RunEngine, Enqueue
<1>4. platform.tasks \in Seq(PlatformTask)
  BY DEF Inv, PlatformTyped, PlatformQueue
<1>5. NoStop(platform.tasks) /\ NoStop(platformBatch)
  BY <1>2 DEF Inv, OpenUntilStopped
<1>6. Append(platform.tasks, t) \in Seq(PlatformTask) /\ NoStop(Append(platform.tasks, t))
  BY <1>1, <1>4, <1>5, AppendTask
<1> HIDE DEF t
<1>7. platform'.tasks = Append(platform.tasks, t) /\ ~ platform'.closed /\ platform'.readable = TRUE
      /\ platform' \in [tasks : {Append(platform.tasks, t)}, readable : {TRUE}, closed : BOOLEAN]
  BY <1>2, <1>3 DEF Inv, PlatformTyped, PlatformQueue
<1>8. PlatformTyped'
  BY <1>2, <1>6, <1>7 DEF Inv, PlatformTyped, PlatformQueue
<1>9. OpenUntilStopped' /\ StopIsLast'
  BY <1>2, <1>5, <1>6, <1>7 DEF Inv, OpenUntilStopped, StopIsLast, Gone
<1> QED
  BY <1>8, <1>9 DEF Inv

LEMMA StopEngineInv == ASSUME Inv, StopEngine PROVE Inv'
<1> DEFINE t == Task("stop", None)
<1>1. t \in PlatformTask
  BY DEF Task, PlatformTask, None
<1>2. ~ platform.closed /\ stage' = "stopping" /\ UNCHANGED <<platformBatch, thread, stopped>>
  BY DEF StopEngine, Inv, OpenUntilStopped
<1>3. platform' = [tasks |-> platform.tasks \o <<t>>, readable |-> TRUE, closed |-> TRUE]
  BY <1>2 DEF StopEngine, Close
<1>4. platform.tasks \in Seq(PlatformTask) /\ NoStop(platform.tasks) /\ NoStop(platformBatch)
      /\ ~ stopped /\ ~ Gone
  BY <1>2 DEF Inv, PlatformTyped, PlatformQueue, OpenUntilStopped
<1> HIDE DEF t
<1>5. platform.tasks \o <<t>> = Append(platform.tasks, t)
  BY <1>1, <1>4
<1>6. platform.tasks \o <<t>> \in Seq(PlatformTask) /\ OnlyLastStops(platform.tasks \o <<t>>)
  BY <1>1, <1>4, <1>5, AppendTask DEF t
<1>7. PlatformTyped'
  BY <1>2, <1>3, <1>6 DEF Inv, PlatformTyped, PlatformQueue
<1>8. thread # "none" /\ ~ Gone'
  BY <1>2, <1>4 DEF StopEngine, Inv, OpenUntilStopped, Gone
<1>9. OpenUntilStopped' /\ StopIsLast'
  BY <1>2, <1>3, <1>4, <1>6, <1>8 DEF OpenUntilStopped, StopIsLast
<1> QED
  BY <1>7, <1>9 DEF Inv

LEMMA TakePlatformInv == ASSUME Inv, TakePlatform PROVE Inv'
<1>1. /\ thread = "running" /\ platformBatch = <<>> /\ platformBatch' = platform.tasks
      /\ platform' = [platform EXCEPT !.tasks = <<>>, !.readable = FALSE]
      /\ UNCHANGED <<stage, thread, stopped>>
  BY DEF TakePlatform, AtLoop, Taken, server, flutter
<1>2. /\ platform'.tasks = <<>> /\ platform'.closed = platform.closed
      /\ platform' \in [tasks : {<<>>}, readable : BOOLEAN, closed : BOOLEAN]
      /\ platform.tasks \in Seq(PlatformTask)
  BY <1>1 DEF Inv, PlatformTyped, PlatformQueue
<1>3. PlatformTyped'
  BY <1>1, <1>2 DEF Inv, PlatformTyped, PlatformQueue
<1>4. ~ stopped
  BY <1>1 DEF Inv, StopIsLast, Gone, IsNext
<1>5. ~ OnlyLastStops(platformBatch)
  BY <1>1 DEF OnlyLastStops
<1>6. NoStop(platform'.tasks)
  BY <1>2 DEF NoStop
<1>7. OpenUntilStopped'
  BY <1>1, <1>2, <1>6 DEF Inv, OpenUntilStopped, Gone
<1>8. StopIsLast'
  BY <1>1, <1>2, <1>4, <1>5 DEF Inv, StopIsLast, Gone
<1> QED
  BY <1>3, <1>7, <1>8 DEF Inv

(* A task that is not the final one has been run.                            *)
LEMMA RunInv ==
  ASSUME Inv, platformBatch # <<>>, Head(platformBatch).kind # "stop",
         platformBatch' = Tail(platformBatch),
         UNCHANGED <<stage, platform, thread, stopped>>
  PROVE  Inv'
<1>1. Head(platformBatch) # Task("stop", None) /\ platformBatch \in Seq(PlatformTask)
  BY DEF Task, Inv, PlatformTyped
<1>2. /\ Tail(platformBatch) \in Seq(PlatformTask)
      /\ NoStop(platformBatch) => NoStop(Tail(platformBatch))
      /\ OnlyLastStops(platformBatch) => OnlyLastStops(Tail(platformBatch))
  BY <1>1, TailOfBatch
<1>3. ~ Gone /\ ~ stopped
  BY DEF Inv, StopIsLast, IsNext
<1>4. PlatformTyped'
  BY <1>2 DEF Inv, PlatformTyped
<1>5. OpenUntilStopped' /\ StopIsLast'
  BY <1>2, <1>3 DEF Inv, OpenUntilStopped, StopIsLast, Gone
<1> QED
  BY <1>4, <1>5 DEF Inv

(* When the final task is next nothing else is left.                          *)
LEMMA NextIsFinal ==
  ASSUME Inv, IsNext(platformBatch, "stop")
  PROVE  /\ platform.closed /\ ~ Gone
         /\ platform.tasks = <<>> /\ OnlyLastStops(platformBatch)
         /\ platformBatch = <<Task("stop", None)>> /\ Tail(platformBatch) = <<>>
<1>1. platformBatch # <<>> /\ Head(platformBatch).kind = "stop" /\ platformBatch \in Seq(PlatformTask)
  BY DEF IsNext, Inv, PlatformTyped
<1>2. Head(platformBatch) \in PlatformTask
  BY <1>1, TailOfBatch
<1>3. Head(platformBatch) = Task("stop", None)
  BY <1>1, <1>2 DEF PlatformTask, Task, None
<1>4. ~ NoStop(platformBatch)
  BY <1>1, <1>3, TailOfBatch
<1>5. platform.closed /\ ~ Gone
  BY <1>1, <1>4 DEF Inv, OpenUntilStopped, StopIsLast
<1>6. platform.tasks = <<>> /\ OnlyLastStops(platformBatch)
  BY <1>4, <1>5 DEF Inv, StopIsLast
<1> QED
  BY <1>1, <1>3, <1>5, <1>6, TailOfBatch

LEMMA BeginStopInv == ASSUME Inv, BeginStop PROVE Inv'
<1>1. /\ IsNext(platformBatch, "stop") /\ stopped' = TRUE
      /\ UNCHANGED <<stage, platform, platformBatch, thread>>
  BY DEF BeginStop, server, queues
<1>2. platform.closed /\ ~ Gone
  BY <1>1, NextIsFinal
<1>3. PlatformTyped'
  BY <1>1 DEF Inv, PlatformTyped
<1>4. OpenUntilStopped' /\ StopIsLast'
  BY <1>1, <1>2 DEF Inv, OpenUntilStopped, StopIsLast, Gone, IsNext
<1> QED
  BY <1>3, <1>4 DEF Inv

LEMMA EndStopInv == ASSUME Inv, EndStop PROVE Inv'
<1>1. /\ IsNext(platformBatch, "stop") /\ stopped /\ platformBatch' = Tail(platformBatch)
      /\ thread' = "leaving" /\ UNCHANGED <<stage, platform, stopped>>
  BY DEF EndStop, server
<1>2. platform.closed /\ ~ Gone /\ platform.tasks = <<>> /\ platformBatch' = <<>>
  BY <1>1, NextIsFinal
<1>3. PlatformTyped'
  <2>1. platformBatch' \in Seq(PlatformTask)
    BY <1>2, EmptySeq
  <2> QED
    BY <1>1, <2>1 DEF Inv, PlatformTyped
<1>4. OpenUntilStopped' /\ StopIsLast'
  BY <1>1, <1>2 DEF Inv, OpenUntilStopped, StopIsLast, Gone
<1> QED
  BY <1>3, <1>4 DEF Inv

LEMMA LeaveInv == ASSUME Inv, LeaveLoop \/ EndThread PROVE Inv'
<1>1. /\ Gone /\ Gone' /\ thread' \in {"stopped", "ended"}
      /\ UNCHANGED <<stage, platform, platformBatch, stopped>>
  BY DEF LeaveLoop, EndThread, Gone, server, queues
<1>2. PlatformTyped'
  BY <1>1 DEF Inv, PlatformTyped
<1>3. OpenUntilStopped' /\ StopIsLast'
  BY <1>1 DEF Inv, OpenUntilStopped, StopIsLast
<1> QED
  BY <1>2, <1>3 DEF Inv

-----------------------------------------------------------------------------
LEMMA NextInv == ASSUME Inv, [Next]_vars PROVE Inv'
<1> DEFINE event == Task("event", None)
<1>0. event \in PlatformTask /\ event # Task("stop", None)
  BY DEF Task, PlatformTask, None
<1> HIDE DEF event
<1>1. CASE StartupFails
  BY <1>1, Elsewhere DEF StartupFails, queues, flutter
<1>2. CASE RunEngine
  BY <1>2, RunEngineInv
<1>3. CASE ReplaceTarget \/ PublishImage \/ RequestShutdown
  BY <1>3, Elsewhere DEF ReplaceTarget, PublishImage, RequestShutdown, server, queues, flutter
<1>4. CASE SendEvent
  BY <1>0, <1>4, EnqueueInv DEF SendEvent, server, flutter, event
<1>5. CASE TakeNative
  BY <1>5, Elsewhere DEF TakeNative, server, flutter
<1>6. CASE AnnounceFrame \/ DeleteChain \/ DeleteImage \/ EraseTexture \/ ReportFailure \/ WakeUp
  BY <1>6, Elsewhere DEF AnnounceFrame, DeleteChain, DeleteImage, EraseTexture, ReportFailure,
                         WakeUp, server, flutter
<1>7. CASE AnswerCall
  BY <1>0, <1>7, EnqueueInv DEF AnswerCall, server, flutter, event
<1>8. CASE StopEngine
  BY <1>8, StopEngineInv
<1>9. CASE ContinueShutdown
  BY <1>9, Elsewhere DEF ContinueShutdown, JoinEngine, DestroyClients, DestroyOutputs,
       DestroyEmbedder, CloseNativeQueue, DestroyRenderer, queues, flutter
<1>10. CASE RunPlatform
  <2>1. CASE TakePlatform
    BY <2>1, TakePlatformInv
  <2>2. CASE StartEngine \/ HandleEvent
    BY <2>2, RunInv DEF StartEngine, HandleEvent, IsNext, server, flutter
  <2>3. CASE BeginStop
    BY <2>3, BeginStopInv
  <2>4. CASE EndStop
    BY <2>4, EndStopInv
  <2>5. CASE LeaveLoop \/ EndThread
    BY <2>5, LeaveInv
  <2> QED
    BY <1>10, <2>1, <2>2, <2>3, <2>4, <2>5 DEF RunPlatform
<1>11. CASE PostFlutterTask \/ RunFlutterTask
  BY <1>11, Elsewhere DEF PostFlutterTask, RunFlutterTask, server, queues
<1>12. CASE AttachFramebuffer \/ WriteStarts \/ WriteRefused \/ Present \/ SampleTexture \/ ReleaseTexture
  BY <1>12, Elsewhere DEF AttachFramebuffer, WriteStarts, WriteRefused, Present, SampleTexture,
       ReleaseTexture, server, queues, flutter
<1>13. CASE UNCHANGED vars
  BY <1>13, Elsewhere DEF vars, server, queues, flutter
<1> QED
  BY <1>1, <1>2, <1>3, <1>4, <1>5, <1>6, <1>7, <1>8, <1>9, <1>10, <1>11, <1>12, <1>13
     DEF Next, RunNativeTask

(* Once the task runner has been stopped, only the final task is left, or     *)
(* nothing (stop_engine, CallableQueue::close).                              *)
THEOREM TheFinalTaskIsLast == Spec => []FinalTaskIsLast
<1>1. Inv => FinalTaskIsLast
  <2>1. ASSUME Inv, stopped, ~ Gone
        PROVE  platform.tasks = <<>> /\ platformBatch = <<Task("stop", None)>>
    BY <2>1, NextIsFinal DEF Inv, StopIsLast
  <2>2. ASSUME Inv, Gone
        PROVE  platform.tasks = <<>> /\ platformBatch = <<>>
    BY <2>2 DEF Inv, StopIsLast
  <2> QED
    BY <2>1, <2>2 DEF FinalTaskIsLast
<1> QED
  BY <1>1, InitInv, NextInv, PTL DEF Spec

-----------------------------------------------------------------------------
(* Counting the tasks of a queue.                                             *)

Places(tasks, t) == {i \in 1..Len(tasks) : tasks[i] = t}
Count(tasks, t) == Cardinality(Places(tasks, t))

LEMMA PlacesFinite ==
  ASSUME NEW S, NEW tasks \in Seq(S), NEW t
  PROVE  IsFiniteSet(Places(tasks, t)) /\ Count(tasks, t) \in Nat
<1>1. Places(tasks, t) \in SUBSET (1..Len(tasks)) /\ IsFiniteSet(1..Len(tasks))
  BY FS_Interval DEF Places
<1> QED
  BY <1>1, FS_Subset, FS_CardinalityType DEF Count

LEMMA CountNone == \A t : Count(<<>>, t) = 0
<1>1. \A t : Places(<<>>, t) = {}
  BY DEF Places
<1> QED
  BY <1>1, FS_EmptySet DEF Count

LEMMA CountIn ==
  ASSUME NEW S, NEW tasks \in Seq(S), NEW t
  PROVE  t \in Range(tasks) <=> Count(tasks, t) # 0
<1>1. t \in Range(tasks) <=> Places(tasks, t) # {}
  BY DEF Range, Places
<1> QED
  BY <1>1, PlacesFinite, FS_EmptySet DEF Count

LEMMA CountAppend ==
  ASSUME NEW S, NEW tasks \in Seq(S), NEW x \in S, NEW t
  PROVE  Count(Append(tasks, x), t) = Count(tasks, t) + (IF x = t THEN 1 ELSE 0)
<1>1. /\ Len(Append(tasks, x)) = Len(tasks) + 1 /\ Len(tasks) \in Nat
      /\ Append(tasks, x)[Len(tasks) + 1] = x
      /\ \A i \in 1..Len(tasks) : Append(tasks, x)[i] = tasks[i]
  OBVIOUS
<1>2. CASE x = t
  <2>1. Places(Append(tasks, x), t) = Places(tasks, t) \cup {Len(tasks) + 1}
    BY <1>1, <1>2 DEF Places
  <2>2. Len(tasks) + 1 \notin Places(tasks, t)
    BY <1>1 DEF Places
  <2> QED
    BY <1>2, <2>1, <2>2, PlacesFinite, FS_AddElement DEF Count
<1>3. CASE x # t
  <2>1. Places(Append(tasks, x), t) = Places(tasks, t)
    BY <1>1, <1>3 DEF Places
  <2> QED
    BY <1>3, <2>1, PlacesFinite DEF Count
<1> QED
  BY <1>2, <1>3

\* The places of the tail are those of the batch, one further on, without the first.
LEMMA CountTail ==
  ASSUME NEW S, NEW tasks \in Seq(S), tasks # <<>>, NEW t
  PROVE  Count(Tail(tasks), t) = Count(tasks, t) - (IF Head(tasks) = t THEN 1 ELSE 0)
<1> DEFINE later == Places(tasks, t) \ {1}
           f == [i \in Places(Tail(tasks), t) |-> i + 1]
<1>1. /\ Len(tasks) \in Nat \ {0} /\ Len(Tail(tasks)) = Len(tasks) - 1 /\ Head(tasks) = tasks[1]
      /\ \A i \in 1..(Len(tasks) - 1) : Tail(tasks)[i] = tasks[i + 1]
      /\ Tail(tasks) \in Seq(S)
  OBVIOUS
<1>2. \A i : i \in Places(Tail(tasks), t) <=>
               i \in 1..(Len(tasks) - 1) /\ tasks[i + 1] = t
  BY <1>1 DEF Places
<1>3. \A j : j \in later <=> j \in 2..Len(tasks) /\ tasks[j] = t
  BY <1>1 DEF Places
<1>4. f \in [Places(Tail(tasks), t) -> later]
  BY <1>1, <1>2, <1>3
<1>5. \A i, j \in Places(Tail(tasks), t) : f[i] = f[j] => i = j
  BY <1>2
<1>6. \A j \in later : \E i \in Places(Tail(tasks), t) : f[i] = j
  <2> SUFFICES ASSUME NEW j \in later PROVE \E i \in Places(Tail(tasks), t) : f[i] = j
    OBVIOUS
  <2>1. j \in 2..Len(tasks) /\ tasks[j] = t
    BY <1>3
  <2>2. j - 1 \in Places(Tail(tasks), t)
    BY <1>1, <1>2, <2>1
  <2> QED
    BY <2>1, <2>2
<1> HIDE DEF f, later
<1>7. f \in Bijection(Places(Tail(tasks), t), later)
  BY <1>4, <1>5, <1>6 DEF Bijection, Injection, Surjection, IsInjective
<1>8. Cardinality(later) = Count(Tail(tasks), t)
  BY <1>1, <1>7, PlacesFinite, FS_Bijection DEF ExistsBijection, Count
<1>9. /\ IsFiniteSet(Places(tasks, t)) /\ Cardinality(Places(tasks, t)) \in Nat
      /\ Cardinality(Places(tasks, t) \ {1}) =
           IF 1 \in Places(tasks, t) THEN Cardinality(Places(tasks, t)) - 1
                                     ELSE Cardinality(Places(tasks, t))
  BY PlacesFinite, FS_RemoveElement DEF Count
<1>10. 1 \in Places(tasks, t) <=> Head(tasks) = t
  BY <1>1 DEF Places
<1> QED
  BY <1>8, <1>9, <1>10 DEF Count, later

\* The elements of a finite set, each once.
LEMMA SetAsSequence ==
  ASSUME NEW T, IsFiniteSet(T)
  PROVE  /\ SetToSeq(T) \in Seq(T)
         /\ \A t : Count(SetToSeq(T), t) = IF t \in T THEN 1 ELSE 0
<1> DEFINE n == Cardinality(T)
           f == SetToSeq(T)
<1>1. n \in Nat /\ \E g : g \in Bijection(1..n, T)
  BY FS_CardinalityType DEF ExistsBijection
<1>2. \E g \in [1..n -> T] : IsInjective(g)
  BY <1>1 DEF Bijection, Injection
<1>3. f \in [1..n -> T] /\ IsInjective(f)
  BY <1>2 DEF SetToSeq
<1> HIDE DEF f
<1>4. f \in Injection(1..n, T) /\ IsFiniteSet(1..n) /\ Cardinality(1..n) = n
  BY <1>1, <1>3, FS_Interval DEF Injection
<1>5. f \in Surjection(1..n, T)
  BY <1>4, FS_Injection
<1>6. f \in Seq(T) /\ Len(f) = n
  BY <1>1, <1>3
<1>7. ASSUME NEW t \in T PROVE Count(f, t) = 1
  <2>1. PICK i \in 1..n : f[i] = t
    BY <1>5 DEF Surjection
  <2>2. \A j \in 1..n : f[j] = t => j = i
    BY <1>3, <2>1 DEF IsInjective
  <2>3. Places(f, t) = {i}
    BY <1>6, <2>1, <2>2 DEF Places
  <2> QED
    BY <2>3, FS_Singleton DEF Count
<1>8. ASSUME NEW t, t \notin T PROVE Count(f, t) = 0
  <2>1. Places(f, t) = {}
    BY <1>3, <1>6, <1>8 DEF Places
  <2> QED
    BY <2>1, FS_EmptySet DEF Count
<1> QED
  BY <1>6, <1>7, <1>8 DEF f

\* Putting those behind other tasks.
LEMMA CountBehind ==
  ASSUME NEW S, NEW tasks \in Seq(S), NEW more \in Seq(S), NEW t,
         Count(more, t) \in {0, 1}
  PROVE  Count(tasks \o more, t) = Count(tasks, t) + Count(more, t)
<1>1. /\ Len(tasks \o more) = Len(tasks) + Len(more) /\ Len(tasks) \in Nat /\ Len(more) \in Nat
      /\ \A i \in 1..Len(tasks) : (tasks \o more)[i] = tasks[i]
      /\ \A i \in 1..Len(more) : (tasks \o more)[Len(tasks) + i] = more[i]
  OBVIOUS
<1>2. \A i \in 1..Len(tasks \o more) :
        \/ i \in 1..Len(tasks)
        \/ (i - Len(tasks) \in 1..Len(more) /\ i = Len(tasks) + (i - Len(tasks)))
  BY <1>1
<1>3. CASE Count(more, t) = 0
  <2>1. Places(more, t) = {}
    BY <1>3, PlacesFinite, FS_EmptySet DEF Count
  <2>2. \A i \in 1..Len(more) : more[i] # t
    BY <2>1 DEF Places
  <2>3. Places(tasks \o more, t) = Places(tasks, t)
    <3>1. \A i : i \in Places(tasks \o more, t) => i \in Places(tasks, t)
      BY <1>1, <1>2, <2>2 DEF Places
    <3>2. \A i : i \in Places(tasks, t) => i \in Places(tasks \o more, t)
      BY <1>1 DEF Places
    <3> QED
      BY <3>1, <3>2
  <2> QED
    BY <1>3, <2>3, PlacesFinite DEF Count
<1>4. CASE Count(more, t) = 1
  <2>1. PICK k : Places(more, t) = {k}
    BY <1>4, PlacesFinite, FS_Singleton DEF Count
  <2>2. k \in 1..Len(more) /\ more[k] = t /\ \A i \in 1..Len(more) : more[i] = t => i = k
    BY <2>1 DEF Places
  <2>3. Places(tasks \o more, t) = Places(tasks, t) \cup {Len(tasks) + k}
    <3>1. \A i : i \in Places(tasks \o more, t) => i \in Places(tasks, t) \/ i = Len(tasks) + k
      <4> SUFFICES ASSUME NEW i \in Places(tasks \o more, t)
                   PROVE  i \in Places(tasks, t) \/ i = Len(tasks) + k
        OBVIOUS
      <4>1. i \in 1..Len(tasks \o more) /\ (tasks \o more)[i] = t
        BY DEF Places
      <4>2. CASE i \in 1..Len(tasks)
        BY <1>1, <4>1, <4>2 DEF Places
      <4>3. CASE i \notin 1..Len(tasks)
        <5>1. i - Len(tasks) \in 1..Len(more) /\ i = Len(tasks) + (i - Len(tasks))
          BY <1>2, <4>1, <4>3
        <5>2. more[i - Len(tasks)] = t
          BY <1>1, <4>1, <5>1
        <5> QED
          BY <2>2, <5>1, <5>2
      <4> QED
        BY <4>2, <4>3
    <3>2. \A i : i \in Places(tasks, t) => i \in Places(tasks \o more, t)
      BY <1>1 DEF Places
    <3>3. Len(tasks) + k \in Places(tasks \o more, t)
      BY <1>1, <2>2 DEF Places
    <3> QED
      BY <3>1, <3>2, <3>3
  <2>4. Len(tasks) + k \notin Places(tasks, t)
    BY <1>1, <2>2 DEF Places
  <2> QED
    BY <1>4, <2>3, <2>4, PlacesFinite, FS_AddElement DEF Count
<1> QED
  BY <1>3, <1>4

-----------------------------------------------------------------------------
(* The engine's end.  Once its thread has left its loop nothing of it runs,   *)
(* and the stages after it was joined find it that way.                       *)

Late == stage \in {"joined", "clients gone", "outputs gone", "embedder gone", "closed", "done"}

EngineInv ==
  /\ stage \in {"starting", "running", "stopping"} \/ Late
  /\ stage = "starting" => /\ thread = "none" /\ engine = "none"
                           /\ platformBatch = <<>> /\ raster_target = None
  /\ stopped => engine # "running"
  /\ Gone => ~ RasterRuns
  /\ acquiring # None \/ sampled # {} => RasterRuns
  /\ Late => /\ thread \in {"none", "ended"} /\ ~ RasterRuns
             /\ platformBatch = <<>> /\ raster_target = None

(* The engine is started once: nothing runs, or fails, twice.                 *)
Starts == Count(platform.tasks, Task("start", None)) + Count(platformBatch, Task("start", None))

StartedOnce ==
  /\ Starts \in {0, 1}
  /\ stage = "starting" => Starts = 0
  /\ Starts = 1 => engine = "none"

(* Steps that leave the engine as it is.                                      *)
LEMMA SameEngine ==
  ASSUME EngineInv, UNCHANGED <<thread, engine, stopped, platformBatch, acquiring,
                                raster_target, sampled>>,
         stage' = stage \/ (Late /\ Late')
  PROVE  EngineInv'
  BY DEF EngineInv, Late, Gone, RasterRuns

LEMMA StartsType ==
  ASSUME Inv
  PROVE  /\ platform.tasks \in Seq(PlatformTask) /\ platformBatch \in Seq(PlatformTask)
         /\ Count(platform.tasks, Task("start", None)) \in Nat
         /\ Count(platformBatch, Task("start", None)) \in Nat
  BY PlacesFinite DEF Inv, PlatformTyped, PlatformQueue

LEMMA NextStarts ==
  ASSUME Inv, StartedOnce, IsNext(platformBatch, "start")
  PROVE  /\ Starts = 1 /\ Count(platformBatch, Task("start", None)) = 1
         /\ Count(Tail(platformBatch), Task("start", None)) = 0
<1>1. platformBatch # <<>> /\ platformBatch \in Seq(PlatformTask)
      /\ Head(platformBatch) \in PlatformTask /\ Head(platformBatch).kind = "start"
  BY StartsType DEF IsNext
<1>2. Head(platformBatch) = Task("start", None)
  BY <1>1 DEF PlatformTask, Task
<1>3. Head(platformBatch) \in Range(platformBatch)
  BY <1>1 DEF Range
<1>4. Count(platformBatch, Task("start", None)) # 0
  BY <1>1, <1>2, <1>3, CountIn
<1>5. Count(Tail(platformBatch), Task("start", None))
        = Count(platformBatch, Task("start", None)) - 1
  BY <1>1, <1>2, CountTail
<1> QED
  BY <1>4, <1>5, StartsType DEF StartedOnce, Starts

(* A task in front of the queue, or behind it, that is not the start.         *)
LEMMA StartsAppend ==
  ASSUME Inv, NEW t \in PlatformTask, t # Task("start", None)
  PROVE  /\ Count(Append(platform.tasks, t), Task("start", None))
               = Count(platform.tasks, Task("start", None))
         /\ Count(Enqueue(platform, t).tasks, Task("start", None))
               = Count(platform.tasks, Task("start", None))
<1>1. Count(Append(platform.tasks, t), Task("start", None))
        = Count(platform.tasks, Task("start", None))
  BY StartsType, CountAppend
<1>2. Enqueue(platform, t).tasks \in {platform.tasks, Append(platform.tasks, t)}
  BY DEF Enqueue, Inv, PlatformTyped, PlatformQueue
<1> QED
  BY <1>1, <1>2

LEMMA StartedOnceNext == ASSUME Inv, EngineInv, StartedOnce, [Next]_vars PROVE StartedOnce'
<1> USE DEF server, queues, flutter, raster, owned
<1>0. /\ Task("event", None) \in PlatformTask /\ Task("event", None) # Task("start", None)
      /\ Task("stop", None) \in PlatformTask /\ Task("stop", None) # Task("start", None)
      /\ Task("start", None) \in PlatformTask
  BY DEF Task, PlatformTask, None
<1>1. CASE RunEngine
  <2>1. ~ platform.closed /\ Starts = 0 /\ engine = "none"
    BY <1>1 DEF RunEngine, StartedOnce, EngineInv, Inv, OpenUntilStopped
  <2>2. platform'.tasks = Append(platform.tasks, Task("start", None))
    BY <1>1, <2>1 DEF RunEngine, Enqueue, Inv, PlatformTyped, PlatformQueue
  <2>3. Count(platform'.tasks, Task("start", None)) = Count(platform.tasks, Task("start", None)) + 1
    BY <1>0, <2>2, StartsType, CountAppend
  <2>4. Starts' = 1
    BY <1>1, <2>1, <2>3, StartsType DEF RunEngine, Starts
  <2> QED
    BY <1>1, <2>1, <2>4 DEF RunEngine, StartedOnce
<1>2. CASE SendEvent \/ AnswerCall
  <2>1. /\ platform' = Enqueue(platform, Task("event", None))
        /\ UNCHANGED <<stage, platformBatch, engine>>
    BY <1>2 DEF SendEvent, AnswerCall
  <2>2. Starts' = Starts
    BY <1>0, <2>1, StartsAppend DEF Starts
  <2> QED
    BY <2>1, <2>2 DEF StartedOnce
<1>3. CASE StopEngine
  <2>1. platform' = Close(platform, <<Task("stop", None)>>) /\ ~ platform.closed
        /\ UNCHANGED <<platformBatch, engine>> /\ stage' = "stopping"
    BY <1>3 DEF StopEngine, Inv, OpenUntilStopped
  <2>2. platform'.tasks = Append(platform.tasks, Task("stop", None))
    BY <1>0, <2>1, StartsType DEF Close
  <2>3. Starts' = Starts
    BY <1>0, <2>1, <2>2, StartsAppend DEF Starts
  <2> QED
    BY <2>1, <2>3 DEF StartedOnce
<1>4. CASE TakePlatform
  <2>1. platformBatch = <<>> /\ platformBatch' = platform.tasks /\ platform'.tasks = <<>>
        /\ UNCHANGED <<stage, engine>>
    BY <1>4 DEF TakePlatform, AtLoop, Taken, Inv, PlatformTyped, PlatformQueue
  <2>2. Starts' = Starts
    BY <2>1, CountNone, StartsType DEF Starts
  <2> QED
    BY <2>1, <2>2 DEF StartedOnce
<1>5. CASE StartEngine
  <2>1. Starts = 1 /\ Count(Tail(platformBatch), Task("start", None)) = 0
        /\ Count(platformBatch, Task("start", None)) = 1
    BY <1>5, NextStarts DEF StartEngine
  <2>2. platformBatch' = Tail(platformBatch) /\ UNCHANGED <<stage, platform>>
    BY <1>5 DEF StartEngine
  <2>3. Starts' = 0
    BY <2>1, <2>2, StartsType DEF Starts
  <2> QED
    BY <2>1, <2>2, <2>3 DEF StartedOnce
<1>6. CASE HandleEvent \/ EndStop
  <2>1. /\ platformBatch # <<>> /\ Head(platformBatch).kind # "start"
        /\ platformBatch' = Tail(platformBatch) /\ UNCHANGED <<stage, platform>>
        /\ engine = "none" => engine' = "none"
    BY <1>6 DEF HandleEvent, EndStop, IsNext
  <2>2. Head(platformBatch) # Task("start", None)
    BY <2>1 DEF Task
  <2>3. Count(platformBatch', Task("start", None)) = Count(platformBatch, Task("start", None))
    BY <2>1, <2>2, StartsType, CountTail
  <2>4. Starts' = Starts
    BY <2>1, <2>3 DEF Starts
  <2> QED
    BY <2>1, <2>4 DEF StartedOnce
<1>7. CASE BeginStop
  BY <1>7 DEF BeginStop, StartedOnce, Starts
<1>8. CASE ~ (\/ RunEngine \/ SendEvent \/ AnswerCall \/ StopEngine \/ TakePlatform
              \/ StartEngine \/ HandleEvent \/ EndStop \/ BeginStop)
  <2>1. UNCHANGED <<platform, platformBatch, engine>>
    BY <1>8 DEF Next, vars, StartupFails, ReplaceTarget, PublishImage, RequestShutdown, TakeNative,
       RunNativeTask, AnnounceFrame, DeleteChain, DeleteImage, EraseTexture, ReportFailure,
       WakeUp, ContinueShutdown, JoinEngine, DestroyClients, DestroyOutputs, DestroyEmbedder,
       CloseNativeQueue, DestroyRenderer, RunPlatform, LeaveLoop, EndThread, PostFlutterTask,
       RunFlutterTask, AttachFramebuffer, WriteStarts, WriteRefused, Present, SampleTexture,
       ReleaseTexture
  <2>2. stage' = "starting" => stage = "starting"
    BY <1>8 DEF Next, vars, StartupFails, ReplaceTarget, PublishImage, RequestShutdown, TakeNative,
       RunNativeTask, AnnounceFrame, DeleteChain, DeleteImage, EraseTexture, ReportFailure,
       WakeUp, ContinueShutdown, JoinEngine, DestroyClients, DestroyOutputs, DestroyEmbedder,
       CloseNativeQueue, DestroyRenderer, RunPlatform, LeaveLoop, EndThread, PostFlutterTask,
       RunFlutterTask, AttachFramebuffer, WriteStarts, WriteRefused, Present, SampleTexture,
       ReleaseTexture
  <2>3. Starts' = Starts
    BY <2>1 DEF Starts
  <2> QED
    BY <2>1, <2>2, <2>3 DEF StartedOnce
<1> QED
  BY <1>1, <1>2, <1>3, <1>4, <1>5, <1>6, <1>7, <1>8

LEMMA EngineInvNext == ASSUME Inv, StartedOnce, EngineInv, [Next]_vars PROVE EngineInv'
<1> USE DEF server, queues, flutter, raster, owned
<1>1. CASE StartupFails
  BY <1>1 DEF StartupFails, EngineInv, Late, Gone, RasterRuns
<1>2. CASE RunEngine
  BY <1>2 DEF RunEngine, EngineInv, Late, Gone, RasterRuns
<1>3. CASE ReplaceTarget \/ PublishImage \/ SendEvent \/ RequestShutdown \/ TakeNative
             \/ RunNativeTask \/ UNCHANGED vars
  <2>1. UNCHANGED <<stage, thread, engine, stopped, platformBatch, acquiring, raster_target, sampled>>
    BY <1>3 DEF ReplaceTarget, PublishImage, SendEvent, RequestShutdown, TakeNative,
       RunNativeTask, AnnounceFrame, DeleteChain, DeleteImage, EraseTexture, AnswerCall,
       ReportFailure, WakeUp, vars
  <2> QED
    BY <2>1 DEF EngineInv, Late, Gone, RasterRuns
<1>4. CASE StopEngine
  BY <1>4 DEF StopEngine, EngineInv, Late, Gone, RasterRuns
<1>5. CASE JoinEngine
  <2>1. Gone /\ platformBatch = <<>>
    BY <1>5 DEF JoinEngine, Gone, Inv, StopIsLast
  <2> QED
    BY <1>5, <2>1 DEF JoinEngine, EngineInv, Late, Gone, RasterRuns
<1>6. CASE DestroyClients \/ DestroyOutputs \/ DestroyEmbedder \/ CloseNativeQueue \/ DestroyRenderer
  BY <1>6, SameEngine DEF DestroyClients, DestroyOutputs, DestroyEmbedder, CloseNativeQueue,
     DestroyRenderer, Late
<1>7. CASE TakePlatform
  BY <1>7 DEF TakePlatform, AtLoop, EngineInv, Late, Gone, RasterRuns
<1>8. CASE StartEngine
  <2>1. platformBatch # <<>> /\ ~ stopped /\ ~ Gone
    BY <1>8 DEF StartEngine, IsNext, Inv, StopIsLast
  <2>2. engine = "none"
    BY <1>8, NextStarts DEF StartEngine, StartedOnce
  <2> QED
    BY <1>8, <2>1, <2>2 DEF StartEngine, EngineInv, Late, Gone, RasterRuns
<1>9. CASE HandleEvent
  <2>1. platformBatch # <<>>
    BY <1>9 DEF HandleEvent, IsNext
  <2> QED
    BY <1>9, <2>1 DEF HandleEvent, EngineInv, Late, Gone, RasterRuns
<1>10. CASE BeginStop
  <2>1. platformBatch # <<>>
    BY <1>10 DEF BeginStop, IsNext
  <2> QED
    BY <1>10, <2>1 DEF BeginStop, EngineInv, Late, Gone, RasterRuns
<1>11. CASE EndStop
  <2>1. platformBatch # <<>>
    BY <1>11 DEF EndStop, IsNext
  <2> QED
    BY <1>11, <2>1 DEF EndStop, EngineInv, Late, Gone, RasterRuns
<1>12. CASE LeaveLoop \/ EndThread
  BY <1>12 DEF LeaveLoop, EndThread, EngineInv, Late, Gone, RasterRuns
<1>13. CASE PostFlutterTask \/ RunFlutterTask
  <2>1. UNCHANGED <<stage, thread, engine, stopped, platformBatch, acquiring, raster_target, sampled>>
    BY <1>13 DEF PostFlutterTask, RunFlutterTask
  <2> QED
    BY <2>1 DEF EngineInv, Late, Gone, RasterRuns
<1>14. CASE AttachFramebuffer \/ WriteStarts \/ WriteRefused \/ Present \/ SampleTexture \/ ReleaseTexture
  <2>1. RasterRuns /\ UNCHANGED <<stage, thread, engine, stopped, platformBatch>>
    BY <1>14 DEF AttachFramebuffer, WriteStarts, WriteRefused, Present, SampleTexture,
       ReleaseTexture, RasterRuns
  <2> QED
    BY <2>1 DEF EngineInv, Late, Gone, RasterRuns
<1> QED
  BY <1>1, <1>2, <1>3, <1>4, <1>5, <1>6, <1>7, <1>8, <1>9, <1>10, <1>11, <1>12, <1>13, <1>14
     DEF Next, ContinueShutdown, RunPlatform

-----------------------------------------------------------------------------
(* The Wayland thread's queue.                                                *)

NativeTask == [kind : {"frame", "delete chain", "delete image", "erase", "call", "failed", "wake"},
               of : Nat]
NativeQueue == [tasks : Seq(NativeTask), readable : BOOLEAN, closed : BOOLEAN]

\* The kinds by name.
Frame == "frame"
ChainDeletion == "delete chain"
ImageDeletion == "delete image"
Erasure == "erase"
Call == "call"

LEMMA Kinds ==
  /\ Frame = "frame" /\ ChainDeletion = "delete chain" /\ ImageDeletion = "delete image"
  /\ Erasure = "erase" /\ Call = "call"
  BY DEF Frame, ChainDeletion, ImageDeletion, Erasure, Call

NativeTyped ==
  /\ native \in NativeQueue /\ nativeBatch \in Seq(NativeTask)
  /\ chains \in Nat /\ images \in Nat

(* How often a task is queued or taken.                                       *)
Waiting(t) == Count(native.tasks, t) + Count(nativeBatch, t)

LEMMA TaskEqual ==
  \A k, l, x, y : Task(k, x) = Task(l, y) <=> k = l /\ x = y
  BY DEF Task

LEMMA WaitingType == ASSUME NativeTyped PROVE \A t : Waiting(t) \in Nat
  BY PlacesFinite DEF Waiting, NativeTyped, NativeQueue

(* The tasks of a queue that announce a frame.                                *)
LEMMA AnnouncedCount ==
  ASSUME NEW tasks \in Seq(NativeTask)
  PROVE  Announced(tasks) = {c \in Nat : Count(tasks, Task(Frame, c)) # 0}
<1>1. \A x \in Range(tasks) : x \in NativeTask
  BY DEF Range
<1>2. \A c : c \in Announced(tasks) <=> c \in Nat /\ Task(Frame, c) \in Range(tasks)
  <2> TAKE c
  <2>1. ASSUME c \in Announced(tasks) PROVE c \in Nat /\ Task(Frame, c) \in Range(tasks)
    <3>1. PICK x \in Range(tasks) : x.kind = "frame" /\ x.of = c
      BY <2>1 DEF Announced
    <3> QED
      BY <1>1, <3>1 DEF NativeTask, Task, Frame
  <2>2. ASSUME Task(Frame, c) \in Range(tasks) PROVE c \in Announced(tasks)
    BY <2>2 DEF Announced, Task, Frame
  <2> QED
    BY <2>1, <2>2
<1> QED
  BY <1>2, CountIn

LEMMA UsedChains ==
  ASSUME NativeTyped
  PROVE  /\ Announced(native.tasks) \cup Announced(nativeBatch) =
              {c \in Nat : Waiting(Task(Frame, c)) # 0}
         /\ ChainsInUse = Holders(target, acquiring, raster_target)
                            \cup {c \in Nat : Waiting(Task(Frame, c)) # 0}
<1>1. native.tasks \in Seq(NativeTask) /\ nativeBatch \in Seq(NativeTask)
  BY DEF NativeTyped, NativeQueue
<1>2. \A t : Count(native.tasks, t) \in Nat /\ Count(nativeBatch, t) \in Nat
  BY <1>1, PlacesFinite
<1>3. Announced(native.tasks) \cup Announced(nativeBatch) =
        {c \in Nat : Waiting(Task(Frame, c)) # 0}
  BY <1>1, <1>2, AnnouncedCount DEF Waiting
<1> QED
  BY <1>3 DEF ChainsInUse

LEMMA UsedChainsNext ==
  ASSUME NativeTyped'
  PROVE  ChainsInUse' = Holders(target', acquiring', raster_target')
                          \cup {c \in Nat : Waiting(Task(Frame, c))' # 0}
<1>1. native'.tasks \in Seq(NativeTask) /\ nativeBatch' \in Seq(NativeTask)
  BY DEF NativeTyped, NativeQueue
<1>2. \A t : /\ Count(native'.tasks, t) \in Nat /\ Count(nativeBatch', t) \in Nat
             /\ Waiting(t)' = Count(native'.tasks, t) + Count(nativeBatch', t)
  BY <1>1, PlacesFinite DEF Waiting
<1>3. \A c : c \in Announced(native'.tasks) \cup Announced(nativeBatch')
               <=> c \in Nat /\ Waiting(Task(Frame, c))' # 0
  <2> HIDE DEF Waiting
  <2> QED
    BY <1>1, <1>2, AnnouncedCount
<1> QED
  BY <1>3 DEF ChainsInUse

(* What the steps of the queue do to the counts.                              *)
LEMMA Queued ==
  ASSUME NativeTyped, ~ native.closed, NEW x \in NativeTask,
         native' = Enqueue(native, x), UNCHANGED <<nativeBatch, chains, images>>
  PROVE  /\ NativeTyped' /\ ~ native'.closed /\ native'.readable
         /\ \A t : Waiting(t)' = Waiting(t) + (IF x = t THEN 1 ELSE 0)
<1>1. native' = [native EXCEPT !.tasks = Append(@, x), !.readable = TRUE]
  BY DEF Enqueue
<1>2. /\ native.tasks \in Seq(NativeTask) /\ nativeBatch \in Seq(NativeTask)
      /\ native'.tasks = Append(native.tasks, x) /\ native'.readable = TRUE
      /\ native'.closed = FALSE
      /\ native' \in [tasks : {Append(native.tasks, x)}, readable : {TRUE}, closed : BOOLEAN]
  BY <1>1 DEF NativeTyped, NativeQueue
<1>3. NativeTyped'
  <2>1. Append(native.tasks, x) \in Seq(NativeTask)
    BY <1>2
  <2> QED
    BY <1>2, <2>1 DEF NativeTyped, NativeQueue
<1>4. \A t : Count(native'.tasks, t) = Count(native.tasks, t) + (IF x = t THEN 1 ELSE 0)
  BY <1>2, CountAppend
<1>5. \A t : Count(native.tasks, t) \in Nat /\ Count(nativeBatch, t) \in Nat
  BY <1>2, PlacesFinite
<1> QED
  BY <1>2, <1>3, <1>4, <1>5 DEF Waiting

LEMMA Ran ==
  ASSUME NativeTyped, nativeBatch # <<>>, nativeBatch' = Tail(nativeBatch),
         UNCHANGED <<native, chains, images>>
  PROVE  /\ NativeTyped' /\ Head(nativeBatch) \in NativeTask
         /\ \A t : Waiting(t)' = Waiting(t) - (IF Head(nativeBatch) = t THEN 1 ELSE 0)
<1>1. native.tasks \in Seq(NativeTask) /\ nativeBatch \in Seq(NativeTask)
  BY DEF NativeTyped, NativeQueue
<1>2. Tail(nativeBatch) \in Seq(NativeTask) /\ Head(nativeBatch) \in NativeTask
  BY <1>1
<1>3. \A t : Count(native.tasks, t) \in Nat /\ Count(nativeBatch, t) \in Nat
  BY <1>1, PlacesFinite
<1>4. \A t : Count(nativeBatch', t) =
               Count(nativeBatch, t) - (IF Head(nativeBatch) = t THEN 1 ELSE 0)
  BY <1>1, CountTail
<1>5. NativeTyped'
  BY <1>2 DEF NativeTyped
<1> QED
  BY <1>2, <1>3, <1>4, <1>5 DEF Waiting

LEMMA QueuedDeletions ==
  ASSUME NEW queue \in NativeQueue, ~ queue.closed,
         NEW dropped \in SUBSET Nat, IsFiniteSet(dropped)
  PROVE  /\ Deleting(queue, dropped) \in NativeQueue /\ ~ Deleting(queue, dropped).closed
         /\ (queue.tasks # <<>> => queue.readable)
              => (Deleting(queue, dropped).tasks # <<>> => Deleting(queue, dropped).readable)
         /\ \A t : Count(Deleting(queue, dropped).tasks, t) = Count(queue.tasks, t) +
                     (IF \E c \in dropped : t = Task("delete chain", c) THEN 1 ELSE 0)
<1> DEFINE deletions == {Task("delete chain", c) : c \in dropped}
           more == SetToSeq(deletions)
<1>1. queue.tasks \in Seq(NativeTask) /\ queue.readable \in BOOLEAN
  BY DEF NativeQueue
<1>2. CASE dropped = {}
  <2>1. Deleting(queue, dropped) = queue
    BY <1>2 DEF Deleting
  <2>2. \A t : Count(queue.tasks, t) \in Nat
    BY <1>1, PlacesFinite
  <2> QED
    BY <1>2, <2>1, <2>2
<1>3. CASE dropped # {}
  <2>1. Deleting(queue, dropped) = [queue EXCEPT !.tasks = @ \o more, !.readable = TRUE]
    BY <1>3 DEF Deleting
  <2>2. IsFiniteSet(deletions)
    <3> DEFINE f == [c \in dropped |-> Task("delete chain", c)]
    <3>1. f \in Surjection(dropped, deletions)
      BY DEF Surjection
    <3> QED
      BY <3>1, FS_Surjection
  <2>3. deletions \subseteq NativeTask
    <3>1. \A c \in Nat : Task("delete chain", c) \in NativeTask
      BY DEF NativeTask, Task
    <3> QED
      BY <3>1
  <2>4. \A t : t \in deletions <=> \E c \in dropped : t = Task("delete chain", c)
    OBVIOUS
  <2> HIDE DEF deletions, more
  <2>5. /\ more \in Seq(deletions)
        /\ \A t : Count(more, t) = IF t \in deletions THEN 1 ELSE 0
    BY <2>2, SetAsSequence DEF more
  <2>6. more \in Seq(NativeTask)
    BY <2>3, <2>5
  <2>7. queue.tasks \o more \in Seq(NativeTask)
    BY <1>1, <2>6
  <2>8. /\ Deleting(queue, dropped).tasks = queue.tasks \o more
        /\ Deleting(queue, dropped) \in NativeQueue
        /\ Deleting(queue, dropped).readable /\ ~ Deleting(queue, dropped).closed
    BY <2>1, <2>7 DEF NativeQueue
  <2>9. \A t : Count(queue.tasks \o more, t) = Count(queue.tasks, t) + Count(more, t)
    <3> TAKE t
    <3>1. Count(more, t) \in {0, 1}
      BY <2>5
    <3> QED
      BY <1>1, <2>6, <3>1, CountBehind
  <2>10. \A t : Count(Deleting(queue, dropped).tasks, t) = Count(queue.tasks, t) +
                  (IF t \in deletions THEN 1 ELSE 0)
    BY <2>5, <2>8, <2>9
  <2> QED
    BY <2>4, <2>8, <2>10
<1> QED
  BY <1>2, <1>3

-----------------------------------------------------------------------------
(* Accounts.  Of the `n` chains, or texture frames, created so far those in   *)
(* use are owed no deletion, and every other is freed or about to be: once.   *)
Balanced(n, used, owed) ==
  /\ used \subseteq 1..n
  /\ \A x \in Nat : owed[x] = IF x \in 1..n /\ x \notin used THEN 1 ELSE 0

Owed(kind, freed) ==
  [x \in Nat |-> Waiting(Task(kind, x)) + (IF x \in freed THEN 1 ELSE 0)]

ImagesInUse == (sampled \cup {registered}) \ {None}

ChainAccount ==
  freedChains \subseteq Nat /\ Balanced(chains, ChainsInUse, Owed(ChainDeletion, freedChains))
ImageAccount ==
  /\ None \notin sampled /\ freedImages \subseteq Nat
  /\ Balanced(images, ImagesInUse, Owed(ImageDeletion, freedImages))

(* What goes out of use is owed a deletion more, what is created is in use.   *)
Settled(used, after, owed, later) ==
  \A x \in Nat : later[x] = owed[x] + (IF x \in used /\ x \notin after THEN 1 ELSE 0)

Created(n, m, used, after) ==
  /\ n \in Nat /\ m \in Nat /\ n <= m
  /\ after \subseteq used \cup ((n + 1)..m) /\ (n + 1)..m \subseteq after

LEMMA BalanceKept ==
  ASSUME NEW n, NEW m, NEW used, NEW after, NEW owed, NEW later,
         Balanced(n, used, owed), Created(n, m, used, after), Settled(used, after, owed, later)
  PROVE  Balanced(m, after, later)
<1>1. after \subseteq 1..m
  BY DEF Balanced, Created
<1>2. ASSUME NEW x \in Nat PROVE later[x] = IF x \in 1..m /\ x \notin after THEN 1 ELSE 0
  <2>1. x \in 1..m <=> x \in 1..n \/ x \in (n + 1)..m
    BY DEF Created
  <2>2. x \in used => x \in 1..n
    BY DEF Balanced
  <2>3. owed[x] = IF x \in 1..n /\ x \notin used THEN 1 ELSE 0
    BY DEF Balanced
  <2> QED
    BY <2>1, <2>2, <2>3 DEF Created, Settled
<1> QED
  BY <1>1, <1>2 DEF Balanced

LEMMA ChainsStep ==
  ASSUME ChainAccount, freedChains' \subseteq Nat, Created(chains, chains', ChainsInUse, ChainsInUse'),
         Settled(ChainsInUse, ChainsInUse', Owed(ChainDeletion, freedChains),
                 Owed(ChainDeletion, freedChains)')
  PROVE  ChainAccount'
<1>1. Balanced(chains, ChainsInUse, Owed(ChainDeletion, freedChains))
  BY DEF ChainAccount
<1>2. Balanced(chains', ChainsInUse', Owed(ChainDeletion, freedChains)')
  BY <1>1, BalanceKept
<1> QED
  BY <1>2 DEF ChainAccount

LEMMA ImagesStep ==
  ASSUME ImageAccount, freedImages' \subseteq Nat, None \notin sampled',
         Created(images, images', ImagesInUse, ImagesInUse'),
         Settled(ImagesInUse, ImagesInUse', Owed(ImageDeletion, freedImages),
                 Owed(ImageDeletion, freedImages)')
  PROVE  ImageAccount'
<1>1. Balanced(images, ImagesInUse, Owed(ImageDeletion, freedImages))
  BY DEF ImageAccount
<1>2. Balanced(images', ImagesInUse', Owed(ImageDeletion, freedImages)')
  BY <1>1, BalanceKept
<1> QED
  BY <1>2 DEF ImageAccount

-----------------------------------------------------------------------------
(* The queue is open, and readable while it holds a task, until nothing can   *)
(* be dropped any more; the texture registry and the target go before it.     *)
TornDown == stage \in {"clients gone", "outputs gone", "embedder gone", "closed", "done"}

QueueInv ==
  /\ NativeTyped
  /\ native.closed <=> stage \in {"closed", "done"}
  /\ native.closed => native.tasks = <<>> /\ nativeBatch = <<>>
  /\ native.tasks # <<>> => native.readable

ReleasedInv ==
  /\ TornDown => registered = None
  /\ stage \in {"outputs gone", "embedder gone", "closed", "done"} => target = None

CallsDone ==
  TornDown => \A n \in Nat : Waiting(Task(Erasure, n)) = 0 /\ Waiting(Task(Call, n)) = 0

OwnersInv == QueueInv /\ ReleasedInv /\ CallsDone /\ ChainAccount /\ ImageAccount

SameWaiting(kind) == \A x : Waiting(Task(kind, x))' = Waiting(Task(kind, x))
USE DEF SameWaiting

LEMMA InitOwners == Init => OwnersInv
<1> SUFFICES ASSUME Init PROVE OwnersInv
  OBVIOUS
<1> USE DEF Init, NewQueue, None
<1>1. QueueInv /\ ReleasedInv
  BY EmptySeq DEF QueueInv, NativeTyped, NativeQueue, ReleasedInv, TornDown
<1>2. \A t : Waiting(t) = 0
  BY CountNone DEF Waiting
<1>3. CallsDone
  BY <1>2 DEF CallsDone
<1>4. ChainsInUse = {} /\ ImagesInUse = {}
  BY <1>1, <1>2, UsedChains DEF QueueInv, Holders, ImagesInUse
<1>5. \A kind : \A x \in Nat : Owed(kind, {})[x] = 0
  BY <1>2 DEF Owed
<1>6. 1..0 = {}
  OBVIOUS
<1>7. ChainAccount
  BY <1>4, <1>5, <1>6 DEF ChainAccount, Balanced
<1>8. ImageAccount
  BY <1>4, <1>5, <1>6 DEF ImageAccount, Balanced
<1> QED
  BY <1>1, <1>3, <1>7, <1>8 DEF OwnersInv

(* Nothing is queued once the engine's thread has ended and nothing waits.    *)
LEMMA OpenQueue ==
  ASSUME QueueInv, EngineInv,
         \/ nativeBatch # <<>> \/ platformBatch # <<>> \/ RasterRuns
         \/ thread \in {"running", "leaving", "stopped"}
         \/ stage \notin {"closed", "done"}
  PROVE  ~ native.closed
  BY DEF QueueInv, EngineInv, Late

(* Steps that do not touch chains, or texture frames, or the calls.           *)
LEMMA ChainsApart ==
  ASSUME NativeTyped, NativeTyped', ChainAccount, SameWaiting(Frame), SameWaiting(ChainDeletion),
         UNCHANGED <<chains, target, acquiring, raster_target, freedChains>>
  PROVE  ChainAccount'
<1>1. ChainsInUse = Holders(target, acquiring, raster_target)
                      \cup {c \in Nat : Waiting(Task(Frame, c)) # 0}
  BY UsedChains
<1>2. ChainsInUse' = Holders(target', acquiring', raster_target')
                       \cup {c \in Nat : Waiting(Task(Frame, c))' # 0}
  BY UsedChainsNext
<1>3. ChainsInUse' = ChainsInUse
  BY <1>1, <1>2
<1>4. Owed(ChainDeletion, freedChains)' = Owed(ChainDeletion, freedChains)
  BY DEF Owed
<1> QED
  BY <1>3, <1>4 DEF ChainAccount

LEMMA ImagesApart ==
  ASSUME ImageAccount, SameWaiting(ImageDeletion),
         UNCHANGED <<images, registered, sampled, freedImages>>
  PROVE  ImageAccount'
<1>1. Owed(ImageDeletion, freedImages)' = Owed(ImageDeletion, freedImages)
  BY DEF Owed
<1> QED
  BY <1>1 DEF ImageAccount, ImagesInUse

LEMMA CallsApart ==
  ASSUME CallsDone, SameWaiting(Erasure), SameWaiting(Call), TornDown' => TornDown
  PROVE  CallsDone'
  BY DEF CallsDone

(* Steps that leave the queue and what is owned alone.                        *)
LEMMA OwnersApart ==
  ASSUME OwnersInv, UNCHANGED <<native, nativeBatch, raster, owned>>,
         \/ stage' = stage
         \/ ~ TornDown /\ ~ TornDown'
         \/ stage = "outputs gone" /\ stage' = "embedder gone"
         \/ stage = "closed" /\ stage' = "done"
  PROVE  OwnersInv'
<1> USE DEF raster, owned
<1>1. UNCHANGED <<chains, target, acquiring, raster_target, freedChains, native, nativeBatch,
                  images, registered, sampled, freedImages>>
  OBVIOUS
<1>2. QueueInv' /\ ReleasedInv'
  BY <1>1 DEF OwnersInv, QueueInv, NativeTyped, ReleasedInv, TornDown
<1>3. \A kind : SameWaiting(kind)
  BY <1>1 DEF Waiting
<1>4. TornDown' => TornDown
  BY DEF TornDown
<1> QED
  BY <1>1, <1>2, <1>3, <1>4, ChainsApart, ImagesApart, CallsApart DEF OwnersInv, QueueInv

(* A task that neither frees nor announces, queued or run.                    *)
LEMMA QuietQueued ==
  ASSUME OwnersInv, EngineInv, ~ native.closed, NEW x \in NativeTask,
         x.kind \in {"erase", "call", "failed", "wake"},
         TornDown => x.kind \in {"failed", "wake"},
         native' = Enqueue(native, x), UNCHANGED <<stage, nativeBatch, raster, owned>>
  PROVE  OwnersInv'
<1> USE DEF raster, owned
<1>1. NativeTyped
  BY DEF OwnersInv, QueueInv
<1>2. /\ NativeTyped' /\ ~ native'.closed /\ native'.readable
      /\ \A t : Waiting(t)' = Waiting(t) + (IF x = t THEN 1 ELSE 0)
  BY <1>1, Queued
<1>3. \A kind : x.kind # kind => SameWaiting(kind)
  <2> SUFFICES ASSUME NEW kind, x.kind # kind, NEW n
               PROVE  Waiting(Task(kind, n))' = Waiting(Task(kind, n))
    OBVIOUS
  <2>1. x # Task(kind, n)
    BY DEF Task
  <2>2. Waiting(Task(kind, n)) \in Nat
    BY <1>1, WaitingType
  <2> QED
    BY <1>2, <2>1, <2>2
<1>4. QueueInv' /\ ReleasedInv' /\ TornDown' = TornDown
  BY <1>2 DEF OwnersInv, QueueInv, ReleasedInv, TornDown
<1>5. ChainAccount' /\ ImageAccount'
  <2>1. x.kind # Frame /\ x.kind # ChainDeletion /\ x.kind # ImageDeletion
    BY Kinds
  <2>2. SameWaiting(Frame) /\ SameWaiting(ChainDeletion) /\ SameWaiting(ImageDeletion)
    BY <1>3, <2>1
  <2> QED
    BY <1>1, <1>2, <2>2, ChainsApart, ImagesApart DEF OwnersInv
<1>6. CallsDone'
  <2>1. CASE TornDown
    <3>1. x.kind # Erasure /\ x.kind # Call
      BY <2>1, Kinds
    <3>2. SameWaiting(Erasure) /\ SameWaiting(Call)
      BY <1>3, <3>1
    <3> QED
      BY <1>4, <3>2, CallsApart DEF OwnersInv
  <2>2. CASE ~ TornDown
    BY <1>4, <2>2 DEF CallsDone
  <2> QED
    BY <2>1, <2>2
<1> QED
  BY <1>4, <1>5, <1>6 DEF OwnersInv

LEMMA BatchStays ==
  ASSUME OwnersInv, nativeBatch # <<>>, nativeBatch' = Tail(nativeBatch),
         UNCHANGED <<stage, native, chains, images, target>>, registered' \in {registered, None}
  PROVE  /\ QueueInv' /\ ReleasedInv' /\ NativeTyped /\ NativeTyped' /\ TornDown' = TornDown
         /\ Head(nativeBatch) \in NativeTask
         /\ \A t : Waiting(t)' = Waiting(t) - (IF Head(nativeBatch) = t THEN 1 ELSE 0)
         /\ \A t : Waiting(t) \in Nat
         /\ \A kind : kind # Head(nativeBatch).kind => SameWaiting(kind)
<1>1. NativeTyped
  BY DEF OwnersInv, QueueInv
<1>2. /\ NativeTyped' /\ Head(nativeBatch) \in NativeTask
      /\ \A t : Waiting(t)' = Waiting(t) - (IF Head(nativeBatch) = t THEN 1 ELSE 0)
      /\ \A t : Waiting(t) \in Nat
  BY <1>1, Ran, WaitingType
<1>3. QueueInv' /\ ReleasedInv' /\ TornDown' = TornDown
  BY <1>2 DEF OwnersInv, QueueInv, ReleasedInv, TornDown
<1>4. ASSUME NEW kind, kind # Head(nativeBatch).kind PROVE SameWaiting(kind)
  <2> SUFFICES ASSUME NEW n PROVE Waiting(Task(kind, n))' = Waiting(Task(kind, n))
    OBVIOUS
  <2>1. Head(nativeBatch) # Task(kind, n)
    BY <1>4 DEF Task
  <2> QED
    BY <1>2, <2>1
<1> QED
  BY <1>1, <1>2, <1>3, <1>4

\* A call that has been run leaves fewer of them.
LEMMA FewerCalls ==
  ASSUME CallsDone, TornDown' => TornDown, NEW ran,
         \A t : Waiting(t)' = Waiting(t) - (IF ran = t THEN 1 ELSE 0),
         \A t : Waiting(t) \in Nat /\ Waiting(t)' \in Nat
  PROVE  CallsDone'
<1> SUFFICES ASSUME TornDown', NEW n \in Nat
             PROVE  Waiting(Task(Erasure, n))' = 0 /\ Waiting(Task(Call, n))' = 0
  BY DEF CallsDone
<1>1. Waiting(Task(Erasure, n)) = 0 /\ Waiting(Task(Call, n)) = 0
  BY DEF CallsDone
<1>2. /\ Waiting(Task(Erasure, n))' \in {0, 0 - 1} /\ Waiting(Task(Erasure, n))' \in Nat
      /\ Waiting(Task(Call, n))' \in {0, 0 - 1} /\ Waiting(Task(Call, n))' \in Nat
  BY <1>1
<1> QED
  BY <1>2

LEMMA WaitingTypeNext == ASSUME NativeTyped' PROVE \A t : Waiting(t)' \in Nat
<1>1. native'.tasks \in Seq(NativeTask) /\ nativeBatch' \in Seq(NativeTask)
  BY DEF NativeTyped, NativeQueue
<1> QED
  BY <1>1, PlacesFinite DEF Waiting

LEMMA QuietRan ==
  ASSUME OwnersInv, nativeBatch # <<>>, nativeBatch' = Tail(nativeBatch),
         Head(nativeBatch).kind \in {"call", "failed", "wake"},
         UNCHANGED <<stage, native, raster, owned>>
  PROVE  OwnersInv'
<1> USE DEF raster, owned
<1>1. /\ QueueInv' /\ ReleasedInv' /\ NativeTyped /\ NativeTyped' /\ TornDown' = TornDown
      /\ \A t : Waiting(t)' = Waiting(t) - (IF Head(nativeBatch) = t THEN 1 ELSE 0)
      /\ \A t : Waiting(t) \in Nat
      /\ \A kind : kind # Head(nativeBatch).kind => SameWaiting(kind)
  BY BatchStays
<1>2. ChainAccount' /\ ImageAccount'
  <2>1. /\ Head(nativeBatch).kind # Frame /\ Head(nativeBatch).kind # ChainDeletion
        /\ Head(nativeBatch).kind # ImageDeletion
    BY Kinds
  <2>2. SameWaiting(Frame) /\ SameWaiting(ChainDeletion) /\ SameWaiting(ImageDeletion)
    BY <1>1, <2>1
  <2> QED
    BY <1>1, <2>2, ChainsApart, ImagesApart DEF OwnersInv
<1>3. CallsDone'
  BY <1>1, WaitingTypeNext, FewerCalls DEF OwnersInv
<1> QED
  BY <1>1, <1>2, <1>3 DEF OwnersInv

\* What the Wayland thread drops itself it frees, unless Flutter holds it.
LEMMA RegistersSettles ==
  ASSUME NativeTyped, NativeTyped', ImageAccount, SameWaiting(ImageDeletion),
         freedImages' = freedImages \cup ({registered} \ ({None, registered'} \cup sampled)),
         sampled' = sampled,
         \/ registered' = None /\ images' = images
         \/ registered' = images' /\ images' = images + 1
  PROVE  ImageAccount'
<1>1. images \in Nat /\ images' \in Nat
  BY DEF NativeTyped
<1>2. ImagesInUse \subseteq 1..images /\ freedImages \subseteq Nat
      /\ \A x \in Nat : Owed(ImageDeletion, freedImages)[x]
                          = IF x \in 1..images /\ x \notin ImagesInUse THEN 1 ELSE 0
  BY DEF ImageAccount, Balanced
<1>3. /\ freedImages' = freedImages \cup (ImagesInUse \ ImagesInUse')
      /\ ImagesInUse' = (sampled \cup {registered'}) \ {None}
  BY DEF ImagesInUse
<1>4. /\ ImagesInUse \subseteq Nat
      /\ \A x \in ImagesInUse : Owed(ImageDeletion, freedImages)[x] = 0
  <2>1. \A x \in ImagesInUse : x \in 1..images
    BY <1>2
  <2>2. \A x \in 1..images : x \in Nat
    OBVIOUS
  <2> QED
    BY <1>2, <2>1, <2>2
<1>5. Created(images, images', ImagesInUse, ImagesInUse')
  <2>1. ImagesInUse' \subseteq ImagesInUse \cup ({registered'} \ {None})
    BY <1>3 DEF ImagesInUse
  <2>2. CASE registered' = None /\ images' = images
    <3>1. (images + 1)..images' = {} /\ images <= images'
      BY <1>1, <2>2
    <3>2. ImagesInUse' \subseteq ImagesInUse
      BY <2>1, <2>2
    <3> QED
      BY <1>1, <3>1, <3>2 DEF Created
  <2>3. CASE registered' = images' /\ images' = images + 1
    <3>1. (images + 1)..images' = {images'} /\ images <= images' /\ images' # None
      BY <1>1, <2>3 DEF None
    <3>2. images' \in ImagesInUse'
      BY <1>3, <2>3, <3>1
    <3>3. ImagesInUse' \subseteq ImagesInUse \cup {images'}
      BY <2>1, <2>3
    <3> QED
      BY <1>1, <3>1, <3>2, <3>3 DEF Created
  <2> QED
    BY <2>2, <2>3
<1>6. freedImages' \subseteq Nat
  BY <1>2, <1>3, <1>4
<1>7. \A x \in Nat : /\ Waiting(Task(ImageDeletion, x)) \in Nat
                     /\ Waiting(Task(ImageDeletion, x))' = Waiting(Task(ImageDeletion, x))
  BY WaitingType
<1>8. \A x \in ImagesInUse : x \notin freedImages
  <2> SUFFICES ASSUME NEW x \in ImagesInUse PROVE x \notin freedImages
    OBVIOUS
  <2>1. x \in Nat /\ Owed(ImageDeletion, freedImages)[x] = 0
    BY <1>4
  <2>2. Owed(ImageDeletion, freedImages)[x]
          = Waiting(Task(ImageDeletion, x)) + (IF x \in freedImages THEN 1 ELSE 0)
    BY <2>1 DEF Owed
  <2>3. Waiting(Task(ImageDeletion, x)) \in Nat
    BY <1>7, <2>1
  <2> QED
    BY <2>1, <2>2, <2>3
<1>9. Settled(ImagesInUse, ImagesInUse', Owed(ImageDeletion, freedImages),
              Owed(ImageDeletion, freedImages)')
  <2> SUFFICES ASSUME NEW x \in Nat
               PROVE  Owed(ImageDeletion, freedImages)'[x] = Owed(ImageDeletion, freedImages)[x]
                        + (IF x \in ImagesInUse /\ x \notin ImagesInUse' THEN 1 ELSE 0)
    BY DEF Settled
  <2>1. Owed(ImageDeletion, freedImages)[x]
          = Waiting(Task(ImageDeletion, x)) + (IF x \in freedImages THEN 1 ELSE 0)
    BY DEF Owed
  <2>2. Owed(ImageDeletion, freedImages)'[x]
          = Waiting(Task(ImageDeletion, x))' + (IF x \in freedImages' THEN 1 ELSE 0)
    BY DEF Owed
  <2>3. /\ Waiting(Task(ImageDeletion, x)) \in Nat
        /\ Waiting(Task(ImageDeletion, x))' = Waiting(Task(ImageDeletion, x))
    BY <1>7
  <2>4. x \in freedImages' <=> x \in freedImages \/ (x \in ImagesInUse /\ x \notin ImagesInUse')
    BY <1>3
  <2>5. x \in ImagesInUse => x \notin freedImages
    BY <1>8
  <2> QED
    BY <2>1, <2>2, <2>3, <2>4, <2>5
<1> QED
  BY <1>5, <1>6, <1>9, ImagesStep DEF ImageAccount

\* A deletion that is run moves what it frees from the queue to what is freed.
LEMMA FreeingSettles ==
  ASSUME NEW n \in Nat, NEW used, NEW freed, freed \subseteq Nat, NEW x \in Nat,
         NEW before, NEW now, \A y \in Nat : before[y] \in Nat /\ now[y] \in Nat,
         \A y \in Nat : now[y] = before[y] - (IF y = x THEN 1 ELSE 0),
         \A y \in Nat : before[y] + (IF y \in freed THEN 1 ELSE 0)
                          = IF y \in 1..n /\ y \notin used THEN 1 ELSE 0
  PROVE  \A y \in Nat : now[y] + (IF y \in freed \cup {x} THEN 1 ELSE 0)
                          = before[y] + (IF y \in freed THEN 1 ELSE 0)
<1> SUFFICES ASSUME NEW y \in Nat
             PROVE  now[y] + (IF y \in freed \cup {x} THEN 1 ELSE 0)
                      = before[y] + (IF y \in freed THEN 1 ELSE 0)
  OBVIOUS
<1>1. before[y] + (IF y \in freed THEN 1 ELSE 0) \in {0, 1}
  OBVIOUS
<1>2. before[y] \in Nat /\ now[y] \in Nat /\ now[y] = before[y] - (IF y = x THEN 1 ELSE 0)
  OBVIOUS
<1>3. y = x => before[y] = 1 /\ now[y] = 0 /\ y \notin freed
  BY <1>1, <1>2
<1> QED
  BY <1>2, <1>3

LEMMA DeleteChainOwners == ASSUME OwnersInv, DeleteChain PROVE OwnersInv'
<1> USE DEF server, flutter, raster
<1> DEFINE x == Head(nativeBatch).of
<1>1. /\ nativeBatch # <<>> /\ nativeBatch' = Tail(nativeBatch)
      /\ Head(nativeBatch).kind = ChainDeletion /\ freedChains' = freedChains \cup {x}
      /\ UNCHANGED <<stage, native, chains, images, target, acquiring, raster_target,
                     registered, sampled, freedImages>>
  BY Kinds DEF DeleteChain, IsNext
<1>2. /\ QueueInv' /\ ReleasedInv' /\ NativeTyped /\ NativeTyped' /\ TornDown' = TornDown
      /\ Head(nativeBatch) \in NativeTask
      /\ \A t : Waiting(t)' = Waiting(t) - (IF Head(nativeBatch) = t THEN 1 ELSE 0)
      /\ \A t : Waiting(t) \in Nat
      /\ \A kind : kind # Head(nativeBatch).kind => SameWaiting(kind)
  BY <1>1, BatchStays
<1>3. x \in Nat /\ Head(nativeBatch) = Task(ChainDeletion, x)
  BY <1>1, <1>2 DEF NativeTask, Task
<1>4. SameWaiting(Frame) /\ SameWaiting(ImageDeletion)
  BY <1>1, <1>2, Kinds
<1>5. ImageAccount'
  BY <1>1, <1>4, ImagesApart DEF OwnersInv
<1>6. ChainsInUse' = ChainsInUse
  BY <1>1, <1>2, <1>4, UsedChains, UsedChainsNext
<1>7. ChainAccount'
  <2> DEFINE before == [y \in Nat |-> Waiting(Task(ChainDeletion, y))]
             now == [y \in Nat |-> Waiting(Task(ChainDeletion, y))']
  <2>1. \A y \in Nat : before[y] \in Nat /\ now[y] \in Nat
    BY <1>2, WaitingTypeNext
  <2>2. \A y \in Nat : now[y] = before[y] - (IF y = x THEN 1 ELSE 0)
    <3>1. \A y : Head(nativeBatch) = Task(ChainDeletion, y) <=> y = x
      BY <1>3, TaskEqual
    <3> QED
      BY <1>2, <3>1
  <2>3. /\ chains \in Nat /\ freedChains \subseteq Nat
        /\ Balanced(chains, ChainsInUse, Owed(ChainDeletion, freedChains))
    BY <1>2 DEF OwnersInv, ChainAccount, NativeTyped
  <2>4. \A y \in Nat : before[y] + (IF y \in freedChains THEN 1 ELSE 0)
                          = IF y \in 1..chains /\ y \notin ChainsInUse THEN 1 ELSE 0
    BY <2>3 DEF Balanced, Owed
  <2>5. \A y \in Nat : Owed(ChainDeletion, freedChains)'[y]
                       = now[y] + (IF y \in freedChains' THEN 1 ELSE 0)
    BY DEF Owed
  <2>6. \A y \in Nat :
          Owed(ChainDeletion, freedChains)[y] = before[y] + (IF y \in freedChains THEN 1 ELSE 0)
    BY DEF Owed
  <2> HIDE DEF before, now, x
  <2>7. \A y \in Nat : now[y] + (IF y \in freedChains \cup {x} THEN 1 ELSE 0)
                          = before[y] + (IF y \in freedChains THEN 1 ELSE 0)
    BY <1>3, <2>1, <2>2, <2>3, <2>4, FreeingSettles
  <2>8. \A y \in Nat : Owed(ChainDeletion, freedChains)'[y] = Owed(ChainDeletion, freedChains)[y]
    BY <1>1, <2>5, <2>6, <2>7
  <2>9. freedChains' \subseteq Nat
    BY <1>1, <1>3, <2>3
  <2> QED
    BY <1>1, <1>6, <2>3, <2>8, <2>9 DEF ChainAccount, Balanced
<1>8. CallsDone'
  BY <1>2, WaitingTypeNext, FewerCalls DEF OwnersInv
<1> QED
  BY <1>2, <1>5, <1>7, <1>8 DEF OwnersInv

LEMMA DeleteImageOwners == ASSUME OwnersInv, DeleteImage PROVE OwnersInv'
<1> USE DEF server, flutter, raster
<1> DEFINE x == Head(nativeBatch).of
<1>1. /\ nativeBatch # <<>> /\ nativeBatch' = Tail(nativeBatch)
      /\ Head(nativeBatch).kind = ImageDeletion /\ freedImages' = freedImages \cup {x}
      /\ UNCHANGED <<stage, native, chains, images, target, acquiring, raster_target,
                     registered, sampled, freedChains>>
  BY Kinds DEF DeleteImage, IsNext
<1>2. /\ QueueInv' /\ ReleasedInv' /\ NativeTyped /\ NativeTyped' /\ TornDown' = TornDown
      /\ Head(nativeBatch) \in NativeTask
      /\ \A t : Waiting(t)' = Waiting(t) - (IF Head(nativeBatch) = t THEN 1 ELSE 0)
      /\ \A t : Waiting(t) \in Nat
      /\ \A kind : kind # Head(nativeBatch).kind => SameWaiting(kind)
  BY <1>1, BatchStays
<1>3. x \in Nat /\ Head(nativeBatch) = Task(ImageDeletion, x)
  BY <1>1, <1>2 DEF NativeTask, Task
<1>4. SameWaiting(Frame) /\ SameWaiting(ChainDeletion)
  BY <1>1, <1>2, Kinds
<1>5. ChainAccount'
  BY <1>1, <1>2, <1>4, ChainsApart DEF OwnersInv
<1>6. ImagesInUse' = ImagesInUse
  BY <1>1 DEF ImagesInUse
<1>7. ImageAccount'
  <2> DEFINE before == [y \in Nat |-> Waiting(Task(ImageDeletion, y))]
             now == [y \in Nat |-> Waiting(Task(ImageDeletion, y))']
  <2>1. \A y \in Nat : before[y] \in Nat /\ now[y] \in Nat
    BY <1>2, WaitingTypeNext
  <2>2. \A y \in Nat : now[y] = before[y] - (IF y = x THEN 1 ELSE 0)
    <3>1. \A y : Head(nativeBatch) = Task(ImageDeletion, y) <=> y = x
      BY <1>3, TaskEqual
    <3> QED
      BY <1>2, <3>1
  <2>3. /\ images \in Nat /\ freedImages \subseteq Nat
        /\ Balanced(images, ImagesInUse, Owed(ImageDeletion, freedImages))
    BY <1>2 DEF OwnersInv, ImageAccount, NativeTyped
  <2>4. \A y \in Nat : before[y] + (IF y \in freedImages THEN 1 ELSE 0)
                          = IF y \in 1..images /\ y \notin ImagesInUse THEN 1 ELSE 0
    BY <2>3 DEF Balanced, Owed
  <2>5. \A y \in Nat : Owed(ImageDeletion, freedImages)'[y]
                       = now[y] + (IF y \in freedImages' THEN 1 ELSE 0)
    BY DEF Owed
  <2>6. \A y \in Nat :
          Owed(ImageDeletion, freedImages)[y] = before[y] + (IF y \in freedImages THEN 1 ELSE 0)
    BY DEF Owed
  <2> HIDE DEF before, now, x
  <2>7. \A y \in Nat : now[y] + (IF y \in freedImages \cup {x} THEN 1 ELSE 0)
                          = before[y] + (IF y \in freedImages THEN 1 ELSE 0)
    BY <1>3, <2>1, <2>2, <2>3, <2>4, FreeingSettles
  <2>8. \A y \in Nat : Owed(ImageDeletion, freedImages)'[y] = Owed(ImageDeletion, freedImages)[y]
    BY <1>1, <2>5, <2>6, <2>7
  <2>9. freedImages' \subseteq Nat
    BY <1>1, <1>3, <2>3
  <2> QED
    BY <1>1, <1>6, <2>3, <2>8, <2>9 DEF OwnersInv, ImageAccount, Balanced
<1>8. CallsDone'
  BY <1>2, WaitingTypeNext, FewerCalls DEF OwnersInv
<1> QED
  BY <1>2, <1>5, <1>7, <1>8 DEF OwnersInv

LEMMA EraseTextureOwners == ASSUME OwnersInv, EraseTexture PROVE OwnersInv'
<1> USE DEF server, flutter, raster
<1>1. /\ nativeBatch # <<>> /\ nativeBatch' = Tail(nativeBatch)
      /\ Head(nativeBatch).kind = Erasure /\ registered' = None
      /\ freedImages' = freedImages \cup ({registered} \ ({None, registered'} \cup sampled))
      /\ UNCHANGED <<stage, native, chains, images, target, acquiring, raster_target,
                     sampled, freedChains>>
  BY Kinds DEF EraseTexture, IsNext, Registers
<1>2. /\ QueueInv' /\ ReleasedInv' /\ NativeTyped /\ NativeTyped' /\ TornDown' = TornDown
      /\ \A t : Waiting(t)' = Waiting(t) - (IF Head(nativeBatch) = t THEN 1 ELSE 0)
      /\ \A t : Waiting(t) \in Nat
      /\ \A kind : kind # Head(nativeBatch).kind => SameWaiting(kind)
  BY <1>1, BatchStays
<1>3. SameWaiting(Frame) /\ SameWaiting(ChainDeletion) /\ SameWaiting(ImageDeletion)
  BY <1>1, <1>2, Kinds
<1>4. ChainAccount'
  BY <1>1, <1>2, <1>3, ChainsApart DEF OwnersInv
<1>5. ImageAccount'
  BY <1>1, <1>2, <1>3, RegistersSettles DEF OwnersInv
<1>6. CallsDone'
  BY <1>2, WaitingTypeNext, FewerCalls DEF OwnersInv
<1> QED
  BY <1>2, <1>4, <1>5, <1>6 DEF OwnersInv

\* The deleters of dropped chains run while the queue is open.
LEMMA Dropping ==
  ASSUME NativeTyped, ~ native.closed, NEW dropped \in SUBSET Nat, IsFiniteSet(dropped),
         native' = Deleting(native, dropped), nativeBatch' \in Seq(NativeTask),
         chains' \in Nat, images' \in Nat
  PROVE  /\ NativeTyped' /\ ~ native'.closed
         /\ (native.tasks # <<>> => native.readable) => (native'.tasks # <<>> => native'.readable)
         /\ \A kind, n : kind # ChainDeletion =>
              Waiting(Task(kind, n))' = Count(native.tasks, Task(kind, n))
                                          + Count(nativeBatch', Task(kind, n))
         /\ \A n \in Nat :
              Waiting(Task(ChainDeletion, n))' = Count(native.tasks, Task(ChainDeletion, n))
                  + Count(nativeBatch', Task(ChainDeletion, n)) + (IF n \in dropped THEN 1 ELSE 0)
<1>1. /\ native \in NativeQueue /\ native.tasks \in Seq(NativeTask)
  BY DEF NativeTyped, NativeQueue
<1>2. /\ native' \in NativeQueue /\ ~ native'.closed
      /\ (native.tasks # <<>> => native.readable) => (native'.tasks # <<>> => native'.readable)
      /\ \A t : Count(native'.tasks, t) = Count(native.tasks, t) +
                  (IF \E c \in dropped : t = Task(ChainDeletion, c) THEN 1 ELSE 0)
  BY <1>1, QueuedDeletions DEF ChainDeletion
<1>3. NativeTyped'
  BY <1>2 DEF NativeTyped
<1>4. \A t : Count(native.tasks, t) \in Nat /\ Count(nativeBatch', t) \in Nat
  BY <1>1, PlacesFinite
<1>5. \A t : Waiting(t)' = Count(native'.tasks, t) + Count(nativeBatch', t)
  BY DEF Waiting
<1>6. ASSUME NEW kind, NEW n, kind # ChainDeletion
      PROVE  Waiting(Task(kind, n))' = Count(native.tasks, Task(kind, n))
                                         + Count(nativeBatch', Task(kind, n))
  <2>1. ~ \E c \in dropped : Task(kind, n) = Task(ChainDeletion, c)
    BY <1>6, TaskEqual
  <2>2. Count(native'.tasks, Task(kind, n)) = Count(native.tasks, Task(kind, n))
    BY <1>2, <1>4, <2>1
  <2> QED
    BY <1>5, <2>2
<1>7. ASSUME NEW n \in Nat
      PROVE  Waiting(Task(ChainDeletion, n))' = Count(native.tasks, Task(ChainDeletion, n))
               + Count(nativeBatch', Task(ChainDeletion, n)) + (IF n \in dropped THEN 1 ELSE 0)
  <2>1. (\E c \in dropped : Task(ChainDeletion, n) = Task(ChainDeletion, c)) <=> n \in dropped
    BY TaskEqual
  <2>2. Count(native'.tasks, Task(ChainDeletion, n))
          = Count(native.tasks, Task(ChainDeletion, n)) + (IF n \in dropped THEN 1 ELSE 0)
    BY <1>2, <2>1
  <2> QED
    BY <1>4, <1>5, <2>2
<1> QED
  BY <1>2, <1>3, <1>6, <1>7

LEMMA OnesFinite ==
  ASSUME NEW n \in Nat, NEW S, S \subseteq 1..n
  PROVE  S \in SUBSET Nat /\ IsFiniteSet(S)
<1>1. IsFiniteSet(1..n)
  BY FS_Interval
<1>2. 1..n \subseteq Nat
  OBVIOUS
<1> QED
  BY <1>1, <1>2, FS_Subset

(* The holders of chains change, and what nobody refers to any more is queued *)
(* for deletion.                                                             *)
NewChains == (chains + 1)..chains'

LEMMA HeldBy ==
  ASSUME OwnersInv, ~ native.closed, stage' \notin {"closed", "done"}, TornDown' => TornDown,
         native' = Deleting(native, ChainsInUse \ (Holders(target', acquiring', raster_target')
                              \cup Announced(native.tasks) \cup Announced(nativeBatch))),
         UNCHANGED <<nativeBatch, freedChains, images, registered, sampled, freedImages>>,
         chains' \in Nat, chains <= chains', ReleasedInv',
         Holders(target', acquiring', raster_target')
           \subseteq Holders(target, acquiring, raster_target) \cup NewChains,
         NewChains \subseteq Holders(target', acquiring', raster_target')
  PROVE  OwnersInv'
<1> DEFINE frames == {c \in Nat : Waiting(Task(Frame, c)) # 0}
<1>0. PICK dropped : dropped = ChainsInUse \ (Holders(target', acquiring', raster_target') \cup frames)
  OBVIOUS
<1>1. /\ NativeTyped /\ native \in NativeQueue /\ native.tasks \in Seq(NativeTask)
      /\ nativeBatch \in Seq(NativeTask) /\ chains \in Nat /\ images \in Nat
      /\ native.tasks # <<>> => native.readable
  BY DEF OwnersInv, QueueInv, NativeTyped, NativeQueue
<1>2. /\ ChainsInUse = Holders(target, acquiring, raster_target) \cup frames
      /\ Announced(native.tasks) \cup Announced(nativeBatch) = frames
  BY <1>1, UsedChains
<1>3. ChainsInUse \subseteq 1..chains /\ freedChains \subseteq Nat
  BY DEF OwnersInv, ChainAccount, Balanced
<1>4. dropped \in SUBSET Nat /\ IsFiniteSet(dropped)
  <2>1. dropped \subseteq 1..chains
    BY <1>0, <1>3
  <2> QED
    BY <1>1, <2>1, OnesFinite
<1>5. native' = Deleting(native, dropped)
  <2>1. Holders(target', acquiring', raster_target') \cup Announced(native.tasks)
          \cup Announced(nativeBatch) = Holders(target', acquiring', raster_target') \cup frames
    BY <1>2
  <2> QED
    BY <1>0, <2>1
<1>6. /\ NativeTyped' /\ ~ native'.closed
      /\ (native.tasks # <<>> => native.readable) => (native'.tasks # <<>> => native'.readable)
      /\ \A kind, n : kind # ChainDeletion =>
           Waiting(Task(kind, n))' = Count(native.tasks, Task(kind, n))
                                       + Count(nativeBatch', Task(kind, n))
      /\ \A n \in Nat :
           Waiting(Task(ChainDeletion, n))' = Count(native.tasks, Task(ChainDeletion, n))
               + Count(nativeBatch', Task(ChainDeletion, n)) + (IF n \in dropped THEN 1 ELSE 0)
  BY <1>1, <1>4, <1>5, Dropping
<1>7. NativeTyped' /\ \A t : Waiting(t) \in Nat
  BY <1>1, <1>6, WaitingType
<1>8. \A t : Waiting(t) = Count(native.tasks, t) + Count(nativeBatch', t)
  BY DEF Waiting
<1>9. \A kind : kind # ChainDeletion => SameWaiting(kind)
  BY <1>6, <1>8
<1>10. \A n \in Nat : Waiting(Task(ChainDeletion, n))'
                        = Waiting(Task(ChainDeletion, n)) + (IF n \in dropped THEN 1 ELSE 0)
  BY <1>6, <1>8
<1>11. SameWaiting(Frame) /\ SameWaiting(ImageDeletion) /\ SameWaiting(Erasure) /\ SameWaiting(Call)
  BY <1>9, Kinds
<1>12. ChainsInUse' = Holders(target', acquiring', raster_target') \cup frames
  BY <1>7, <1>11, UsedChainsNext
<1>13. dropped = ChainsInUse \ ChainsInUse'
  BY <1>0, <1>12
<1>14. ChainsInUse' \subseteq ChainsInUse \cup NewChains /\ NewChains \subseteq ChainsInUse'
  BY <1>2, <1>12
<1>15. Created(chains, chains', ChainsInUse, ChainsInUse')
  BY <1>1, <1>14 DEF Created, NewChains
<1>16. Settled(ChainsInUse, ChainsInUse', Owed(ChainDeletion, freedChains),
               Owed(ChainDeletion, freedChains)')
  <2> SUFFICES ASSUME NEW x \in Nat
               PROVE  Owed(ChainDeletion, freedChains)'[x] = Owed(ChainDeletion, freedChains)[x]
                        + (IF x \in ChainsInUse /\ x \notin ChainsInUse' THEN 1 ELSE 0)
    BY DEF Settled
  <2>1. /\ Owed(ChainDeletion, freedChains)'[x]
             = Waiting(Task(ChainDeletion, x))' + (IF x \in freedChains THEN 1 ELSE 0)
        /\ Owed(ChainDeletion, freedChains)[x]
             = Waiting(Task(ChainDeletion, x)) + (IF x \in freedChains THEN 1 ELSE 0)
    BY DEF Owed
  <2>2. Waiting(Task(ChainDeletion, x)) \in Nat
    BY <1>7
  <2>3. x \in dropped <=> x \in ChainsInUse /\ x \notin ChainsInUse'
    BY <1>13
  <2> QED
    BY <1>10, <2>1, <2>2, <2>3
<1>17. freedChains' \subseteq Nat
  BY <1>3
<1>18. ChainAccount'
  BY <1>15, <1>16, <1>17, ChainsStep DEF OwnersInv
<1>19. ImageAccount' /\ CallsDone'
  BY <1>11, ImagesApart, CallsApart DEF OwnersInv
<1>20. QueueInv'
  BY <1>1, <1>6, <1>7 DEF QueueInv
<1> QED
  BY <1>18, <1>19, <1>20 DEF OwnersInv

LEMMA ReplaceTargetOwners == ASSUME OwnersInv, EngineInv, ReplaceTarget PROVE OwnersInv'
<1> USE DEF server, flutter, raster
<1>1. PICK next \in {None, chains + 1} :
        /\ chains' = (IF next = None THEN chains ELSE next) /\ target' = next
        /\ native' = Deleting(native, ChainsInUse \ (Holders(next, acquiring, raster_target)
                             \cup Announced(native.tasks) \cup Announced(nativeBatch)))
  BY DEF ReplaceTarget, NativeWhenHeldBy
<1>2. /\ stage = "running" /\ stage' = stage
      /\ UNCHANGED <<nativeBatch, freedChains, images, registered, sampled, freedImages,
                     acquiring, raster_target>>
  BY DEF ReplaceTarget, Serving
<1>3. ~ native.closed /\ chains \in Nat
  BY <1>2 DEF OwnersInv, QueueInv, NativeTyped
<1>4. native' = Deleting(native, ChainsInUse \ (Holders(target', acquiring', raster_target')
                           \cup Announced(native.tasks) \cup Announced(nativeBatch)))
  BY <1>1, <1>2
<1>5. ~ TornDown /\ ~ TornDown' /\ ReleasedInv' /\ stage' \notin {"closed", "done"}
  BY <1>2 DEF TornDown, ReleasedInv
<1>6. CASE next = None
  <2>1. chains' = chains /\ NewChains = {}
    BY <1>1, <1>3, <1>6 DEF NewChains
  <2>2. Holders(target', acquiring', raster_target') \subseteq Holders(target, acquiring, raster_target)
    BY <1>1, <1>2, <1>6 DEF Holders
  <2> QED
    BY <1>2, <1>3, <1>4, <1>5, <2>1, <2>2, HeldBy
<1>7. CASE next # None
  <2>1. next = chains + 1 /\ chains' = chains + 1 /\ NewChains = {next}
    BY <1>1, <1>3, <1>7 DEF NewChains
  <2>2. /\ Holders(target', acquiring', raster_target')
             \subseteq Holders(target, acquiring, raster_target) \cup {next}
        /\ next \in Holders(target', acquiring', raster_target')
    BY <1>1, <1>2, <1>7 DEF Holders
  <2>3. chains' \in Nat /\ chains <= chains'
    BY <1>3, <2>1
  <2> QED
    BY <1>2, <1>3, <1>4, <1>5, <2>1, <2>2, <2>3, HeldBy
<1> QED
  BY <1>6, <1>7

\* The steps at which a holder only lets go, or takes what another holds.
LEMMA LettingGo ==
  ASSUME OwnersInv, EngineInv,
         JoinEngine \/ DestroyOutputs \/ AttachFramebuffer \/ WriteStarts \/ WriteRefused
  PROVE  OwnersInv'
<1> USE DEF server, flutter, raster, owned
<1>1. UNCHANGED <<nativeBatch, chains, freedChains, images, registered, sampled, freedImages>>
  BY DEF JoinEngine, DestroyOutputs, AttachFramebuffer, WriteStarts, WriteRefused
<1>2. native' = Deleting(native, ChainsInUse \ (Holders(target', acquiring', raster_target')
                           \cup Announced(native.tasks) \cup Announced(nativeBatch)))
  BY DEF JoinEngine, DestroyOutputs, AttachFramebuffer, WriteStarts, WriteRefused, NativeWhenHeldBy
<1>3. CASE JoinEngine
  <2>1. stage = "stopping" /\ stage' = "joined" /\ raster_target' = None /\ target' = target
        /\ acquiring' = acquiring
    BY <1>3 DEF JoinEngine
  <2>2. Holders(target', acquiring', raster_target') \subseteq Holders(target, acquiring, raster_target)
    BY <2>1 DEF Holders
  <2>3. ~ TornDown' /\ ReleasedInv'
    BY <2>1 DEF TornDown, ReleasedInv
  <2>4. stage \notin {"closed", "done"} /\ stage' \notin {"closed", "done"}
    BY <2>1
  <2>5. ~ native.closed /\ chains \in Nat
    BY <2>4 DEF OwnersInv, QueueInv, NativeTyped
  <2>6. NewChains = {} /\ chains' \in Nat /\ chains <= chains'
    BY <1>1, <2>5 DEF NewChains
  <2> QED
    BY <1>1, <1>2, <2>2, <2>3, <2>4, <2>5, <2>6, HeldBy
<1>4. CASE DestroyOutputs
  <2>1. stage = "clients gone" /\ stage' = "outputs gone" /\ target' = None
        /\ acquiring' = acquiring /\ raster_target' = raster_target
    BY <1>4 DEF DestroyOutputs
  <2>2. Holders(target', acquiring', raster_target') \subseteq Holders(target, acquiring, raster_target)
    BY <2>1 DEF Holders
  <2>3. TornDown /\ TornDown' /\ ReleasedInv'
    BY <1>1, <2>1 DEF OwnersInv, TornDown, ReleasedInv
  <2>4. stage \notin {"closed", "done"} /\ stage' \notin {"closed", "done"}
    BY <2>1
  <2>5. ~ native.closed /\ chains \in Nat
    BY <2>4 DEF OwnersInv, QueueInv, NativeTyped
  <2>6. NewChains = {} /\ chains' \in Nat /\ chains <= chains'
    BY <1>1, <2>5 DEF NewChains
  <2> QED
    BY <1>1, <1>2, <2>2, <2>3, <2>4, <2>5, <2>6, HeldBy
<1>5. CASE AttachFramebuffer \/ WriteStarts \/ WriteRefused
  <2>1. /\ RasterRuns /\ stage' = stage /\ target' = target
        /\ acquiring' \in {target, None} /\ raster_target' \in {raster_target, acquiring, None}
    BY <1>5 DEF AttachFramebuffer, WriteStarts, WriteRefused, RasterRuns
  <2>2. Holders(target', acquiring', raster_target') \subseteq Holders(target, acquiring, raster_target)
    BY <2>1 DEF Holders
  <2>3. stage \notin {"closed", "done"} /\ ~ TornDown
    BY <2>1 DEF EngineInv, Late, TornDown
  <2>4. stage' \notin {"closed", "done"} /\ ~ TornDown'
    BY <2>1, <2>3 DEF TornDown
  <2>5. ReleasedInv'
    BY <2>4 DEF ReleasedInv, TornDown
  <2>6. ~ native.closed /\ chains \in Nat
    BY <2>3 DEF OwnersInv, QueueInv, NativeTyped
  <2>7. NewChains = {} /\ chains' \in Nat /\ chains <= chains'
    BY <1>1, <2>6 DEF NewChains
  <2> QED
    BY <1>1, <1>2, <2>2, <2>3, <2>4, <2>5, <2>6, <2>7, HeldBy
<1> QED
  BY <1>3, <1>4, <1>5

LEMMA TakeNativeOwners == ASSUME OwnersInv, TakeNative PROVE OwnersInv'
<1> USE DEF server, flutter, raster, owned
<1>1. /\ nativeBatch = <<>> /\ native.readable /\ nativeBatch' = native.tasks
      /\ native' = [native EXCEPT !.tasks = <<>>, !.readable = FALSE]
      /\ UNCHANGED <<stage, chains, target, acquiring, raster_target, freedChains, images,
                     registered, sampled, freedImages>>
  BY DEF TakeNative, Taken
<1>2. /\ NativeTyped /\ native \in NativeQueue /\ native.tasks \in Seq(NativeTask)
      /\ native'.tasks = <<>> /\ native'.closed = native.closed /\ native'.readable = FALSE
      /\ native' \in [tasks : {<<>>}, readable : BOOLEAN, closed : BOOLEAN]
  BY <1>1 DEF OwnersInv, QueueInv, NativeTyped, NativeQueue
<1>3. NativeTyped'
  <2>1. <<>> \in Seq(NativeTask)
    BY EmptySeq
  <2> QED
    BY <1>1, <1>2, <2>1 DEF NativeTyped, NativeQueue
<1>4. QueueInv' /\ ReleasedInv' /\ TornDown' = TornDown
  BY <1>1, <1>2, <1>3 DEF OwnersInv, QueueInv, ReleasedInv, TornDown
<1>5. \A t : Waiting(t)' = Waiting(t)
  <2>1. \A t : /\ Count(native.tasks, t) \in Nat
               /\ Count(native'.tasks, t) = 0 /\ Count(nativeBatch, t) = 0
               /\ Count(nativeBatch', t) = Count(native.tasks, t)
    BY <1>1, <1>2, CountNone, PlacesFinite
  <2> QED
    BY <2>1 DEF Waiting
<1>6. \A kind : SameWaiting(kind)
  BY <1>5
<1> QED
  BY <1>1, <1>2, <1>3, <1>4, <1>6, ChainsApart, ImagesApart, CallsApart DEF OwnersInv

\* With the task that announces a frame goes its hold of the chain.
LEMMA AnnounceFrameOwners == ASSUME OwnersInv, AnnounceFrame PROVE OwnersInv'
<1> USE DEF server, flutter, raster, owned
<1> DEFINE x == Head(nativeBatch).of
           later == Holders(target, acquiring, raster_target) \cup Announced(native.tasks)
                      \cup Announced(nativeBatch')
<1>1. /\ nativeBatch # <<>> /\ nativeBatch' = Tail(nativeBatch)
      /\ Head(nativeBatch).kind = Frame /\ native' = Deleting(native, {x} \ later)
      /\ UNCHANGED <<stage, chains, target, acquiring, raster_target, freedChains, images,
                     registered, sampled, freedImages>>
  BY Kinds DEF AnnounceFrame, IsNext
<1>2. /\ NativeTyped /\ native.tasks \in Seq(NativeTask) /\ nativeBatch \in Seq(NativeTask)
      /\ ~ native.closed /\ chains \in Nat /\ images \in Nat
      /\ native.tasks # <<>> => native.readable
  BY <1>1 DEF OwnersInv, QueueInv, NativeTyped, NativeQueue
<1>3. nativeBatch' \in Seq(NativeTask) /\ Head(nativeBatch) \in NativeTask
  BY <1>1, <1>2
<1>4. x \in Nat /\ Head(nativeBatch) = Task(Frame, x)
  BY <1>1, <1>3 DEF NativeTask, Task
<1>5. \A t : /\ Count(nativeBatch', t)
                  = Count(nativeBatch, t) - (IF Head(nativeBatch) = t THEN 1 ELSE 0)
             /\ Count(native.tasks, t) \in Nat /\ Count(nativeBatch, t) \in Nat
             /\ Count(nativeBatch', t) \in Nat
  BY <1>1, <1>2, <1>3, CountTail, PlacesFinite
<1>6. PICK dropped : dropped = {x} \ later
  OBVIOUS
<1>7. dropped \in SUBSET Nat /\ IsFiniteSet(dropped)
  <2>1. IsFiniteSet({x})
    BY FS_Singleton
  <2> QED
    BY <1>4, <1>6, <2>1, FS_Subset
<1>8. native' = Deleting(native, dropped)
  BY <1>1, <1>6
<1>9. /\ NativeTyped' /\ ~ native'.closed
      /\ (native.tasks # <<>> => native.readable) => (native'.tasks # <<>> => native'.readable)
      /\ \A kind, n : kind # ChainDeletion =>
           Waiting(Task(kind, n))' = Count(native.tasks, Task(kind, n))
                                       + Count(nativeBatch', Task(kind, n))
      /\ \A n \in Nat :
           Waiting(Task(ChainDeletion, n))' = Count(native.tasks, Task(ChainDeletion, n))
               + Count(nativeBatch', Task(ChainDeletion, n)) + (IF n \in dropped THEN 1 ELSE 0)
  <2>1. chains' \in Nat /\ images' \in Nat
    BY <1>1, <1>2
  <2> QED
    BY <1>2, <1>3, <1>7, <1>8, <2>1, Dropping
<1>10. \A t : Waiting(t) = Count(native.tasks, t) + Count(nativeBatch, t)
  BY DEF Waiting
<1>11. \A kind, n : kind # Frame => Head(nativeBatch) # Task(kind, n)
  BY <1>4, TaskEqual
<1>12. \A kind : kind # ChainDeletion /\ kind # Frame => SameWaiting(kind)
  <2> SUFFICES ASSUME NEW kind, kind # ChainDeletion, kind # Frame, NEW n
               PROVE  Waiting(Task(kind, n))' = Waiting(Task(kind, n))
    OBVIOUS
  <2>1. Count(nativeBatch', Task(kind, n)) = Count(nativeBatch, Task(kind, n))
    BY <1>5, <1>11
  <2> QED
    BY <1>9, <1>10, <2>1
<1>13. SameWaiting(ImageDeletion) /\ SameWaiting(Erasure) /\ SameWaiting(Call)
  BY <1>12, Kinds
<1>14. \A n \in Nat : Waiting(Task(ChainDeletion, n))'
                        = Waiting(Task(ChainDeletion, n)) + (IF n \in dropped THEN 1 ELSE 0)
  <2> SUFFICES ASSUME NEW n \in Nat
               PROVE  Waiting(Task(ChainDeletion, n))'
                        = Waiting(Task(ChainDeletion, n)) + (IF n \in dropped THEN 1 ELSE 0)
    OBVIOUS
  <2>1. Head(nativeBatch) # Task(ChainDeletion, n)
    BY <1>11, Kinds
  <2>2. Count(nativeBatch', Task(ChainDeletion, n)) = Count(nativeBatch, Task(ChainDeletion, n))
    BY <1>5, <2>1
  <2> QED
    BY <1>9, <1>10, <2>2
<1>15. \A n : Waiting(Task(Frame, n))' = Count(native.tasks, Task(Frame, n))
                                           + Count(nativeBatch', Task(Frame, n))
  BY <1>9, Kinds
<1>16. ChainsInUse' = later
  <2>1. ChainsInUse' = Holders(target, acquiring, raster_target)
                         \cup {c \in Nat : Waiting(Task(Frame, c))' # 0}
    BY <1>1, <1>9, UsedChainsNext
  <2>2. /\ Announced(native.tasks) = {c \in Nat : Count(native.tasks, Task(Frame, c)) # 0}
        /\ Announced(nativeBatch') = {c \in Nat : Count(nativeBatch', Task(Frame, c)) # 0}
    BY <1>2, <1>3, AnnouncedCount DEF Frame
  <2>3. \A c : c \in Announced(native.tasks) \cup Announced(nativeBatch')
                 <=> c \in Nat /\ Waiting(Task(Frame, c))' # 0
    BY <1>5, <1>15, <2>2
  <2> QED
    BY <2>1, <2>3
<1>17. ChainsInUse = later \cup {x}
  <2>1. /\ Announced(native.tasks) = {c \in Nat : Count(native.tasks, Task(Frame, c)) # 0}
        /\ Announced(nativeBatch') = {c \in Nat : Count(nativeBatch', Task(Frame, c)) # 0}
        /\ Announced(nativeBatch) = {c \in Nat : Count(nativeBatch, Task(Frame, c)) # 0}
    BY <1>2, <1>3, AnnouncedCount DEF Frame
  <2>2. \A c \in Nat : Head(nativeBatch) = Task(Frame, c) <=> c = x
    BY <1>4, TaskEqual
  <2>3. \A c \in Nat : c # x => Count(nativeBatch', Task(Frame, c)) = Count(nativeBatch, Task(Frame, c))
    BY <1>5, <2>2
  <2>4. Count(nativeBatch, Task(Frame, x)) # 0
    BY <1>4, <1>5
  <2>5. \A c : c \in Announced(nativeBatch) <=> c \in Announced(nativeBatch') \/ c = x
    BY <1>4, <2>1, <2>3, <2>4
  <2> QED
    BY <2>5 DEF ChainsInUse
<1>18. dropped = ChainsInUse \ ChainsInUse'
  BY <1>6, <1>16, <1>17
<1> HIDE DEF later, x
<1>19. Created(chains, chains', ChainsInUse, ChainsInUse')
  <2>1. (chains + 1)..chains' = {} /\ chains <= chains' /\ chains' \in Nat
    BY <1>1, <1>2
  <2> QED
    BY <1>2, <1>16, <1>17, <2>1 DEF Created
<1>20. Settled(ChainsInUse, ChainsInUse', Owed(ChainDeletion, freedChains),
               Owed(ChainDeletion, freedChains)')
  <2> SUFFICES ASSUME NEW n \in Nat
               PROVE  Owed(ChainDeletion, freedChains)'[n] = Owed(ChainDeletion, freedChains)[n]
                        + (IF n \in ChainsInUse /\ n \notin ChainsInUse' THEN 1 ELSE 0)
    BY DEF Settled
  <2>1. /\ Owed(ChainDeletion, freedChains)'[n]
             = Waiting(Task(ChainDeletion, n))' + (IF n \in freedChains THEN 1 ELSE 0)
        /\ Owed(ChainDeletion, freedChains)[n]
             = Waiting(Task(ChainDeletion, n)) + (IF n \in freedChains THEN 1 ELSE 0)
    BY <1>1 DEF Owed
  <2>2. Waiting(Task(ChainDeletion, n)) \in Nat
    BY <1>2, WaitingType
  <2>3. n \in dropped <=> n \in ChainsInUse /\ n \notin ChainsInUse'
    BY <1>18
  <2> QED
    BY <1>14, <2>1, <2>2, <2>3
<1>21. ChainAccount'
  <2>1. freedChains' \subseteq Nat
    BY <1>1 DEF OwnersInv, ChainAccount
  <2> QED
    BY <1>19, <1>20, <2>1, ChainsStep DEF OwnersInv
<1>22. TornDown' = TornDown /\ ReleasedInv' /\ stage \notin {"closed", "done"}
  BY <1>1, <1>2 DEF OwnersInv, QueueInv, TornDown, ReleasedInv
<1>23. ImageAccount' /\ CallsDone'
  BY <1>1, <1>13, <1>22, ImagesApart, CallsApart DEF OwnersInv
<1>24. QueueInv'
  BY <1>1, <1>2, <1>9, <1>22 DEF QueueInv
<1> QED
  BY <1>21, <1>22, <1>23, <1>24 DEF OwnersInv

\* The raster thread's hold of the chain passes to the task.
LEMMA PresentOwners == ASSUME OwnersInv, EngineInv, Present PROVE OwnersInv'
<1> USE DEF server, flutter, raster, owned
<1> DEFINE x == raster_target
<1>1. /\ RasterRuns /\ acquiring = None /\ x # None /\ raster_target' = None
      /\ native' = Enqueue(native, Task(Frame, x))
      /\ UNCHANGED <<stage, nativeBatch, chains, target, acquiring, freedChains, images,
                     registered, sampled, freedImages>>
  BY Kinds DEF Present
<1>2. NativeTyped /\ ~ native.closed
  BY <1>1, OpenQueue DEF OwnersInv, QueueInv
<1>3. x \in ChainsInUse /\ ChainsInUse \subseteq 1..chains /\ chains \in Nat
  BY <1>1, <1>2 DEF ChainsInUse, Holders, OwnersInv, ChainAccount, Balanced, NativeTyped
<1>4. Task(Frame, x) \in NativeTask
  <2>1. x \in 1..chains
    BY <1>3
  <2>2. x \in Nat
    BY <1>3, <2>1
  <2> QED
    BY <2>2, Kinds DEF NativeTask, Task
<1>5. /\ NativeTyped' /\ ~ native'.closed /\ native'.readable
      /\ \A t : Waiting(t)' = Waiting(t) + (IF Task(Frame, x) = t THEN 1 ELSE 0)
  BY <1>1, <1>2, <1>4, Queued
<1>6. \A t : Waiting(t) \in Nat
  BY <1>2, WaitingType
<1>7. \A kind : kind # Frame => SameWaiting(kind)
  <2> SUFFICES ASSUME NEW kind, kind # Frame, NEW n
               PROVE  Waiting(Task(kind, n))' = Waiting(Task(kind, n))
    OBVIOUS
  <2>1. Task(Frame, x) # Task(kind, n)
    BY TaskEqual
  <2> QED
    BY <1>5, <1>6, <2>1
<1>8. /\ SameWaiting(ChainDeletion) /\ SameWaiting(ImageDeletion)
      /\ SameWaiting(Erasure) /\ SameWaiting(Call)
  BY <1>7, Kinds
<1>9. \A c \in Nat : Waiting(Task(Frame, c))' # 0 <=> Waiting(Task(Frame, c)) # 0 \/ c = x
  <2> SUFFICES ASSUME NEW c \in Nat
               PROVE  Waiting(Task(Frame, c))' # 0 <=> Waiting(Task(Frame, c)) # 0 \/ c = x
    OBVIOUS
  <2>1. Task(Frame, x) = Task(Frame, c) <=> c = x
    BY TaskEqual
  <2> QED
    BY <1>5, <1>6, <2>1
<1>10. ChainsInUse' = ChainsInUse
  <2>1. ChainsInUse = ({target, acquiring, x} \ {None}) \cup {c \in Nat : Waiting(Task(Frame, c)) # 0}
    BY <1>2, UsedChains DEF Holders
  <2>2. ChainsInUse' = ({target, acquiring, None} \ {None})
                         \cup {c \in Nat : Waiting(Task(Frame, c))' # 0}
    BY <1>1, <1>5, UsedChainsNext DEF Holders
  <2>3. x \in Nat
    BY <1>3
  <2> HIDE DEF x
  <2> QED
    BY <1>1, <1>9, <2>1, <2>2, <2>3
<1>11. Owed(ChainDeletion, freedChains)' = Owed(ChainDeletion, freedChains)
  BY <1>1, <1>8 DEF Owed
<1>12. ChainAccount'
  BY <1>1, <1>10, <1>11 DEF OwnersInv, ChainAccount
<1>13. TornDown' = TornDown /\ ReleasedInv'
  BY <1>1 DEF OwnersInv, TornDown, ReleasedInv
<1>14. QueueInv'
  BY <1>1, <1>2, <1>5 DEF OwnersInv, QueueInv
<1>15. ImageAccount' /\ CallsDone'
  BY <1>1, <1>8, <1>13, ImagesApart, CallsApart DEF OwnersInv
<1> QED
  BY <1>12, <1>13, <1>14, <1>15 DEF OwnersInv

LEMMA SampleTextureOwners == ASSUME OwnersInv, SampleTexture PROVE OwnersInv'
<1> USE DEF server, flutter, raster, queues
<1>1. /\ registered # None /\ sampled' = sampled \cup {registered}
      /\ UNCHANGED <<stage, native, nativeBatch, chains, target, acquiring, raster_target,
                     freedChains, images, registered, freedImages>>
  BY DEF SampleTexture
<1>2. ImagesInUse' = ImagesInUse
  BY <1>1 DEF ImagesInUse
<1>3. \A t : Waiting(t)' = Waiting(t)
  BY <1>1 DEF Waiting
<1>4. \A kind : SameWaiting(kind)
  BY <1>3
<1>5. Owed(ImageDeletion, freedImages)' = Owed(ImageDeletion, freedImages)
  BY <1>1, <1>3 DEF Owed
<1>6. ImageAccount'
  BY <1>1, <1>2, <1>5 DEF OwnersInv, ImageAccount
<1>7. NativeTyped /\ NativeTyped' /\ QueueInv' /\ ReleasedInv' /\ TornDown' = TornDown
  BY <1>1 DEF OwnersInv, QueueInv, NativeTyped, ReleasedInv, TornDown
<1> QED
  BY <1>1, <1>4, <1>6, <1>7, ChainsApart, CallsApart DEF OwnersInv

\* Flutter lets go of a frame: it is owed its deletion unless it is still registered.
LEMMA ReleaseTextureOwners == ASSUME OwnersInv, EngineInv, ReleaseTexture PROVE OwnersInv'
<1> USE DEF server, flutter, raster, queues
<1>1. PICK image \in sampled :
        /\ sampled' = sampled \ {image}
        /\ native' = IF image = registered THEN native
                     ELSE Enqueue(native, Task(ImageDeletion, image))
  BY Kinds DEF ReleaseTexture
<1>2. /\ RasterRuns
      /\ UNCHANGED <<stage, nativeBatch, chains, target, acquiring, raster_target,
                     freedChains, images, registered, freedImages>>
  BY DEF ReleaseTexture
<1>3. NativeTyped /\ ~ native.closed
  BY <1>2, OpenQueue DEF OwnersInv, QueueInv
<1>4. TornDown' = TornDown /\ ReleasedInv' /\ ~ TornDown
  BY <1>2 DEF OwnersInv, EngineInv, Late, TornDown, ReleasedInv
<1>5. CallsDone'
  BY <1>4 DEF CallsDone
<1>6. CASE image = registered
  <2>1. native' = native
    BY <1>1, <1>6
  <2>2. \A t : Waiting(t)' = Waiting(t)
    BY <1>2, <2>1 DEF Waiting
  <2>3. \A kind : SameWaiting(kind)
    BY <2>2
  <2>4. ImagesInUse' = ImagesInUse
    BY <1>1, <1>2, <1>6 DEF ImagesInUse
  <2>5. Owed(ImageDeletion, freedImages)' = Owed(ImageDeletion, freedImages)
    BY <1>2, <2>2 DEF Owed
  <2>6. ImageAccount'
    BY <1>1, <1>2, <2>4, <2>5 DEF OwnersInv, ImageAccount
  <2>7. NativeTyped' /\ QueueInv'
    BY <1>2, <2>1 DEF OwnersInv, QueueInv, NativeTyped
  <2> QED
    BY <1>2, <1>3, <1>4, <1>5, <2>3, <2>6, <2>7, ChainsApart DEF OwnersInv
<1>7. CASE image # registered
  <2>1. native' = Enqueue(native, Task(ImageDeletion, image))
    BY <1>1, <1>7
  <2>2. ImagesInUse \subseteq 1..images /\ images \in Nat /\ freedImages \subseteq Nat
    BY <1>3 DEF OwnersInv, ImageAccount, Balanced, NativeTyped
  <2>3. image # None /\ image \in ImagesInUse /\ image \in Nat
    <3>1. image # None /\ image \in ImagesInUse
      BY DEF OwnersInv, ImageAccount, ImagesInUse
    <3>2. image \in 1..images
      BY <2>2, <3>1
    <3> QED
      BY <2>2, <3>1, <3>2
  <2>4. Task(ImageDeletion, image) \in NativeTask
    BY <2>3, Kinds DEF NativeTask, Task
  <2>5. /\ NativeTyped' /\ ~ native'.closed /\ native'.readable
        /\ \A t : Waiting(t)' = Waiting(t) + (IF Task(ImageDeletion, image) = t THEN 1 ELSE 0)
    BY <1>2, <1>3, <2>1, <2>4, Queued
  <2>6. \A t : Waiting(t) \in Nat
    BY <1>3, WaitingType
  <2>7. \A kind : kind # ImageDeletion => SameWaiting(kind)
    <3> SUFFICES ASSUME NEW kind, kind # ImageDeletion, NEW n
                 PROVE  Waiting(Task(kind, n))' = Waiting(Task(kind, n))
      OBVIOUS
    <3>1. Task(ImageDeletion, image) # Task(kind, n)
      BY TaskEqual
    <3> QED
      BY <2>5, <2>6, <3>1
  <2>8. SameWaiting(Frame) /\ SameWaiting(ChainDeletion)
    BY <2>7, Kinds
  <2>9. ChainAccount'
    BY <1>2, <1>3, <2>5, <2>8, ChainsApart DEF OwnersInv
  <2>10. ImagesInUse' = ImagesInUse \ {image}
    BY <1>1, <1>2, <1>7 DEF ImagesInUse
  <2>11. Created(images, images', ImagesInUse, ImagesInUse')
    <3>1. (images + 1)..images' = {} /\ images <= images' /\ images' \in Nat
      BY <1>2, <2>2
    <3> QED
      BY <2>2, <2>10, <3>1 DEF Created
  <2>12. Settled(ImagesInUse, ImagesInUse', Owed(ImageDeletion, freedImages),
                 Owed(ImageDeletion, freedImages)')
    <3> SUFFICES ASSUME NEW n \in Nat
                 PROVE  Owed(ImageDeletion, freedImages)'[n] = Owed(ImageDeletion, freedImages)[n]
                          + (IF n \in ImagesInUse /\ n \notin ImagesInUse' THEN 1 ELSE 0)
      BY DEF Settled
    <3>1. /\ Owed(ImageDeletion, freedImages)'[n]
               = Waiting(Task(ImageDeletion, n))' + (IF n \in freedImages THEN 1 ELSE 0)
          /\ Owed(ImageDeletion, freedImages)[n]
               = Waiting(Task(ImageDeletion, n)) + (IF n \in freedImages THEN 1 ELSE 0)
      BY <1>2 DEF Owed
    <3>2. Task(ImageDeletion, image) = Task(ImageDeletion, n) <=> n = image
      BY TaskEqual
    <3>3. Waiting(Task(ImageDeletion, n))'
            = Waiting(Task(ImageDeletion, n)) + (IF n = image THEN 1 ELSE 0)
      BY <2>5, <3>2
    <3>4. n \in ImagesInUse /\ n \notin ImagesInUse' <=> n = image
      BY <2>3, <2>10
    <3>5. Waiting(Task(ImageDeletion, n)) \in Nat
      BY <2>6
    <3> QED
      BY <3>1, <3>3, <3>4, <3>5
  <2>13. ImageAccount'
    <3>1. freedImages' \subseteq Nat /\ None \notin sampled'
      BY <1>1, <1>2 DEF OwnersInv, ImageAccount
    <3> QED
      BY <2>11, <2>12, <3>1, ImagesStep DEF OwnersInv
  <2>14. QueueInv'
    BY <1>2, <1>3, <2>5 DEF OwnersInv, QueueInv
  <2> QED
    BY <1>4, <1>5, <2>9, <2>13, <2>14 DEF OwnersInv
<1> QED
  BY <1>6, <1>7

LEMMA PublishImageOwners == ASSUME OwnersInv, PublishImage PROVE OwnersInv'
<1> USE DEF server, flutter, raster, queues
<1>1. /\ stage = "running" /\ images' = images + 1 /\ registered' = images'
      /\ freedImages' = freedImages \cup ({registered} \ ({None, registered'} \cup sampled))
      /\ UNCHANGED <<stage, native, nativeBatch, chains, target, acquiring, raster_target,
                     freedChains, sampled>>
  BY DEF PublishImage, Serving, Registers
<1>2. NativeTyped /\ NativeTyped' /\ QueueInv'
  BY <1>1 DEF OwnersInv, QueueInv, NativeTyped
<1>3. \A t : Waiting(t)' = Waiting(t)
  BY <1>1 DEF Waiting
<1>4. \A kind : SameWaiting(kind)
  BY <1>3
<1>5. ~ TornDown' /\ ReleasedInv'
  BY <1>1 DEF TornDown, ReleasedInv
<1>6. CallsDone' /\ ChainAccount'
  BY <1>1, <1>2, <1>4, <1>5, ChainsApart DEF CallsDone, OwnersInv
<1>7. ImageAccount'
  BY <1>1, <1>2, <1>4, RegistersSettles DEF OwnersInv
<1> QED
  BY <1>2, <1>5, <1>6, <1>7 DEF OwnersInv

\* Nothing waits when the clients go: no call is left.
LEMMA DestroyClientsOwners == ASSUME OwnersInv, DestroyClients PROVE OwnersInv'
<1> USE DEF server, flutter, raster, queues
<1>1. /\ stage = "joined" /\ stage' = "clients gone" /\ registered' = None
      /\ ~ native.readable /\ nativeBatch = <<>>
      /\ freedImages' = freedImages \cup ({registered} \ ({None, registered'} \cup sampled))
      /\ UNCHANGED <<native, nativeBatch, chains, target, acquiring, raster_target,
                     freedChains, images, sampled>>
  BY DEF DestroyClients, Drained, Registers
<1>2. NativeTyped /\ NativeTyped' /\ QueueInv' /\ native.tasks = <<>>
  BY <1>1 DEF OwnersInv, QueueInv, NativeTyped
<1>3. \A t : Waiting(t)' = Waiting(t) /\ Waiting(t) = 0
  <2>1. \A t : Count(native.tasks, t) = 0 /\ Count(nativeBatch, t) = 0
    BY <1>1, <1>2, CountNone
  <2>2. native' = native /\ nativeBatch' = nativeBatch
    BY <1>1
  <2> QED
    BY <2>1, <2>2 DEF Waiting
<1>4. \A kind : SameWaiting(kind)
  BY <1>3
<1>5. ReleasedInv'
  BY <1>1 DEF ReleasedInv
<1>6. CallsDone'
  BY <1>3 DEF CallsDone
<1>7. ChainAccount'
  BY <1>1, <1>2, <1>4, ChainsApart DEF OwnersInv
<1>8. ImageAccount'
  BY <1>1, <1>2, <1>4, RegistersSettles DEF OwnersInv
<1> QED
  BY <1>2, <1>5, <1>6, <1>7, <1>8 DEF OwnersInv

LEMMA CloseNativeQueueOwners == ASSUME OwnersInv, CloseNativeQueue PROVE OwnersInv'
<1> USE DEF flutter, raster, owned
<1>1. /\ stage = "embedder gone" /\ stage' = "closed" /\ ~ native.readable /\ nativeBatch = <<>>
      /\ UNCHANGED <<nativeBatch, chains, target, acquiring, raster_target,
                     freedChains, images, registered, sampled, freedImages>>
  BY DEF CloseNativeQueue, Drained
<1>2. NativeTyped /\ native.tasks = <<>> /\ ~ native.closed
  BY <1>1 DEF OwnersInv, QueueInv
<1>3. native' = [tasks |-> <<>>, readable |-> TRUE, closed |-> TRUE]
  <2>1. <<>> \o <<>> = <<>>
    BY EmptySeq
  <2>2. native' = Close(native, <<>>)
    BY DEF CloseNativeQueue
  <2> QED
    BY <1>2, <2>1, <2>2 DEF Close
<1>4. NativeTyped'
  <2>1. <<>> \in Seq(NativeTask)
    BY EmptySeq
  <2>2. native' \in NativeQueue
    BY <1>3, <2>1 DEF NativeQueue
  <2> QED
    BY <1>1, <1>2, <2>2 DEF NativeTyped
<1>5. QueueInv' /\ ReleasedInv' /\ TornDown
  <2>1. native'.tasks = <<>> /\ native'.readable /\ native'.closed /\ nativeBatch' = <<>>
    BY <1>1, <1>3
  <2>2. QueueInv'
    BY <1>1, <1>4, <2>1 DEF QueueInv
  <2>3. registered' = None /\ target' = None /\ TornDown
    BY <1>1 DEF OwnersInv, ReleasedInv, TornDown
  <2> QED
    BY <2>2, <2>3 DEF ReleasedInv
<1>6. \A t : Waiting(t)' = Waiting(t)
  <2>1. native'.tasks = native.tasks /\ nativeBatch' = nativeBatch
    BY <1>1, <1>2, <1>3
  <2> QED
    BY <2>1 DEF Waiting
<1>7. \A kind : SameWaiting(kind)
  BY <1>6
<1> QED
  BY <1>1, <1>2, <1>4, <1>5, <1>7, ChainsApart, ImagesApart, CallsApart DEF OwnersInv

LEMMA OwnersNext == ASSUME Inv, EngineInv, OwnersInv, [Next]_vars PROVE OwnersInv'
<1> USE DEF server, queues, flutter
<1>1. CASE StartupFails \/ StopEngine
  <2>1. ~ TornDown /\ ~ TornDown' /\ UNCHANGED <<native, nativeBatch, raster, owned>>
    BY <1>1 DEF StartupFails, StopEngine, TornDown
  <2> QED
    BY <2>1, OwnersApart
<1>2. CASE RunEngine
  <2>1. ~ TornDown /\ ~ TornDown' /\ UNCHANGED <<native, nativeBatch, raster, owned>>
    BY <1>2 DEF RunEngine, TornDown
  <2> QED
    BY <2>1, OwnersApart
<1>3. CASE SendEvent \/ RequestShutdown \/ TakePlatform \/ HandleEvent \/ BeginStop \/ EndStop
             \/ LeaveLoop \/ PostFlutterTask \/ UNCHANGED vars
  <2>1. stage' = stage /\ UNCHANGED <<native, nativeBatch, raster, owned>>
    BY <1>3 DEF SendEvent, RequestShutdown, TakePlatform, HandleEvent, BeginStop, EndStop,
       LeaveLoop, PostFlutterTask, vars
  <2> QED
    BY <2>1, OwnersApart
<1>4. CASE DestroyEmbedder \/ DestroyRenderer
  <2>1. /\ UNCHANGED <<native, nativeBatch, raster, owned>>
        /\ \/ stage = "outputs gone" /\ stage' = "embedder gone"
           \/ stage = "closed" /\ stage' = "done"
    BY <1>4 DEF DestroyEmbedder, DestroyRenderer
  <2> QED
    BY <2>1, OwnersApart
<1>5. CASE ReplaceTarget \/ PublishImage \/ TakeNative
  BY <1>5, ReplaceTargetOwners, PublishImageOwners, TakeNativeOwners
<1>6. CASE AnnounceFrame \/ DeleteChain \/ DeleteImage \/ EraseTexture
  BY <1>6, AnnounceFrameOwners, DeleteChainOwners, DeleteImageOwners, EraseTextureOwners
<1>7. CASE AnswerCall \/ ReportFailure \/ WakeUp
  <2>1. /\ nativeBatch # <<>> /\ Head(nativeBatch).kind \in {"call", "failed", "wake"}
        /\ nativeBatch' = Tail(nativeBatch) /\ UNCHANGED <<stage, native, raster, owned>>
    BY <1>7 DEF AnswerCall, ReportFailure, WakeUp, IsNext
  <2> QED
    BY <2>1, QuietRan
<1>8. CASE JoinEngine \/ DestroyOutputs \/ AttachFramebuffer \/ WriteStarts \/ WriteRefused
  BY <1>8, LettingGo
<1>9. CASE DestroyClients \/ CloseNativeQueue
  BY <1>9, DestroyClientsOwners, CloseNativeQueueOwners
<1>10. CASE Present \/ SampleTexture \/ ReleaseTexture
  BY <1>10, PresentOwners, SampleTextureOwners, ReleaseTextureOwners
<1>11. CASE StartEngine
  <2>1. /\ platformBatch # <<>> /\ UNCHANGED <<stage, nativeBatch, raster, owned>>
        /\ native' = native \/ native' = Enqueue(native, Task("failed", None))
    BY <1>11 DEF StartEngine, IsNext
  <2>2. ~ native.closed
    BY <2>1, OpenQueue DEF OwnersInv
  <2>3. Task("failed", None) \in NativeTask /\ Task("failed", None).kind = "failed"
    BY DEF NativeTask, Task, None
  <2>4. CASE native' = native
    BY <2>1, <2>4, OwnersApart
  <2>5. CASE native' = Enqueue(native, Task("failed", None))
    <3> DEFINE x == Task("failed", None)
    <3>1. x \in NativeTask /\ x.kind = "failed" /\ native' = Enqueue(native, x)
      BY <2>3, <2>5
    <3> HIDE DEF x
    <3>2. UNCHANGED <<stage, nativeBatch, raster, owned>>
      BY <2>1
    <3> QED
      BY <2>2, <3>1, <3>2, QuietQueued
  <2> QED
    BY <2>1, <2>4, <2>5
<1>12. CASE RunFlutterTask
  <2>1. /\ thread = "running" /\ UNCHANGED <<stage, nativeBatch, raster, owned>>
        /\ \/ native' = native
           \/ native' = Enqueue(native, Task("erase", None))
           \/ native' = Enqueue(native, Task("call", None))
    BY <1>12 DEF RunFlutterTask, AtLoop
  <2>2. ~ native.closed /\ ~ TornDown
    BY <2>1, OpenQueue DEF OwnersInv, EngineInv, Late, TornDown
  <2>3. UNCHANGED <<stage, nativeBatch, raster, owned>>
    BY <2>1
  <2>4. CASE native' = native
    BY <2>3, <2>4, OwnersApart
  <2>5. ASSUME native' # native PROVE OwnersInv'
    <3>1. PICK x : /\ x \in {Task("erase", None), Task("call", None)}
                   /\ native' = Enqueue(native, x)
      BY <2>1, <2>5
    <3>2. x \in NativeTask /\ x.kind \in {"erase", "call"}
      <4>1. Task("erase", None) \in NativeTask /\ Task("erase", None).kind = "erase"
        BY DEF NativeTask, Task, None
      <4>2. Task("call", None) \in NativeTask /\ Task("call", None).kind = "call"
        BY DEF NativeTask, Task, None
      <4> QED
        BY <3>1, <4>1, <4>2
    <3> QED
      BY <2>2, <2>3, <3>1, <3>2, QuietQueued
  <2> QED
    BY <2>4, <2>5
<1>13. CASE EndThread
  <2>1. thread = "stopped" /\ native' = Enqueue(native, Task("wake", None))
    BY <1>13 DEF EndThread
  <2>2. UNCHANGED <<stage, nativeBatch, raster, owned>>
    BY <1>13 DEF EndThread
  <2>3. ~ native.closed
    BY <2>1, OpenQueue DEF OwnersInv
  <2>4. PICK x : x = Task("wake", None)
    OBVIOUS
  <2>5. x \in NativeTask /\ x.kind = "wake" /\ native' = Enqueue(native, x)
    BY <2>1, <2>4 DEF NativeTask, Task, None
  <2> QED
    BY <2>2, <2>3, <2>5, QuietQueued
<1> QED
  BY <1>1, <1>2, <1>3, <1>4, <1>5, <1>6, <1>7, <1>8, <1>9, <1>10, <1>11, <1>12, <1>13
     DEF Next, RunNativeTask, ContinueShutdown, RunPlatform

LEMMA InitEngine == Init => EngineInv /\ StartedOnce
<1> SUFFICES ASSUME Init PROVE EngineInv /\ StartedOnce
  OBVIOUS
<1>1. EngineInv
  BY DEF Init, EngineInv, Late, Gone, RasterRuns
<1>2. Starts = 0
  BY CountNone DEF Init, NewQueue, Starts
<1> QED
  BY <1>1, <1>2 DEF Init, StartedOnce

LEMMA OwnersAlways == Spec => [](EngineInv /\ OwnersInv)
<1> DEFINE All == Inv /\ StartedOnce /\ EngineInv /\ OwnersInv
<1>1. Init => All
  BY InitInv, InitEngine, InitOwners
<1>2. All /\ [Next]_vars => All'
  BY NextInv, StartedOnceNext, EngineInvNext, OwnersNext
<1>3. All => EngineInv /\ OwnersInv
  OBVIOUS
<1> QED
  BY <1>1, <1>2, <1>3, PTL DEF Spec

LEMMA AfterTheClients == Reached("clients gone") => TornDown
<1>1. \A i, j \in 1..9 : i <= j => i \in {1, 2, 3, 4, 6, 7, 8, 9} \/ j \in {5, 6, 7, 8, 9}
  OBVIOUS
<1>2. /\ Stages[1] = "starting" /\ Stages[2] = "running" /\ Stages[3] = "stopping"
      /\ Stages[4] = "joined" /\ Stages[5] = "clients gone" /\ Stages[6] = "outputs gone"
      /\ Stages[7] = "embedder gone" /\ Stages[8] = "closed" /\ Stages[9] = "done"
  BY DEF Stages
<1>3. /\ \A i \in {1, 2, 3, 4, 6, 7, 8, 9} : Stages[i] # "clients gone"
      /\ \A j \in {5, 6, 7, 8, 9} :
           Stages[j] \in {"clients gone", "outputs gone", "embedder gone", "closed", "done"}
  BY <1>2
<1>4. Len(Stages) = 9
  BY DEF Stages
<1>5. Reached("clients gone") =>
        \E i, j \in 1..9 : i <= j /\ Stages[i] = "clients gone" /\ stage = Stages[j]
  BY <1>4 DEF Reached
<1> QED
  BY <1>1, <1>3, <1>5 DEF TornDown

LEMMA TasksWait ==
  ASSUME NativeTyped, NEW t \in Range(native.tasks) \cup Range(nativeBatch)
  PROVE  t \in NativeTask /\ Waiting(t) # 0
<1>1. native.tasks \in Seq(NativeTask) /\ nativeBatch \in Seq(NativeTask)
  BY DEF NativeTyped, NativeQueue
<1>2. Range(native.tasks) \subseteq NativeTask /\ Range(nativeBatch) \subseteq NativeTask
  BY <1>1 DEF Range
<1>3. Count(native.tasks, t) \in Nat /\ Count(nativeBatch, t) \in Nat
  BY <1>1, PlacesFinite
<1>4. Count(native.tasks, t) # 0 \/ Count(nativeBatch, t) # 0
  BY <1>1, CountIn
<1>5. Count(native.tasks, t) + Count(nativeBatch, t) # 0
  BY <1>3, <1>4
<1> QED
  BY <1>2, <1>5 DEF Waiting

(* Dart's calls are done before the clients they may touch are disconnected:  *)
(* the platform thread, which makes them, has ended, and the queue was empty  *)
(* when ZenithServer::shutdown went on.                                       *)
THEOREM CallsAreDoneFirst == Spec => []CallsFindTheirOwners
<1>1. OwnersInv => CallsFindTheirOwners
  <2> SUFFICES ASSUME OwnersInv, Reached("clients gone"),
                      NEW task \in Range(native.tasks) \cup Range(nativeBatch)
               PROVE  task.kind \notin {"erase", "call"}
    BY DEF CallsFindTheirOwners
  <2>1. TornDown
    BY AfterTheClients
  <2>2. task \in NativeTask /\ Waiting(task) # 0
    BY TasksWait DEF OwnersInv, QueueInv
  <2>3. task = Task(task.kind, task.of) /\ task.of \in Nat
    BY <2>2 DEF NativeTask, Task
  <2>4. Waiting(Task("erase", task.of)) = 0 /\ Waiting(Task("call", task.of)) = 0
    BY <2>1, <2>3 DEF OwnersInv, CallsDone, Erasure, Call
  <2> QED
    BY <2>2, <2>3, <2>4
<1> QED
  BY <1>1, OwnersAlways, PTL

\* The accounts, in the terms of the properties.
LEMMA Accounts ==
  ASSUME OwnersInv
  PROVE  /\ \A c \in Nat : Waiting(Task(ChainDeletion, c)) + (IF c \in freedChains THEN 1 ELSE 0)
                             = IF c \in 1..chains /\ c \notin ChainsInUse THEN 1 ELSE 0
         /\ \A i \in Nat : Waiting(Task(ImageDeletion, i)) + (IF i \in freedImages THEN 1 ELSE 0)
                             = IF i \in 1..images /\ i \notin ImagesInUse THEN 1 ELSE 0
         /\ \A t : Waiting(t) \in Nat
         /\ chains \in Nat /\ images \in Nat /\ freedChains \subseteq Nat /\ freedImages \subseteq Nat
<1>1. \A c \in Nat : Waiting(Task(ChainDeletion, c)) + (IF c \in freedChains THEN 1 ELSE 0)
                       = IF c \in 1..chains /\ c \notin ChainsInUse THEN 1 ELSE 0
  BY DEF OwnersInv, ChainAccount, Balanced, Owed
<1>2. \A i \in Nat : Waiting(Task(ImageDeletion, i)) + (IF i \in freedImages THEN 1 ELSE 0)
                       = IF i \in 1..images /\ i \notin ImagesInUse THEN 1 ELSE 0
  BY DEF OwnersInv, ImageAccount, Balanced, Owed
<1>3. NativeTyped /\ freedChains \subseteq Nat /\ freedImages \subseteq Nat
  BY DEF OwnersInv, QueueInv, ChainAccount, ImageAccount
<1> QED
  BY <1>1, <1>2, <1>3, WaitingType DEF NativeTyped

LEMMA DeletedWaits ==
  ASSUME NativeTyped, NEW kind, NEW x \in Nat
  PROVE  Deleted(kind)[x] = Waiting(Task(kind, x))
<1>1. native.tasks \in Seq(NativeTask) /\ nativeBatch \in Seq(NativeTask)
  BY DEF NativeTyped, NativeQueue
<1>2. Count(native.tasks, Task(kind, x)) \in Nat /\ Count(nativeBatch, Task(kind, x)) \in Nat
  BY <1>1, PlacesFinite
<1>3. Deleted(kind)[x] = Count(nativeBatch, Task(kind, x)) + Count(native.tasks, Task(kind, x))
  BY DEF Deleted, Count, Places
<1> QED
  BY <1>2, <1>3 DEF Waiting

LEMMA OneOrNone == \A x, S : Cardinality({x} \cap S) = IF x \in S THEN 1 ELSE 0
<1> TAKE x, S
<1>1. CASE x \in S
  <2>1. {x} \cap S = {x}
    BY <1>1
  <2> QED
    BY <1>1, <2>1, FS_Singleton
<1>2. CASE x \notin S
  <2>1. {x} \cap S = {}
    BY <1>2
  <2> QED
    BY <1>2, <2>1, FS_EmptySet
<1> QED
  BY <1>1, <1>2

LEMMA OneUnlessUsed ==
  \A n, x, used : n = (IF x \notin used THEN 1 ELSE 0) => n <= 1 /\ (x \in used => n = 0)
  OBVIOUS

(* A chain or a texture frame is queued for deletion, or freed, once, and     *)
(* only when the last of its holders has let go (the deleters that enqueue    *)
(* instead of freeing, and unregister_view_texture).                          *)
THEOREM FreedOnce == Spec => []FreedOnceUnused
<1>1. OwnersInv => FreedOnceUnused
  <2> SUFFICES ASSUME OwnersInv PROVE FreedOnceUnused
    OBVIOUS
  <2>1. NativeTyped
    BY DEF OwnersInv, QueueInv
  <2>2. ASSUME NEW c \in 1..chains
        PROVE  /\ Deleted("delete chain")[c] + Cardinality({c} \cap freedChains) <= 1
               /\ c \in ChainsInUse =>
                    Deleted("delete chain")[c] + Cardinality({c} \cap freedChains) = 0
    <3>1. c \in Nat /\ chains \in Nat
      BY <2>1 DEF NativeTyped
    <3>2. Deleted("delete chain")[c] + Cardinality({c} \cap freedChains)
            = Waiting(Task("delete chain", c)) + (IF c \in freedChains THEN 1 ELSE 0)
      BY <2>1, <3>1, DeletedWaits, OneOrNone
    <3>3. Waiting(Task("delete chain", c)) + (IF c \in freedChains THEN 1 ELSE 0)
            = IF c \notin ChainsInUse THEN 1 ELSE 0
      BY <3>1, Accounts DEF ChainDeletion
    <3>4. Deleted("delete chain")[c] + Cardinality({c} \cap freedChains)
            = IF c \notin ChainsInUse THEN 1 ELSE 0
      BY <3>2, <3>3
    <3> QED
      BY <3>4, OneUnlessUsed
  <2>3. ASSUME NEW i \in 1..images
        PROVE  /\ Deleted("delete image")[i] + Cardinality({i} \cap freedImages) <= 1
               /\ i \in sampled \cup {registered} =>
                    Deleted("delete image")[i] + Cardinality({i} \cap freedImages) = 0
    <3>1. i \in Nat /\ images \in Nat /\ i # None
      BY <2>1 DEF NativeTyped, None
    <3>2. Deleted("delete image")[i] + Cardinality({i} \cap freedImages)
            = Waiting(Task("delete image", i)) + (IF i \in freedImages THEN 1 ELSE 0)
      BY <2>1, <3>1, DeletedWaits, OneOrNone
    <3>3. Waiting(Task("delete image", i)) + (IF i \in freedImages THEN 1 ELSE 0)
            = IF i \notin ImagesInUse THEN 1 ELSE 0
      BY <3>1, Accounts DEF ImageDeletion
    <3>4. i \in sampled \cup {registered} => i \in ImagesInUse
      BY <3>1 DEF ImagesInUse
    <3>5. Deleted("delete image")[i] + Cardinality({i} \cap freedImages)
            = IF i \notin ImagesInUse THEN 1 ELSE 0
      BY <3>2, <3>3
    <3> QED
      BY <3>4, <3>5, OneUnlessUsed
  <2> QED
    BY <2>2, <2>3 DEF FreedOnceUnused
<1> QED
  BY <1>1, OwnersAlways, PTL

(* When the renderer and the allocator are destroyed nothing that needs them  *)
(* is left, neither in use nor waiting in the closed queue ("No worker may    *)
(* enqueue releases beyond this point", ZenithServer::shutdown).              *)
THEOREM RendererGoesLast == Spec => []NothingOutlivesRenderer
<1>1. EngineInv /\ OwnersInv => NothingOutlivesRenderer
  <2> SUFFICES ASSUME EngineInv, OwnersInv, stage = "done"
               PROVE  /\ freedChains = 1..chains /\ freedImages = 1..images
                      /\ native.tasks = <<>> /\ nativeBatch = <<>>
    BY DEF NothingOutlivesRenderer
  <2>1. native.tasks = <<>> /\ nativeBatch = <<>> /\ NativeTyped
    BY DEF OwnersInv, QueueInv
  <2>2. \A t : Waiting(t) = 0
    BY <2>1, CountNone DEF Waiting
  <2>3. target = None /\ registered = None
    BY DEF OwnersInv, ReleasedInv, TornDown
  <2>4. acquiring = None /\ raster_target = None /\ sampled = {}
    BY DEF EngineInv, Late
  <2>5. ChainsInUse = {} /\ ImagesInUse = {}
    BY <2>1, <2>2, <2>3, <2>4, UsedChains DEF Holders, ImagesInUse
  <2>6. freedChains = 1..chains
    <3>1. \A c \in Nat : c \in freedChains <=> c \in 1..chains
      BY <2>2, <2>5, Accounts
    <3>2. freedChains \subseteq Nat /\ \A c \in 1..chains : c \in Nat
      BY Accounts
    <3> QED
      BY <3>1, <3>2
  <2>7. freedImages = 1..images
    <3>1. \A i \in Nat : i \in freedImages <=> i \in 1..images
      BY <2>2, <2>5, Accounts
    <3>2. freedImages \subseteq Nat /\ \A i \in 1..images : i \in Nat
      BY Accounts
    <3> QED
      BY <3>1, <3>2
  <2> QED
    BY <2>1, <2>6, <2>7
<1> QED
  BY <1>1, OwnersAlways, PTL
=============================================================================
