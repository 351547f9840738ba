------------------------------ MODULE Shutdown ------------------------------
(* How the compositor starts and stops Flutter, and who frees what the        *)
(* threads share (ZenithServer::run and shutdown, EmbedderState::run_engine   *)
(* and stop_engine, CallableQueue, StopSignal, and the owners of composition  *)
(* chains and client textures).                                               *)
(*                                                                            *)
(* Chains and textures are counted references.  Only the Wayland thread may   *)
(* free them: a last reference dropped elsewhere (for a chain, anywhere)      *)
(* queues the deletion for it, so the queue has to be served until nothing    *)
(* can be dropped any more, and closed before the renderer goes.              *)
(*                                                                            *)
(* The engine is external: it draws and samples on its raster thread until    *)
(* FlutterEngineShutdown, called on the platform thread, has joined it and    *)
(* released its images.  Waiting for a slot of a chain is one state: what     *)
(* start_write does meanwhile is SwapChain.tla's.                             *)
EXTENDS CallableQueue, Naturals, FiniteSets, SequencesExt

CONSTANTS
  MaxChains,  \* bound: composition chains created
  MaxImages,  \* bound: texture frames published
  MaxEvents,  \* bound: events sent to Flutter
  MaxQueued   \* bound: tasks in the native queue when a frame is presented

None == 0

(* The stages of ZenithServer::run and shutdown, in their order.              *)
Stages == <<"starting", "running", "stopping", "joined", "clients gone",
            "outputs gone", "embedder gone", "closed", "done">>

VARIABLES
  stage,          \* how far the Wayland thread has come
  shutting_down, exit_status,
  native,         \* ZenithServer::callable_queue
  nativeBatch,    \* what the Wayland thread's execute is working through
  platform, platformBatch, \* the same of EmbedderState and the platform thread
  events,         \* events sent to Flutter
  engine,         \* "none", "failed", "running", "stopping", "down"
  thread,         \* the platform thread: "none", "running", "leaving", "stopped", "ended"
  flutterTasks, stopped,   \* TaskRunner: whether tasks wait, and its flag
  stop_requested, \* StopSignal
  chains,         \* composition chains created: 1..chains
  target,         \* the output manager's chain
  acquiring,      \* the raster thread's, in start_write
  raster_target,  \* the raster thread's, with a slot to draw into
  freedChains,
  images,         \* texture frames created: 1..images
  registered,     \* external_textures: the frame of the texture
  sampled,        \* frames Flutter holds
  freedImages

server  == <<stage, shutting_down, exit_status>>
queues  == <<native, nativeBatch, platform, platformBatch>>
flutter == <<engine, thread, flutterTasks, stopped, stop_requested>>
raster  == <<acquiring, raster_target>>
owned   == <<chains, target, freedChains, images, registered, sampled, freedImages>>
vars    == <<server, queues, events, flutter, raster, owned>>

Task(kind, what) == [kind |-> kind, of |-> what]
IsNext(batch, kind) == batch # <<>> /\ Head(batch).kind = kind

Reached(s) ==
  \E i, j \in 1..Len(Stages) : i <= j /\ Stages[i] = s /\ stage = Stages[j]

Init ==
  /\ stage = "starting" /\ shutting_down = FALSE /\ exit_status = 0
  /\ native = NewQueue /\ nativeBatch = <<>>
  /\ platform = NewQueue /\ platformBatch = <<>> /\ events = 0
  /\ engine = "none" /\ thread = "none" /\ flutterTasks = FALSE /\ stopped = FALSE
  /\ stop_requested = FALSE
  /\ chains = 0 /\ target = None /\ acquiring = None /\ raster_target = None
  /\ freedChains = {}
  /\ images = 0 /\ registered = None /\ sampled = {} /\ freedImages = {}

-----------------------------------------------------------------------------
(* Ownership *)

(* The chains somebody refers to: the task that announces a frame does.      *)
Holders(t, a, r) == {t, a, r} \ {None}
Announced(tasks) == {task.of : task \in {x \in Range(tasks) : x.kind = "frame"}}
ChainsInUse == Holders(target, acquiring, raster_target)
                 \cup Announced(native.tasks) \cup Announced(nativeBatch)

(* The queue after the deleters of dropped chains have run.                  *)
Deleting(queue, dropped) ==
  IF queue.closed \/ dropped = {} THEN queue
  ELSE [queue EXCEPT !.tasks = @ \o SetToSeq({Task("delete chain", c) : c \in dropped}),
                     !.readable = TRUE]

(* The native queue when the holders of chains become t, a and r, nothing     *)
(* else being queued or taken.                                               *)
NativeWhenHeldBy(t, a, r) ==
  Deleting(native, ChainsInUse \ (Holders(t, a, r) \cup Announced(native.tasks)
                                    \cup Announced(nativeBatch)))

RegistersAndFrees(image) ==   \* Mutant: forgets that Flutter may hold the frame
  /\ registered' = image
  /\ freedImages' = freedImages \cup ({registered} \ {None, image})

(* The Wayland thread frees what it drops itself.                            *)
Registers(image) ==
  /\ registered' = image
  /\ freedImages' = freedImages \cup ({registered} \ ({None, image} \cup sampled))

-----------------------------------------------------------------------------
(* The Wayland thread: start and events *)

(* No socket, no contexts, no backend: request_shutdown and shutdown without *)
(* an embedder.  stop_engine is not called, or finds no thread.              *)
StartupFails ==
  /\ stage = "starting"
  /\ stage' = "joined" /\ shutting_down' = TRUE /\ exit_status' = 1
  /\ UNCHANGED <<queues, events, flutter, raster, owned>>

RunEngine ==
  /\ stage = "starting"
  /\ stage' = "running" /\ thread' = "running"
  /\ platform' = Enqueue(platform, Task("start", None))
  /\ UNCHANGED <<shutting_down, exit_status, native, nativeBatch, platformBatch, events,
                 engine, flutterTasks, stopped, stop_requested, raster, owned>>

Serving == stage = "running" /\ nativeBatch = <<>>

(* The composition target is created, replaced or cleared.                   *)
ReplaceTarget ==
  /\ Serving
  /\ \E next \in {None, chains + 1} :
       /\ next <= MaxChains /\ next # target
       /\ chains' = IF next = None THEN chains ELSE next
       /\ target' = next
       /\ native' = NativeWhenHeldBy(next, acquiring, raster_target)
  /\ UNCHANGED <<server, nativeBatch, platform, platformBatch, events, flutter, raster,
                 freedChains, images, registered, sampled, freedImages>>

(* commit_surface: the new frame of a texture, and the events for Flutter.    *)
PublishImage ==
  /\ Serving /\ images < MaxImages
  /\ images' = images + 1
  /\ Registers(images')
  /\ UNCHANGED <<server, queues, events, flutter, raster, chains, target, freedChains, sampled>>

(* Every send_..., on_vsync and ..._surface of EmbedderState.                *)
SendEvent ==
  /\ Serving /\ events < MaxEvents
  /\ events' = events + 1
  /\ platform' = Enqueue(platform, Task("event", None))
  /\ UNCHANGED <<server, native, nativeBatch, platformBatch, flutter, raster, owned>>

(* A signal or a shortcut.                                                   *)
RequestShutdown ==
  /\ Serving /\ ~ shutting_down
  /\ shutting_down' = TRUE
  /\ UNCHANGED <<stage, exit_status, queues, events, flutter, raster, owned>>

-----------------------------------------------------------------------------
(* The Wayland thread: its queue, served by the display's loop, by            *)
(* stop_engine and by shutdown                                               *)

Draining == Reached("running") /\ stage # "done"

TakeNative ==
  /\ Draining /\ nativeBatch = <<>> /\ native.readable
  /\ nativeBatch' = native.tasks /\ native' = Taken(native)
  /\ UNCHANGED <<server, platform, platformBatch, events, flutter, raster, owned>>

(* The lambda of commit_framebuffer, which then lets go of its chain.        *)
AnnounceFrame ==
  /\ IsNext(nativeBatch, "frame")
  /\ nativeBatch' = Tail(nativeBatch)
  /\ native' = Deleting(native, {Head(nativeBatch).of} \
                  (Holders(target, acquiring, raster_target) \cup Announced(native.tasks)
                     \cup Announced(nativeBatch')))
  /\ UNCHANGED <<server, platform, platformBatch, events, flutter, raster, owned>>

DeleteChain ==
  /\ IsNext(nativeBatch, "delete chain")
  /\ nativeBatch' = Tail(nativeBatch)
  /\ freedChains' = freedChains \cup {Head(nativeBatch).of}
  /\ UNCHANGED <<server, native, platform, platformBatch, events, flutter, raster,
                 chains, target, images, registered, sampled, freedImages>>

DeleteImage ==
  /\ IsNext(nativeBatch, "delete image")
  /\ nativeBatch' = Tail(nativeBatch)
  /\ freedImages' = freedImages \cup {Head(nativeBatch).of}
  /\ UNCHANGED <<server, native, platform, platformBatch, events, flutter, raster,
                 chains, target, freedChains, images, registered, sampled>>

(* The lambda of unregister_view_texture.                                    *)
EraseTexture ==
  /\ IsNext(nativeBatch, "erase")
  /\ nativeBatch' = Tail(nativeBatch)
  /\ Registers(None)
  /\ UNCHANGED <<server, native, platform, platformBatch, events, flutter, raster,
                 chains, target, freedChains, images, sampled>>

(* A call whose answer is an event, as set_window_state is to a maximize.     *)
AnswerCall ==
  /\ IsNext(nativeBatch, "call")
  /\ nativeBatch' = Tail(nativeBatch)
  /\ platform' = Enqueue(platform, Task("event", None))
  /\ UNCHANGED <<server, native, platformBatch, events, flutter, raster, owned>>

(* request_shutdown(1), after Flutter failed to start.                        *)
ReportFailure ==
  /\ IsNext(nativeBatch, "failed")
  /\ nativeBatch' = Tail(nativeBatch)
  /\ shutting_down' = TRUE /\ exit_status' = 1
  /\ UNCHANGED <<stage, native, platform, platformBatch, events, flutter, raster, owned>>

WakeUp ==
  /\ IsNext(nativeBatch, "wake")
  /\ nativeBatch' = Tail(nativeBatch)
  /\ UNCHANGED <<server, native, platform, platformBatch, events, flutter, raster, owned>>

RunNativeTask == \/ AnnounceFrame \/ DeleteChain \/ DeleteImage \/ EraseTexture
                 \/ AnswerCall \/ ReportFailure \/ WakeUp

-----------------------------------------------------------------------------
(* The Wayland thread: ZenithServer::shutdown, stage by stage.  The queue is  *)
(* served until it is empty between the stages.                              *)

DrainedOnce == nativeBatch = <<>>   \* Mutant: goes on without a last look at the queue

Drained == ~ native.readable /\ nativeBatch = <<>>

StopEngineQuietly ==   \* Mutant: does not raise the stop signal
  /\ stage = "running" /\ shutting_down /\ nativeBatch = <<>>
  /\ stage' = "stopping" /\ platform' = Close(platform, <<Task("stop", None)>>)
  /\ UNCHANGED <<shutting_down, exit_status, native, nativeBatch, platformBatch, events,
                 flutter, raster, owned>>

(* wl_display_run has returned: the loop ends when what it dispatched is done *)
StopEngine ==
  /\ stage = "running" /\ shutting_down /\ nativeBatch = <<>>
  /\ stage' = "stopping" /\ stop_requested' = TRUE
  /\ platform' = Close(platform, <<Task("stop", None)>>)
  /\ UNCHANGED <<shutting_down, exit_status, native, nativeBatch, platformBatch, events,
                 engine, thread, flutterTasks, stopped, raster, owned>>

(* thread_stopped was seen, and join waits for the end of the thread.         *)
JoinEngine ==
  /\ stage = "stopping" /\ thread = "ended" /\ nativeBatch = <<>>
  /\ stage' = "joined" /\ raster_target' = None
  /\ native' = NativeWhenHeldBy(target, acquiring, None)
  /\ UNCHANGED <<shutting_down, exit_status, nativeBatch, platform, platformBatch,
                 events, flutter, acquiring, owned>>

(* Clients are disconnected and the texture registry is cleared.              *)
DestroyClients ==
  /\ stage = "joined" /\ Drained
  /\ stage' = "clients gone"
  /\ Registers(None)
  /\ UNCHANGED <<shutting_down, exit_status, queues, events, flutter, raster, chains,
                 target, freedChains, images, sampled>>

DestroyOutputs ==
  /\ stage = "clients gone" /\ Drained
  /\ stage' = "outputs gone" /\ target' = None
  /\ native' = NativeWhenHeldBy(None, acquiring, raster_target)
  /\ UNCHANGED <<shutting_down, exit_status, nativeBatch, platform, platformBatch, events,
                 flutter, raster, chains, freedChains, images, registered, sampled, freedImages>>

DestroyEmbedder ==
  /\ stage = "outputs gone" /\ Drained
  /\ stage' = "embedder gone"
  /\ UNCHANGED <<shutting_down, exit_status, queues, events, flutter, raster, owned>>

CloseNativeQueue ==
  /\ stage = "embedder gone" /\ Drained
  /\ stage' = "closed" /\ native' = Close(native, <<>>)
  /\ UNCHANGED <<shutting_down, exit_status, nativeBatch, platform, platformBatch, events,
                 flutter, raster, owned>>

DestroyRenderer ==
  /\ stage = "closed" /\ Drained
  /\ stage' = "done"
  /\ UNCHANGED <<shutting_down, exit_status, queues, events, flutter, raster, owned>>

ContinueShutdown == \/ JoinEngine \/ DestroyClients \/ DestroyOutputs \/ DestroyEmbedder
                    \/ CloseNativeQueue \/ DestroyRenderer

-----------------------------------------------------------------------------
(* The platform thread *)

AtLoop == thread = "running" /\ platformBatch = <<>>

TakePlatform ==
  /\ AtLoop /\ platform.readable
  /\ platformBatch' = platform.tasks /\ platform' = Taken(platform)
  /\ UNCHANGED <<server, native, nativeBatch, events, flutter, raster, owned>>

(* The first task: start the engine, unless it is already to stop.            *)
StartEngine ==
  /\ IsNext(platformBatch, "start")
  /\ platformBatch' = Tail(platformBatch)
  /\ IF stop_requested THEN UNCHANGED <<engine, native>>
     ELSE \/ engine' = "running" /\ UNCHANGED native
          \/ engine' = "failed" /\ native' = Enqueue(native, Task("failed", None))
  /\ UNCHANGED <<server, nativeBatch, platform, events, thread, flutterTasks, stopped,
                 stop_requested, raster, owned>>

HandleEvent ==
  /\ IsNext(platformBatch, "event")
  /\ platformBatch' = Tail(platformBatch)
  /\ UNCHANGED <<server, native, nativeBatch, platform, events, flutter, raster, owned>>

(* TaskRunner::add_task, from any thread of the engine.                      *)
PostFlutterTask ==
  /\ engine \in {"running", "stopping"} /\ ~ stopped /\ ~ flutterTasks
  /\ flutterTasks' = TRUE
  /\ UNCHANGED <<server, queues, events, engine, thread, stopped, stop_requested, raster, owned>>

(* execute_expired_tasks: among others, Dart's calls, which do their work on  *)
(* the Wayland thread.  They unregister a texture, or change a window, which  *)
(* sends events back.                                                        *)
RunFlutterTask ==
  /\ AtLoop /\ flutterTasks
  /\ flutterTasks' = FALSE
  /\ \/ UNCHANGED <<native, events>>
     \/ /\ Len(native.tasks) < MaxQueued
        /\ native' = Enqueue(native, Task("erase", None)) /\ UNCHANGED events
     \/ /\ events < MaxEvents
        /\ native' = Enqueue(native, Task("call", None)) /\ events' = events + 1
  /\ UNCHANGED <<server, nativeBatch, platform, platformBatch, engine, thread,
                 stopped, stop_requested, raster, owned>>

(* The final task: the task runner stops, then FlutterEngineShutdown waits    *)
(* for the raster thread.                                                    *)
BeginStop ==
  /\ IsNext(platformBatch, "stop") /\ ~ stopped
  /\ stopped' = TRUE /\ flutterTasks' = FALSE
  /\ engine' = IF engine = "running" THEN "stopping" ELSE engine
  /\ UNCHANGED <<server, queues, events, thread, stop_requested, raster, owned>>

EndStop ==
  /\ IsNext(platformBatch, "stop") /\ stopped
  /\ engine = "stopping" => acquiring = None /\ sampled = {}
  /\ platformBatch' = Tail(platformBatch)
  /\ engine' = IF engine = "stopping" THEN "down" ELSE engine
  /\ thread' = "leaving"
  /\ UNCHANGED <<server, native, nativeBatch, platform, events, flutterTasks, stopped,
                 stop_requested, raster, owned>>

(* loop_running is false: thread_stopped is set, then the last task queued.   *)
LeaveLoop ==
  /\ thread = "leaving" /\ platformBatch = <<>>
  /\ thread' = "stopped"
  /\ UNCHANGED <<server, queues, events, engine, flutterTasks, stopped, stop_requested,
                 raster, owned>>

EndThread ==
  /\ thread = "stopped"
  /\ thread' = "ended"
  /\ native' = Enqueue(native, Task("wake", None))
  /\ UNCHANGED <<server, nativeBatch, platform, platformBatch, events, engine,
                 flutterTasks, stopped, stop_requested, raster, owned>>

RunPlatform == \/ TakePlatform \/ StartEngine \/ HandleEvent \/ BeginStop \/ EndStop
               \/ LeaveLoop \/ EndThread

-----------------------------------------------------------------------------
(* The raster thread *)

RasterRuns == engine \in {"running", "stopping"}

(* attach_framebuffer up to start_write.                                      *)
AttachFramebuffer ==
  /\ engine = "running" /\ acquiring = None
  /\ acquiring' = target
  /\ raster_target' = IF target = None THEN None ELSE raster_target
  /\ native' = NativeWhenHeldBy(target, acquiring', raster_target')
  /\ UNCHANGED <<server, nativeBatch, platform, platformBatch, events, flutter, owned>>

(* A slot was free, or a fence signalled: it may have been a moment before    *)
(* the engine was told to stop.                                              *)
WriteStarts ==
  /\ RasterRuns /\ acquiring # None
  /\ raster_target' = acquiring /\ acquiring' = None
  /\ native' = NativeWhenHeldBy(target, None, acquiring)
  /\ UNCHANGED <<server, nativeBatch, platform, platformBatch, events, flutter, owned>>

(* Every slot is leased, or the wait failed, or the stop signal ended it.     *)
WriteRefused ==
  /\ RasterRuns /\ acquiring # None
  /\ raster_target' = None /\ acquiring' = None
  /\ native' = NativeWhenHeldBy(target, None, None)
  /\ UNCHANGED <<server, nativeBatch, platform, platformBatch, events, flutter, owned>>

StopSignalEndsWait == stop_requested /\ WriteRefused

(* commit_framebuffer: the chain goes with the task.                         *)
Present ==
  /\ RasterRuns /\ acquiring = None /\ raster_target # None
  /\ Len(native.tasks) < MaxQueued
  /\ native' = Enqueue(native, Task("frame", raster_target))
  /\ raster_target' = None
  /\ UNCHANGED <<server, nativeBatch, platform, platformBatch, events, flutter, acquiring, owned>>

SampleTexture ==
  /\ engine = "running" /\ registered # None
  /\ sampled' = sampled \cup {registered}
  /\ UNCHANGED <<server, queues, events, flutter, raster, chains, target, freedChains,
                 images, registered, freedImages>>

(* destruction_callback, on a thread of the engine.                          *)
ReleaseTexture ==
  /\ RasterRuns
  /\ \E image \in sampled :
       /\ sampled' = sampled \ {image}
       /\ native' = IF image = registered THEN native
                    ELSE Enqueue(native, Task("delete image", image))
  /\ UNCHANGED <<server, nativeBatch, platform, platformBatch, events, flutter, raster,
                 chains, target, freedChains, images, registered, freedImages>>

-----------------------------------------------------------------------------
Next ==
  \/ StartupFails \/ RunEngine \/ ReplaceTarget \/ PublishImage \/ SendEvent \/ RequestShutdown
  \/ TakeNative \/ RunNativeTask \/ StopEngine \/ ContinueShutdown
  \/ RunPlatform \/ PostFlutterTask \/ RunFlutterTask
  \/ AttachFramebuffer \/ WriteStarts \/ WriteRefused \/ Present
  \/ SampleTexture \/ ReleaseTexture

Spec == Init /\ [][Next]_vars

(* Both threads serve their queues and go on with a shutdown; a raster thread *)
(* in start_write hears the stop signal, and the engine lets go of its images *)
(* when it shuts down.  The display's loop ends once what it dispatched is    *)
(* done, whatever is queued meanwhile.  Nothing is assumed of the GPU.         *)
Fairness ==
  /\ WF_vars(TakeNative) /\ WF_vars(RunNativeTask)
  /\ SF_vars(StopEngine) /\ WF_vars(ContinueShutdown)
  /\ WF_vars(RunPlatform) /\ WF_vars(RunFlutterTask)
  /\ WF_vars(StopSignalEndsWait)
  /\ WF_vars(engine = "stopping" /\ ReleaseTexture)

FairSpec == Spec /\ Fairness

-----------------------------------------------------------------------------
TaskOf(kinds, whats) == [kind : kinds, of : whats]

TypeOK ==
  /\ stage \in Range(Stages) /\ shutting_down \in BOOLEAN /\ exit_status \in {0, 1}
  /\ {native.tasks, nativeBatch} \subseteq
       Seq(TaskOf({"frame", "delete chain"}, 1..chains) \cup TaskOf({"delete image"}, 1..images)
             \cup TaskOf({"erase", "call", "failed", "wake"}, {None}))
  /\ {platform.tasks, platformBatch} \subseteq Seq(TaskOf({"start", "event", "stop"}, {None}))
  /\ engine \in {"none", "failed", "running", "stopping", "down"}
  /\ thread \in {"none", "running", "leaving", "stopped", "ended"}
  /\ target \in 0..chains /\ acquiring \in 0..chains /\ raster_target \in 0..chains
  /\ registered \in 0..images /\ sampled \subseteq 1..images

(* When the allocator and the renderer are destroyed every chain and every    *)
(* texture frame has been freed: no deletion was refused by the closed queue  *)
(* or left in it ("No worker may enqueue releases beyond this point").        *)
NothingOutlivesRenderer ==
  stage = "done" => /\ freedChains = 1..chains /\ freedImages = 1..images
                    /\ native.tasks = <<>> /\ nativeBatch = <<>>

(* What is freed, or about to be, is used by nobody and freed once.           *)
Deleted(kind) ==
  [x \in Nat |-> Cardinality({i \in 1..Len(nativeBatch) : nativeBatch[i] = Task(kind, x)})
                   + Cardinality({i \in 1..Len(native.tasks) : native.tasks[i] = Task(kind, x)})]

FreedOnceUnused ==
  /\ \A c \in 1..chains :
       LET free == Deleted("delete chain")[c] + Cardinality({c} \cap freedChains)
       IN  free <= 1 /\ (c \in ChainsInUse => free = 0)
  /\ \A i \in 1..images :
       LET free == Deleted("delete image")[i] + Cardinality({i} \cap freedImages)
       IN  free <= 1 /\ (i \in sampled \cup {registered} => free = 0)

(* Dart's calls are done before anything they may touch is torn down: their   *)
(* tasks look up views and textures without asking whether these still exist. *)
CallsFindTheirOwners ==
  Reached("clients gone") =>
    \A task \in Range(native.tasks) \cup Range(nativeBatch) : task.kind \notin {"erase", "call"}

(* The final task is the last: no event is handled by an engine that is being *)
(* shut down or is gone, and none that was accepted is lost.                 *)
FinalTaskIsLast ==
  stopped => platform.tasks = <<>> /\ platformBatch \in {<<>>, <<Task("stop", None)>>}

(* A requested shutdown ends, though the GPU may never finish the frame whose *)
(* slot the raster thread waits for.                                         *)
ShutdownEnds == shutting_down ~> stage = "done"
=============================================================================
