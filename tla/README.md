# A verification project for jdwm

jdwm is a Wayland compositor whose desktop is a Flutter application.  wlroots
talks to displays, input devices and clients; the Flutter engine draws windows,
panels and client surfaces into one picture, the *composition*, of which every
output shows its part.  This directory holds TLA+ models of the parts of that
program where ordering, sharing and failure matter, the TLC runs that check
them, and proofs for TLAPS.

Paths below are relative to `src/`; `N/` abbreviates `native/src/`.

## Threads

| Thread | Runs | Talks to the others by |
|---|---|---|
| Wayland (main) | `wl_display_run`: outputs, clients, input, timers; `ZenithServer::callable_queue` | mutexes of the swapchain, the scheduler and the texture registry; the platform thread's queue |
| Flutter platform ("embedder") | its own `wl_event_loop`: `EmbedderState::callable_queue`, `TaskRunner`, key repeat; Dart and the method calls | tasks queued for the Wayland thread |
| Flutter raster | `attach_framebuffer`, `flutter_present`, texture callbacks | `start_write`/`end_write`; tasks queued for the Wayland thread |
| GPU | submitted work; signals fences in an order of its own | fence descriptors |

## Inventory

**Composition swapchain** (`N/swap_chain.hpp`, `.tpp`).  State: slots with a
frame serial, a ready fence and a count of presentation references; the write
buffer, the latest buffer, the next serial; the damage journal.  The raster thread
takes a slot (`start_write`, which may wait for a fence with the mutex released)
and publishes it (`end_write`); the Wayland thread leases the newest completed
slot (`start_read_slot`) and drops leases and polls fences without the mutex.
Correct when a leased slot is never drawn into, references are exact, readers
always have a completed frame to go forward to, and the writer is refused only if
everything is leased.

**Damage journal** (`N/output/damage_history.hpp`).  A bounded list of per-frame
damage.  Correct when `since` never omits a pixel that changed.

**Output presentation** (`N/output.cpp`, `N/output/frame_selection.hpp`).  Each
output remembers the serial, generation and source box it accounts for, the slots
leased for the scene and for the screen, pending cursor work and a retry timer.
`output_frame` has a dozen ways out.  Correct when the pixels on screen are those
of the frame accounted for and the last frame gets there.

**Vsync scheduler and pacing** (`N/flutter_engine/vsync_scheduler.hpp`,
`vsync_callback`, `vsync_driver_output`).  Flutter deposits a baton and may not
draw before it comes back.  Correct when ticks keep their phase, never burst, and
no baton is left without somebody to poll for it.

**Output manager and configuration** (`N/output/*.cpp`).  The configured settings
of every output, blanking, the composition target, the layout.  A transaction
tests, prepares, commits and rolls back; `reconcile` then rebuilds everything that
depends on it.  Correct when what is recorded, what the hardware does and what
clients are told agree after each outcome.

**Queues, engine and shutdown** (`N/util/rethreading/*`,
`N/flutter_engine/embedder_state.cpp`, `N/server.cpp`).  Two callable queues,
a stop signal, a shutdown that stops the engine while draining the native queue.
Correct when accepted work runs once, in order, nothing runs after the final task
and shutdown ends.

**Task runner, key repeat, resize coalescing, GL context lock**
(`N/flutter_engine/task_runner.cpp`, `key_repeater.cpp`, `platform_api.cpp`,
`N/util/egl/gl_context_lock.cpp`).  Small protocols between two threads, each with
its own race.

**Surface commits and external textures** (`N/surfaces/zenith_surface.cpp`,
`N/surface_buffer_chain.*`, `N/flutter_engine/external_texture_registry.hpp`).
A commit may wait for the client's fence; then the Wayland thread publishes its image
in a registry the raster thread reads at any time, and queues messages that tell
Flutter of it.  Correct when a layout finds its image, a changed image is resolved
again and a closing window keeps its picture.

**Frame callbacks** (`notify_legacy_clients_frame_done` in `N/output.cpp`,
`schedule_compositor_frame`).  A client that waits for its next animation tick is
answered by a frame of an output, if its window is then mapped, visible and not
elsewhere.  Commits, the shell's calls and outputs each change one of these, and
schedule a frame or do not.  Correct when a client that can be answered is.

**Windows** (`N/surfaces/zenith_xdg_*.cpp`, `zenith_xwayland_toplevel.cpp`, and in
Dart `lib/src/window_manager.dart`, `window_hierarchy.dart`, providers and
controllers).  Registration, mapping, activation on the Wayland thread; stacking,
maximizing, sizes in Dart.  Correct when the shell shows what is mapped and can call
what it shows, though X11 windows gain and lose their surfaces in any order.

**Input** (`N/input/*`, pointer constraints in `N/server.cpp`).  The cursor image as
a combination of what touch, the shell and the client want; constraints that follow
the pointer's focus; text inputs that follow the keyboard's.  Correct when none of
them outlives the surface or the focus it belongs to.

**Left aside**: widgets, EGL and environment setup, PAM, tracing, vendored and
generated code.

## Modules

| Module | Models | Used by |
|---|---|---|
| `DamageHistory` | the journal as a value: `Normalize`, `Publish`, `Since`, `Unite` | `SwapChain`, `OutputFrame` |
| `FrameExchange` | the abstract chain: frames are published, complete, and are held | refined by `SwapChain`; `OutputFrame` takes from it what an output may select |
| `SwapChain` | slots, fences, leases, the three threads | `MCSwapChain`, `SwapChainProofs` |
| `OutputFrame` | outputs, their timers and screens over `FrameExchange` | `MCOutputFrame`, `OutputFrameProofs` |
| `VsyncScheduler` | the scheduler with an integer clock | `MCPacing`, `PacingProofs` |
| `FramePacing` | batons, timers, drivers, the scheduler without a clock | `MCPacing`, `PacingProofs` |
| `OutputConfiguration` | configure, blanking, hotplug, reconcile | `MCOutputConfiguration`, `OutputConfigurationProofs` |
| `CallableQueue` | a callable queue as a value | `Shutdown` |
| `Shutdown` | start and stop of the engine, both queues, owners of chains and textures | `ShutdownProofs` |
| `KeyRepeat` | keys, their repeats, the round trip between the threads | `RoundTripProofs` |
| `ResizeRequests` | the coalescing workers of `resize_window` | `MCResizeRequests`, `RoundTripProofs` |
| `SurfaceCommit` | commits, their fences, the image registry, what Flutter is told | `MCSurfaceCommit`, `SurfaceCommitProofs` |
| `FrameCallbacks` | who schedules frames of outputs and of the shell, and which clients a frame answers | `MCFrameCallbacks`, `MCSurfaceCommit`, `SurfaceCommitProofs` |
| `Pointer` | cursor image, pointer focus, pointer constraints | `TextInput`, `Windows` |
| `TextInput` | text inputs and the keyboard's focus | `Windows` |
| `Windows` | xdg toplevels and X11 windows, composed with `Pointer` and `TextInput` | `MCWindows`, `WindowsProofs` |

The `...Proofs` modules hold the theorems and what only they need; the `MC...`
modules hold constants for TLC.

### SwapChain

One action per critical section, split where another thread can change what the
section reads: `start_write` is `ScanNewestReady` (first scan of
`choose_write_buffer_locked`), then `ChooseWriteBuffer` or `NoWriteBuffer`, then
`WaitForFence`, `RefuseWrite` or `FenceWaitFails`; `start_read_slot` is
`ReadLatest`, or `FindLatestPending` and `ReadOlder`.  `Release` and `PollLease`
happen at any time, as in the code, where they take no mutex.  A ready fence is
`"none"`, `"pending"` or `"signalled"`; polling consumes a signalled one.
`pixels` records what the drawing commands left in a slot.  Within a scan the
polls commute with what others may do to other slots, so a scan is one step.

`FrameExchange` is what an output may rely on; `ImplementsFrameExchange` maps
slots to frames by serial.

### OutputFrame

Runs over `FrameExchange`'s `Selectable` and `SelectableIncomplete` frames rather
than over slots.  Pictures and screens are functions from pixels to frame serials; a
screen is as large as the output's box, boxes may differ, and
a commit redraws the damaged part, and `scene_damage` is what the scene graph has
accumulated since the last commit.  The ways out of `output_frame` are
`FrameWithoutChain`, `FrameBeforeFirst`, `FrameNotReady`, `FrameUndamaged` and
`FramePresented` (committed, failed or deferred).  `NewTarget` and `ClearTarget`
replace the chain.  A reconciliation that keeps the chain only emits frame events,
which is `FlipFinishes`.  `published` and `complete` of a chain that was replaced
are forgotten: no output can reach its frames.

### VsyncScheduler and FramePacing

`VsyncScheduler` has the arithmetic and the clock and lets polls come at any time.
`FramePacing` has no clock (`early` says whether the tick is still to come) but
everybody who polls: the task of `flutter_vsync_callback`, the vsync timer, the
frame events of the driving output, and the driver's dependence on cursor,
configuration and `ZENITH_VSYNC_OUTPUT`.

### OutputConfiguration

Everything here runs in one handler on the Wayland thread, so an action is a whole
handler: a client's or the backend's request, blanking and waking, a plug or an
unplug, each with the `reconcile` at its end.  What a handler's many failure points
lead to is a set: `Configure` is the set of states in which `configure` may return,
labelled by `outcome` as rejected, tested, applied, restored (rolled back) or
recovered (the rollback failed half-way).  A horizontal position and a width stand
for all geometry, a refresh rate of 0 for that of a custom mode that is not known
before the commit.  A composition target is its width, the mapping it was made for
and the output whose format it has.

### CallableQueue and Shutdown

A queue is what waits in it, whether its eventfd is readable and whether it is
closed; a batch that `execute` has taken belongs to the thread that runs it.
`Shutdown` has the stages of `ZenithServer::run` and `shutdown` on the Wayland
thread, the platform thread from its first task to the end of its loop, and of the
raster thread what matters to others: the chains and texture frames it holds and
that it may block in `start_write`.  References are derived from who holds what; the
step that drops the last one queues the deletion (`Deleting`), or frees directly
(`Registers`) where the code's deleter does.  Of the events sent to Flutter and the
calls of Dart only kinds are kept: one that erases a texture, one that is answered
by an event.

### KeyRepeat

The platform thread works through batches of its queue; a timer can fire only
between two batches.  A repeat request travels through both queues (`"ask"`,
`"arm"`) with the generation it was made in.  What Flutter is told is the last key
event and the set of keys it must think pressed.

### ResizeRequests

Requests are numbered by call.  `ResizeWindow` is the critical section of
`resize_window`, `EnqueueWorker` what follows it outside the mutex; the worker is
`StartWorker`, `TakeRequest` or `StopWorker` (one critical section), and
`ApplyRequest`.  An xdg window is a *husk* between the destruction of its
`xdg_toplevel` and that of its `xdg_surface`, when its cached geometry is gone but it
can still be found.

### SurfaceCommit

An image is the number of the application that published it, per view.
`CommitBuffer` is the commit handler: without a fence the commit is applied at once,
with one it joins `waiting`, and one that cannot be watched loses the commit, as the
code does.  `commit_surface` is `CommitMetadata` for a commit that changes no pixels,
and otherwise `PublishImage` and `Announce`: between the registry and the queue the
raster thread may run, so it is two steps, and `announcing` keeps other handlers of
the Wayland thread out.  Flutter is its queue (`RunTask`), its raster thread
(`Sample`, `PresentFrame`) and the image it keeps for each view.  The frames of outputs
that a commit schedules are `FrameCallbacks`'.  Left out: images that are not
GLES2 textures, `unregister_view_texture` (the shell never calls it, so a closed
window's last image stays in the registry), and the check for shutdown in the fence's
handler, which `Shutdown` has.

### FrameCallbacks

`NotifiedOn` has the tests of `notify_legacy_clients_frame_done`: the window is
mapped, visible, and its cached box meets the output's or is not known.
`NotifyOnFrame` is `output_frame` where it calls it, after a commit or with nothing to
draw.  Each of its other ways out (no frame yet, a frame that is not ready or older
than the one accounted for, a deferred or failed commit) answers nobody and leaves
the output's timer armed, so the output stays in `repaint`: what decides between them
is `OutputFrame`'s, here it is only assumed that an output is not put off for ever.
`CommitApplied` is `commit_surface`, `ChangeVisibility` and `PlaceWindow` are calls
of the shell, which schedule nothing, `Reconcile` is the end of every change of
outputs.  Of the shell there is its queue, what it believes of each window's
visibility, and whether a frame of it is to come.

Taken from the Dart half: it asks for a frame when a window's visibility or place
changes (`xdg_toplevel_surface.dart`, `window_manager.dart`); windows are visible
until it is told otherwise.  A commit that is lost with its fence (hung up, or not to
be watched) is in `lost` until its window is served again: nobody makes up for it,
and the properties except it.  Left out: X11 windows, which pass the same tests in a
second loop and whose lists are `Windows`'; a lit output without a composition target
or a box; whether the frame of the shell that a message makes due also shows
something new.

### Pointer, TextInput and Windows

Everything here is a handler on the Wayland thread.  Handlers call one another, and
wlroots calls back into them while they run: a one-shot constraint is destroyed inside
its own deactivation, a dying cursor surface calls wlroots' listener and then jdwm's.
So a handler is an operator from state to state, and an action applies those its
handler runs, in order; the order of destroy listeners is state of its own
(`listeners`), because `apply_cursor` exists to get it right.  `Windows` composes the
three: unmapping and destruction take the pointer's focus and the text inputs' with
them, activation moves the keyboard's.  Messages to the shell go through one queue in
order, so `shown` keeps what it was told last; its calls come back through another and
name any view, gone or not there yet.

External, modelled from use: who has the pointer's focus after a hover or a
destruction (a grab may refuse it), the order in which wlroots destroys roles and
surfaces, `current_enabled` of a text input, which a change of focus leaves alone.
Assumed of the environment: a client destroys an `xdg_toplevel` and its `xdg_surface`
together (a call in between is the hazard at `zenith_xdg_toplevel.cpp:88`) and gives
an `xdg_surface` one toplevel; an X11 client changes `override_redirect` only while
unmapped; a keyboard is plugged in.  Bounds: only xdg clients ask for constraints,
and a new cursor surface goes by the name of the one that died.  Left out: popups,
subsurfaces, decorations, sizes, positions and the states a configure carries, the
shell's own cursor lock, the cursor's position and theme, the handlers' early return
when there is no output, and the events Flutter gets.

## Runs

| Run | Instance | Shows |
|---|---|---|
| `swap_chain` | fair, 4 slots, 3 leases, 5 frames, fences in order | lease safety, exact counts, a completed frame survives, fences kept, refusal only when leased, `start_write` returns, refinement of `FrameExchange` |
| `output_frame` | fair, 1 output, 2 boxes of different sizes, 3 frames, 2 generations, capacity 1 | screen contents, no regression, the last frame is shown |
| `pacing` | intervals 4 and 9, tolerance up to 2, clock to 26; fair, 2 outputs, 60 and 144 Hz, all modes | no drift, no burst; a baton has a wakeup and comes back |
| `key_repeat` | fair, 2 keys, 2 presses | one timer, for the last key, gone before the engine; a press starts repeating |
| `key_repeat_order` | 1 key | *violated*: a repeat follows the release of its key |
| `output_configuration` | 2 outputs, 2 modes, 2 positions | record, hardware, layout, target and clients agree; failures change nothing |
| `output_wake` | the same | *violated*: waking changes which outputs are configured on |
| `resize_requests` | fair, an X11 and an xdg window, 4 calls | no request stranded, the last request wins, requests are served |
| `shutdown` | fair, 2 chains, 1 texture frame, 1 event | nothing outlives the renderer, everything is freed once, the final task is last, shutdown ends |
| `surface_commits` | 2 surfaces, 2 commits each; fair, 1 window, 2 outputs, 2 places, 2 commits, 3 calls | changed images are marked, closing windows keep theirs; a client that can be answered has its answer on the way, and gets it |
| `frame_callbacks_origin` | `FrameCallbacks` as in `surface_commits` | *violated*: the client of a window on a lit output is answered |
| `windows` | 2 xdg windows, an X11 window, a cursor, a text input, two kinds of constraint | the shell shows what is mapped; text input, cursor image and cursor lock follow the windows |

`pacing` and `surface_commits` each check two modules that share no variable, side by
side: one of the two moves, while the other has not (`MCPacing`, `MCSurfaceCommit`).

**Why the bounds suffice.**  Four slots are the code's minimum (`assert(buffers.size()
>= 4)`); with five frames a slot is reused after each has been drawn into.  Three
leases and the write target exhaust four slots.  Here GPU fences signal in the order of
their submission, as those of one GL context do; `SwapChain` itself, and its proofs,
allow any order.  Capacity 1 makes the journal forget
after one skipped frame; three frames let an output skip one and come back.  Two
generations are enough for a serial of one to be compared with the other; outputs
share nothing but the chain, so one is enough.  A clock of 26 passes through six
short and two long intervals, with a change between them.  Two keys, each pressed
once or one twice, give every way to overtake a request; a keyboard with a rate of 0
creates no timer and is left to the proofs.  With two outputs, a transaction can
fail between them and its rollback too; `MaxRight` bounds how far right a mode and a
position may reach, so that one output can lie beyond the other or over it.  Two commits of two surfaces let one overtake another behind its fence, the raster
thread sample between publication and announcement of either, and a surface die with
a commit waiting.  Clients share only the outputs and the shell's frames, which
answer each of them by itself, so one window is enough for `FrameCallbacks`; its
first commit may wait for an answer while its second is behind a fence, and three
calls hide it, move it or turn an output off, and undo that.  Two xdg windows are enough to move every focus from one to the
other, and the X11 window, whose surface may go and come back, from either to it; each
window has its own constraint, and `"locked once"` and `"confined"` are the kinds that
differ in what they lock and in what deactivation does.  Four
calls on two windows let a worker of one queue behind that of the other while a third
request overwrites a second.  Two chains let one be replaced at every point of a
frame's way; the texture frame can be erased, replaced by nothing or cleared while
Flutter holds it.

**Deadlock** is checked except where the system may really stop: `output_frame` (every
output off, no chain left to create), `key_repeat` and `shutdown` (the compositor has
exited), `resize_requests` (the shell asks for
nothing more), `surface_commits` and `frame_callbacks_origin` (every surface has
committed and gone, nobody asks for anything more), `windows` (every surface is gone).

**Fairness.**  GPU work ends (`Signal`, `CompleteFrame`, `GpuCompletes`) and a watched
fence of a client signals or hangs up, except in
`shutdown`, which must end without it.  An output that is scheduled has its frame
sooner or later: its timer is armed again by every frame that is put off, and what
puts it off ends, as `output_frame` shows.  Event loops serve queued tasks, timers and
frame events; threads inside a critical section or a call leave it; a shutdown that
was requested goes on.  Strong fairness is assumed of what is enabled again and
again: the raster thread's attempt to take the mutex other threads keep taking for
short scans; a commit that may be refused or deferred (the code retries after 1 or
16 ms, and the deferral ends with Flutter's frame or after 50 ms); the service of the
driving output while the cursor makes others the driver; and the end of
`wl_display_run`, which `wl_display_terminate` brings about as soon as the current
dispatch is done, however many tasks are queued meanwhile.

## Where code and documentation disagree

- `key_repeat_order`: `key_repeater.cpp` queues the repeat behind whatever waits in
  the platform queue, so behind the release of its key; Flutter is then told of
  another press, while the comment in `send_key_event` has repeats follow a press.
- `output_wake`: recovering from a rollback that fails while the displays are blanked
  records outputs as off (`output_configuration.cpp:172`), and the wake does not
  bring them back; the smoke test requires that blank and wake change nothing.
- `frame_callbacks_origin`: the shell gives a window's box relative to the desktop's
  top left corner, which `publish_monitor_layout` has subtracted, and
  `toplevel_intersects_output` (`output.cpp:217`) compares it with an output's box in
  the layout, where it was not.  The two agree while the leftmost output begins at 0;
  when it is off or unplugged, a window on the other output is taken to be elsewhere
  and its client waits, while the comment at `output.cpp:416` says that commits which
  only ask for a callback "must progress".

## Proofs

Every safety invariant and action property of a passing run is also a theorem, for
every value of the constants that the modules' named assumptions allow.  The
assumptions are facts of the code or its types: at least four slots
(`assert(buffers.size() >= 4)`), intervals above zero (`assert(interval_ns > 0)`), a
journal that keeps at least one entry, boxes within the composition (which
`TargetCoversDesktop` shows), marks such as `None` that are no member of the sets they
mark the absence of, bounds that are numbers.  Every theorem of the form
`Spec => []P` follows from an inductive invariant by one lemma per action; what each
invariant has to add to its properties is the following.

**`SwapChainProofs`**: `TypeCorrect` (`TypeOK`), `LeasesAreSafe` (`LeaseSafety`),
`RefCountsAreExact` (`RefCountExact`), `FencesAreKept` (`UnfinishedFenceKept`),
`CompletedFramesSurvive` (`CompletedFrameSurvives`), `RefusalsAreForced`
(`RefusedOnlyWhenLeased`), `ChainImplementsExchange` (`ImplementsFrameExchange`); any
number of slots from four up, any finite set of leases.

`LeaseSafety` is not inductive: whether a slot may be drawn into is decided by its
reference count, so the invariant needs `RefCountExact`; that needs cardinalities of
the leases of a slot, whose changes are lemmas of their own.  It also needs that the
slot being drawn into is unleased whenever `write_in_progress` holds, and that every
slot a reader can reach (published, not being written) has the pixels of its serial.
`FencesAreKept` adds that the write target's fence is already consumed.
`CompletedFramesSurvive` needs `SparedInv`: between the writer's two scans no reader
is scanning, and the slot the first scan spared is a completed one no older than what
was read last.  `RefusalsAreForced` counts: the writer spares at most two slots, so
with nothing to take and nothing to wait for the rest are leased.

`ChainImplementsExchange` is the refinement: every action of the writer, the readers
and the GPU maps to a step of `FrameExchange` or to a stutter.  `SerialInv` adds what
the mapping needs: no two slots share a serial, and the newest one has the last serial
given out; so a frame's completion is its slot's fence.

**`OutputFrameProofs`**: `ScreenIsTheAcceptedFrame` (`ScreenShowsAcceptedFrame`),
`FramesOnlyMoveForward` (`SelectionNeverRegresses`); compositions, journals and boxes
of any size, any damage reports.

The invariant says of the journal that its entries are those of the last frames, one
for each, and that outside of its damage a frame has the picture of the one before
(`JournalInv`).  From it `SinceCovers`: outside of `Since(after, through)` the two
frames' pictures agree, whether the journal answers from its entries, has forgotten
them, or is asked for another chain.  That takes two inductions, over the frames in
between and over the damages that are united; both go through `Least`, that a set of
numbers has a least element, since a theorem on induction that takes a predicate
cannot be used here.  On the way are the lemmas on rectangles: uniting loses no pixel,
rounding outwards and clamping keep what a report touched, what misses a box changes
nothing in it.  `SelectionNeverRegresses` needs that every leased frame is complete,
and that what an output accounts for is no newer than the newest frame handed out or
than the frame it holds (`Accepted`): frames without local damage are accounted for
without being held, so either alone would be false.

**`PacingProofs`**, the scheduler: `SchedulerTyped` (`ClockTypeOK`),
`TickStaysInReach` (`TickInReach`), `TickNeverDrifts` (`NoDrift`) by lemmas on `%` and
`\div`, `NeverABurst` (`NoBurst`) from an invariant that ties the tick to the last two
dispatches; every set of intervals and every tolerance below an interval.  Its
callers: `BatonAlwaysHasWakeup` (`BatonHasWakeup`), any outputs, rates and driver
modes.  It is inductive with the types; the work is in the cases of a poll that comes
too early, each of which must leave the vsync timer armed, and in the changes of the
driving output.

**`OutputConfigurationProofs`**: `HardwareRunsTheRecord` (`HardwareFollowsRecord`),
`LayoutHoldsTheLit` (`LayoutFollowsHardware`), `ClientsSeeTheRecord`
(`AdvertisedIsRecord`), `AcceptedSettingsAreKept` (`SettingsAreKept`),
`TargetIsTheDesktops` (`TargetCoversDesktop`), `FailedChangesLeaveNoTrace`
(`FailureChangesNothing`); any outputs, modes and positions.

The argument goes through the sets of states in which configure and reconcile may
return: each of them is shown to hold record and hardware together, recovery included,
and reconcile to rebuild the layout from the hardware.  `KInv` follows what was
accepted for each output through every record, whose open rates are filled in and
nothing else.  `CInv` follows the target: the outputs in use are those plugged in, each
once, the target in use has the desktop's width, mapping and format, none is left
prepared, and the primary output is the one reconcile would choose again.  A failed change leaves no trace because reconciling a state that
is reconciled changes nothing (`ReconcileAgain`).

**`RoundTripProofs`**, keys: `RepeaterTyped` (`KeyTypeOK`), `NeverTwoTimers`
(`OneTimer`), `TimerIsForTheLastKey` (`TimerFollowsLastKey`), `TimersEndWithTheEngine`
(`NoTimerOutlivesEngine`); any keys, rates and queue lengths.  The invariant adds
`RequestsAreCurrent`: a request under way with the current generation, in whichever
queue or batch it is, is for the key whose press was handled last; and, for the end,
that nothing follows the stop task, in the queue or in the batch, so no answer arms a
timer behind it.

Resize calls: `WorkersTyped`, `NothingStranded` (`RequestHasWorker`),
`NeverTwoWorkers` (`OneWorkerEach`), `TheLastRequestWins` (`LastRequestWins`); any
windows and number of calls.  The invariant adds that requests are numbered in the
order of their calls, that the one taken is older than the one stored, and that a
window for which nothing is stored or taken reflects the last.

**`ShutdownProofs`**: `TheFinalTaskIsLast` (`FinalTaskIsLast`), `CallsAreDoneFirst`
(`CallsFindTheirOwners`), `FreedOnce` (`FreedOnceUnused`), `RendererGoesLast`
(`NothingOutlivesRenderer`); any number of chains, textures, events and calls.

For the queue: until it is closed no stop task is in it or in the batch, and from then
on there is exactly one, the last of what was accepted, in one of the two.  For what
is freed: accounts (`ChainAccount`, `ImageAccount`).  Of all chains created so far
each one in use is owed no deletion, and every other is freed or has exactly one
deletion waiting; the lemmas count tasks in sequences through every append, take and
close.  `EngineInv` says that once the engine's thread has left its loop nothing of
the engine runs or holds anything, and `StartedOnce` that it is started once at most,
without which a second start could revive the raster thread.  From the teardown of the
clients on no call and no erasure waits (`CallsDone`), and what remains in the Wayland
thread's queue when it is closed is run then (`QueueInv`).

**`SurfaceCommitProofs`**: `CommitsTyped`, `LayoutsFindImages` (`LayoutHasItsImage`),
`ChangedImagesAreMarked` (`ChangedImageIsMarked`), `ClosingImagesAreKept`
(`ClosingImageKept`); any number of surfaces and commits.  None is inductive: the
invariant adds that until a surface dies its registry entry is the image published
last, that no message, queued or delivered, names an image that was not published,
and that exactly what Flutter sampled is marked acquired.

The same module, frame callbacks: `CallbacksTyped` (`CallbackTypeOK`),
`AnswersAreComing` (`OwedAnswerIsComing`); any windows, outputs, layouts and places,
any number of commits and calls.  The step that is not obvious is a hidden window that
comes back, for nothing is scheduled then.  The invariant adds `HiddenIsTold`: the last
that the shell hears of a hidden window, queued or delivered, is that it is hidden.  So
when the window is shown again the shell either still believes it hidden, or has the
news that it was before the news that it is not, and draws on one of them.

**`WindowsProofs`**: `ShellSeesTheWindows` (`ShellSeesWindows`), `CursorIsAsIntended`
(`CursorShowsIntent`), `LockIsTheFocus` (`MotionRespectsLock`), `TypingFindsItsText`
(`ActiveTextInputIsFocused`); any number of windows of either kind, cursors, text
inputs and constraints.

For the lists: they are described by the windows' records, with the combinations of an
X11 window's flags that exist (`Consistent`), and a surface is lent to one X11 window at a
time, without which the end of one window could take another's view off the lists.
For the cursor and the text inputs (`FocusInv`): operators, not actions, are what
keeps the invariant, since a handler is a sequence of them; each of `Apply`,
`Restore`, `Update` and the rest is shown to take a state that fits to one that fits.
A state fits when the image is the one asked for, with its destroy listeners in the
order `apply_cursor` sees to, a client's wish lasts no longer than its focus, the
active constraint exists and the lock is its own, and an active text input is alive,
enabled and focused on its view.

Proved without being a run's property: the type invariants, `TickStaysInReach`,
`NeverTwoWorkers` and `LayoutsFindImages`.

Only model-checked: the liveness properties (`StartWriteReturns`, `LastFrameIsShown`,
`BatonComesBack`, `PressStartsRepeat`, `RequestsAreServed`, `ShutdownEnds`,
`CallbacksAnswered`).  Fairness and ENABLED are out of the prover's reach.  Recursion
that a proof has to follow is written as a function (`United`) or has a direct
definition; the only induction is over numbers.

## Not modelled

- The Dart half (`lib/src`): the window manager, providers, controllers and widgets.
  It is a program of its own on the other side of the platform channel; the models
  let its calls come at any time and in any order.
- Popups, subsurfaces, decorations, and all geometry a configure or a commit carries.
  They are forwarded and kept nowhere but in the cached geometries of
  `ResizeRequests`.
- The order in which commits behind different fences are applied.  The code applies
  them as their fences signal, so an older commit's pixels may come last; nothing in
  the repository says what should hold there.  `SurfaceCommit` has the behaviour, and
  numbers images in the order they are applied: `LayoutsFindImages` says that the
  registry is never behind a layout, not that a layout meets its own commit's pixels.
- X11 windows, and lit outputs without a target or a box, in `FrameCallbacks`; and
  what the shell draws in the frames it asks for.
- The time stamp of the GL context lock: it paces, and the mutex keeps the contexts
  apart whatever it says.
- PAM, EGL and environment setup, tracing, vendored code: calls into libraries,
  without a state machine.

## Plan

Done: the swapchain with its abstract exchange, output presentation, scheduler and
pacing, output configuration, queues and shutdown, key repeat, resize coalescing,
surface commits, frame callbacks, windows with the pointer and text inputs.

To come: popups and decorations; the Dart window manager over the messages of
`Windows` and `SurfaceCommit`; theorems for what the scheduler and the pacing promise
together, and that an output's use of the chain is one `FrameExchange` allows.
