--------------------------- MODULE FrameCallbacks ---------------------------
(* Who answers a client that waits for its next animation tick                *)
(* (notify_legacy_clients_frame_done, schedule_compositor_frame).             *)
(*                                                                            *)
(* A frame callback is answered when an output has a frame, and only for a    *)
(* window that is mapped, visible and not elsewhere.  None of the three is    *)
(* decided by the client alone: the shell hides, shows and places windows in  *)
(* calls that schedule no frame, and relies on what it draws afterwards.      *)
(*                                                                            *)
(* Windows are xdg toplevels, each with its tree of surfaces.  Desktop and    *)
(* windows have one coordinate; the other one is compared alike.  A lit       *)
(* output has a composition target and a box in the layout.                   *)
EXTENDS Integers, Sequences, SequencesExt, FiniteSets

CONSTANTS
  Toplevels,     \* view ids; one is never used again
  Outputs,
  Layout,        \* the box of each output in the output layout
  Places,        \* boxes the shell may give a window
  Unknown,       \* no box
  MaxCommitted,  \* bound: commits in a run
  MaxCalls       \* bound: calls of the shell, minimize requests, reconciliations

Boxes == [left : Int, right : Int]

ASSUME CallbackAssumption ==
  /\ MaxCommitted \in Nat /\ MaxCalls \in Nat
  /\ Layout \in [Outputs -> Boxes] /\ Places \subseteq Boxes /\ Unknown \notin Places

VARIABLES
  window,        \* "none", "alive", "gone"
  mapped,        \* wlr_surface::mapped
  visible,       \* ZenithXdgToplevel::is_visible
  geometry,      \* toplevel_geometries
  awaiting,      \* windows with a frame callback in their list
  fenced,        \* pending_surface_commits
  lost,          \* windows whose commit went with its fence, until they are served again
  lit,           \* outputs that are enabled
  repaint,       \* outputs with a frame event, or the timer of one, to come
  toShell,       \* messages on their way through EmbedderState::callable_queue
  shellVisible,  \* the shell: XdgToplevelState.visible
  frameDue,      \* the shell: a frame is requested, drawn or about to be announced
  committed, calls

windows == <<window, mapped, visible, geometry>>
pending == <<awaiting, fenced, lost>>
display == <<lit, repaint>>
shell   == <<toShell, shellVisible, frameDue>>
callbackVars == <<windows, pending, display, shell, committed, calls>>

Draw == [kind |-> "draw"]                                         \* schedule_frame, mark
State(v, b) == [kind |-> "state", view |-> v, visible |-> b]      \* set_window_state
FencedCommits ==
  [view : Toplevels, changed : BOOLEAN, callback : BOOLEAN, number : 1..MaxCommitted]

CallbackInit ==
  /\ window = [v \in Toplevels |-> "none"] /\ mapped = [v \in Toplevels |-> FALSE]
  /\ visible = [v \in Toplevels |-> TRUE] /\ geometry = [v \in Toplevels |-> Unknown]
  /\ awaiting = {} /\ fenced = {} /\ lost = {}
  /\ lit = Outputs /\ repaint = Outputs
  /\ toShell = <<>> /\ shellVisible = [v \in Toplevels |-> TRUE] /\ frameDue = TRUE
  /\ committed = 0 /\ calls = 0

-----------------------------------------------------------------------------
(* The Wayland thread: clients *)

CreateToplevel(v) ==
  /\ window[v] = "none"
  /\ window' = [window EXCEPT ![v] = "alive"]
  /\ UNCHANGED <<mapped, visible, geometry, pending, display, shell, committed, calls>>

Asked(v, asks) == IF asks THEN awaiting \cup {v} ELSE awaiting

(* Without a buffer: the handler of the surface returns.  A mapped window is    *)
(* unmapped (zenith_xdg_surface_unmap); one that is not configured yet has its   *)
(* state sent (zenith_xdg_toplevel_commit).                                     *)
CommitWithoutBuffer(v) ==
  /\ window[v] = "alive" /\ committed < MaxCommitted
  /\ \E asks \in BOOLEAN : awaiting' = Asked(v, asks)
  /\ mapped' = [mapped EXCEPT ![v] = FALSE]
  /\ repaint' = IF mapped[v] THEN lit ELSE repaint
  /\ toShell' \in {toShell, Append(toShell, State(v, visible[v]))}
  /\ committed' = committed + 1
  /\ UNCHANGED <<window, visible, geometry, fenced, lost, lit, shellVisible, frameDue, calls>>

CommitAppliedQuietly(m, queue) ==   \* Mutant: unchanged pixels are not worth a frame
  /\ toShell' = IF m.changed THEN Append(queue, Draw) ELSE queue
  /\ repaint' = IF m.changed THEN lit ELSE repaint
  /\ lost' = lost \ {m.view}

(* commit_surface: new pixels and pending callbacks make the shell draw.        *)
CommitApplied(m, queue) ==
  /\ toShell' = IF m.changed \/ m.callback THEN Append(queue, Draw) ELSE queue
  /\ repaint' = lit
  /\ lost' = lost \ {m.view}

(* With a buffer: an unmapped window is mapped first (zenith_xdg_surface_map).   *)
(* Then the commit is applied, waits for its fence, or is lost because that     *)
(* cannot be watched.  A first buffer has new pixels.                           *)
CommitWithBuffer(v) ==
  /\ window[v] = "alive" /\ committed < MaxCommitted
  /\ \E asks \in BOOLEAN, changed \in {TRUE, ~mapped[v]} :
       LET m == [view |-> v, changed |-> changed, callback |-> v \in Asked(v, asks),
                 number |-> committed + 1]
           queue == IF mapped[v] THEN toShell ELSE Append(toShell, State(v, visible[v]))
       IN /\ awaiting' = Asked(v, asks)
          /\ \/ CommitApplied(m, queue) /\ UNCHANGED fenced
             \/ /\ \/ fenced' = fenced \cup {m} /\ UNCHANGED lost
                   \/ lost' = lost \cup {v} /\ UNCHANGED fenced
                /\ toShell' = queue
                /\ repaint' = IF mapped[v] THEN repaint ELSE lit
  /\ mapped' = [mapped EXCEPT ![v] = TRUE]
  /\ committed' = committed + 1
  /\ UNCHANGED <<window, visible, geometry, lit, shellVisible, frameDue, calls>>

(* The event source of a fence: readable, or hung up.                           *)
FenceSignals(m) ==
  /\ m \in fenced /\ fenced' = fenced \ {m}
  /\ CommitApplied(m, toShell)
  /\ UNCHANGED <<windows, awaiting, lit, shellVisible, frameDue, committed, calls>>

FenceLost(m) ==
  /\ m \in fenced /\ fenced' = fenced \ {m}
  /\ lost' = lost \cup {m.view}
  /\ UNCHANGED <<windows, awaiting, display, shell, committed, calls>>

(* Nobody waits for a window that is gone.                                       *)
DestroyToplevel(v) ==
  /\ window[v] = "alive"
  /\ window' = [window EXCEPT ![v] = "gone"]
  /\ mapped' = [mapped EXCEPT ![v] = FALSE]
  /\ geometry' = [geometry EXCEPT ![v] = Unknown]
  /\ awaiting' = awaiting \ {v} /\ lost' = lost \ {v}
  /\ fenced' = {m \in fenced : m.view # v}
  /\ repaint' = IF mapped[v] THEN lit ELSE repaint
  /\ UNCHANGED <<visible, lit, shell, committed, calls>>

-----------------------------------------------------------------------------
(* The Wayland thread: the shell's calls, outputs *)

Called == calls < MaxCalls /\ calls' = calls + 1

StateUntold(v, b) == toShell   \* Mutant: the shell asked for it, so it knows

StateTold(v, b) == Append(toShell, State(v, b))

(* change_window_visibility: no frame is scheduled.                             *)
ChangeVisibility(v, b) ==
  /\ Called /\ window[v] = "alive"
  /\ visible' = [visible EXCEPT ![v] = b]
  /\ toShell' = StateTold(v, b)
  /\ UNCHANGED <<window, mapped, geometry, pending, display, shellVisible, frameDue, committed>>

(* A client's own request, to the same effect.                                  *)
RequestMinimize(v) == ChangeVisibility(v, FALSE)

(* apply_resize_window_request with a position.  Nothing is scheduled either:   *)
(* the shell draws a window where it has put it.                                *)
PlaceWindow(v, p) ==
  /\ Called /\ window[v] = "alive"
  /\ geometry' = [geometry EXCEPT ![v] = p] /\ frameDue' = TRUE
  /\ UNCHANGED <<window, mapped, visible, pending, display, toShell, shellVisible, committed>>

(* Outputs come, go, blank and wake; every enabled one is scheduled, and the     *)
(* timer of one that went off is disarmed.                                       *)
Reconcile(l) ==
  /\ Called
  /\ lit' = l /\ repaint' = l
  /\ UNCHANGED <<windows, pending, shell, committed>>

-----------------------------------------------------------------------------
(* Frames *)

Intersect(a, b) == a.left < b.right /\ b.left < a.right

(* toplevel_intersects_output *)
IntersectsOutput(v, o) == geometry[v] = Unknown \/ Intersect(geometry[v], Layout[o])

(* The tests of notify_legacy_clients_frame_done.                               *)
NotifiedOn(v, o) == window[v] = "alive" /\ mapped[v] /\ visible[v] /\ IntersectsOutput(v, o)

(* output_frame, when it commits a frame or finds nothing to draw.  In its other *)
(* ways out - no frame yet, one that is not ready or would go back, a deferred   *)
(* or failed commit - nobody is answered, but the output's timer is armed: it    *)
(* stays in repaint.                                                             *)
NotifyOnFrame(o) ==
  /\ o \in repaint /\ repaint' = repaint \ {o}
  /\ LET answered == {v \in Toplevels : NotifiedOn(v, o)}
     IN awaiting' = awaiting \ answered /\ lost' = lost \ answered
  /\ UNCHANGED <<windows, fenced, lit, shell, committed, calls>>

(* The shell's queue.  A window that comes back or goes is drawn anew.           *)
RunMessage ==
  /\ toShell # <<>> /\ toShell' = Tail(toShell)
  /\ LET message == Head(toShell)
     IN \/ /\ message.kind = "draw"
           /\ frameDue' = TRUE /\ UNCHANGED shellVisible
        \/ /\ message.kind = "state"
           /\ shellVisible' = [shellVisible EXCEPT ![message.view] = message.visible]
           /\ frameDue' = (frameDue \/ shellVisible[message.view] # message.visible)
  /\ UNCHANGED <<windows, pending, display, committed, calls>>

(* commit_framebuffer and its task.                                              *)
PresentComposition ==
  /\ frameDue /\ frameDue' = FALSE
  /\ repaint' = lit
  /\ UNCHANGED <<windows, pending, lit, toShell, shellVisible, committed, calls>>

-----------------------------------------------------------------------------
CallbackNext ==
  \/ \E v \in Toplevels :
       \/ CreateToplevel(v) \/ CommitWithoutBuffer(v) \/ CommitWithBuffer(v)
       \/ DestroyToplevel(v) \/ RequestMinimize(v)
       \/ \E b \in BOOLEAN : ChangeVisibility(v, b)
       \/ \E p \in Places : PlaceWindow(v, p)
  \/ \E m \in fenced : FenceSignals(m) \/ FenceLost(m)
  \/ \E l \in SUBSET Outputs : Reconcile(l)
  \/ \E o \in Outputs : NotifyOnFrame(o)
  \/ RunMessage \/ PresentComposition

CallbackSpec == CallbackInit /\ [][CallbackNext]_callbackVars

(* The event loop and the shell keep running, fences that are watched signal or  *)
(* hang up, and an output is not put off for ever.                               *)
CallbackFairness ==
  /\ WF_callbackVars(RunMessage) /\ WF_callbackVars(PresentComposition)
  /\ \A o \in Outputs : WF_callbackVars(NotifyOnFrame(o))
  /\ WF_callbackVars(\E m \in fenced : FenceSignals(m) \/ FenceLost(m))

FairCallbackSpec == CallbackSpec /\ CallbackFairness

-----------------------------------------------------------------------------
(* Properties *)

CallbackTypeOK ==
  /\ window \in [Toplevels -> {"none", "alive", "gone"}]
  /\ mapped \in [Toplevels -> BOOLEAN] /\ visible \in [Toplevels -> BOOLEAN]
  /\ geometry \in [Toplevels -> Places \cup {Unknown}]
  /\ awaiting \subseteq Toplevels /\ lost \subseteq Toplevels /\ fenced \subseteq FencedCommits
  /\ lit \subseteq Outputs /\ repaint \subseteq lit
  /\ toShell \in Seq({Draw} \cup {State(v, b) : v \in Toplevels, b \in BOOLEAN})
  /\ shellVisible \in [Toplevels -> BOOLEAN] /\ frameDue \in BOOLEAN
  /\ committed \in 0..MaxCommitted /\ calls \in 0..MaxCalls

Served(v) == \E o \in lit : NotifiedOn(v, o)

\* change_window_visibility and resize_window schedule no frame, and a frame that came
\* while a window was hidden or elsewhere passed it over.  Still, whenever a client
\* that waits could be answered, what will answer it is on its way: a frame of an
\* output it is on, its commit behind a fence, a frame of the shell, or the news that
\* make the shell draw one.  Only a commit that was lost with its fence is not made up
\* for.
OwedAnswerIsComing ==
  \A v \in awaiting \ lost :
    Served(v) => \/ \E o \in repaint : NotifiedOn(v, o)
                 \/ \E m \in fenced : m.view = v
                 \/ frameDue
                 \/ ~shellVisible[v] \/ State(v, FALSE) \in ToSet(toShell)

\* "A client can ask for its next animation tick without changing pixels", and "unchanged
\* output may owe client frame callbacks": a client that waits, and is not hidden, unmapped,
\* moved away from the lit outputs or left with a lost commit in the meantime, is answered.
CallbacksAnswered ==
  \A v \in Toplevels :
    v \in awaiting /\ Served(v) ~> v \notin awaiting \/ ~Served(v) \/ v \in lost

(* Where the shell's boxes are: it is told of monitors relative to the desktop's  *)
(* top left corner (publish_monitor_layout), and is drawn that way.              *)
Origin == CHOOSE x \in {Layout[o].left : o \in lit} : \A o \in lit : x <= Layout[o].left

OnScreen(v) ==
  /\ window[v] = "alive" /\ mapped[v] /\ visible[v] /\ geometry[v] # Unknown
  /\ \E o \in lit : Intersect(geometry[v], [left |-> Layout[o].left - Origin,
                                            right |-> Layout[o].right - Origin])

\* "Callback-only client commits must progress even when no pixels changed": the client of
\* a window that is to be seen on a lit output is answered.
ShownClientsProgress ==
  \A v \in Toplevels :
    v \in awaiting /\ OnScreen(v) ~> v \notin awaiting \/ ~OnScreen(v) \/ v \in lost
=============================================================================
