--------------------------- MODULE ResizeRequests ---------------------------
(***************************************************************************)
(* How the shell's resize_window calls reach the windows.                   *)
(*                                                                          *)
(* Flutter's platform thread stores the request of a view, overwriting the  *)
(* one before it, and queues a worker for the Wayland thread unless the     *)
(* view has one.  A worker serves its view until it finds nothing stored.   *)
(* Both hold g_resize_window_requests_mutex, but not from the storing of a  *)
(* request to the queueing of its worker, nor from the taking of a request  *)
(* to its application.                                                      *)
(*                                                                          *)
(* Sizes and places are one-dimensional.  Other tasks of the Wayland        *)
(* thread's queue, and sizes set by maximizing or by clients, are left out. *)
(***************************************************************************)
EXTENDS Integers, Sequences

CONSTANTS
  Views,      \* the toplevels, all of them shown to the shell
  Xwayland,   \* those that are X11 windows
  Requests,   \* what the shell asks for, as [width, placed, x]
  MaxCalls    \* bound: calls the shell makes

NoView == "no view"
NoRequest == [width |-> 0, placed |-> FALSE, x |-> 0, call |-> 0]

ASSUME ResizeAssumption ==
  /\ Xwayland \subseteq Views /\ NoView \notin Views
  /\ Requests \subseteq [width : Nat, placed : BOOLEAN, x : Int]
  /\ MaxCalls \in Nat

VARIABLES
  pending,     \* g_pending_resize_window_requests
  scheduled,   \* g_resize_window_worker_scheduled
  calling,     \* the view the platform thread is about to queue a worker for
  tasks,       \* workers in the Wayland thread's callable queue, by view
  worker,      \* the view whose worker runs
  taken,       \* the request it has taken
  toplevels,   \* "live", "husk" (only its xdg_surface is left) or "gone"
  geometry,    \* ZenithServer::toplevel_geometries
  configured,  \* the place and size sent to each window
  calls,       \* history: calls made so far
  asked        \* history: the last request for each view

vars == <<pending, scheduled, calling, tasks, worker, taken, toplevels, geometry,
          configured, calls, asked>>

Stored == [width : Nat, placed : BOOLEAN, x : Int, call : Nat]
Boxes  == [x : Int, width : Nat]
NoBox  == [x |-> 0, width |-> 0]

Init ==
  /\ pending = [v \in Views |-> NoRequest] /\ scheduled = {}
  /\ calling = NoView /\ tasks = <<>> /\ worker = NoView /\ taken = NoRequest
  /\ toplevels = [v \in Views |-> "live"]
  /\ geometry = [v \in Views |-> NoBox]
  /\ configured = [v \in Views |-> NoBox]
  /\ calls = 0 /\ asked = [v \in Views |-> NoRequest]
----------------------------------------------------------------------------
(* The platform thread. *)

NeedsWorker(v) == v \notin scheduled

InsertOrAssign(v, r) == [pending EXCEPT ![v] = r]

ResizeWindow(v, r) ==
  /\ calling = NoView /\ calls < MaxCalls
  /\ LET stored == [width |-> r.width, placed |-> r.placed, x |-> r.x, call |-> calls + 1]
     IN  /\ pending' = InsertOrAssign(v, stored)
         /\ asked' = [asked EXCEPT ![v] = stored]
  /\ scheduled' = scheduled \cup {v}
  /\ calling' = IF NeedsWorker(v) THEN v ELSE NoView
  /\ calls' = calls + 1
  /\ UNCHANGED <<tasks, worker, taken, toplevels, geometry, configured>>

EnqueueWorker ==
  /\ calling # NoView
  /\ tasks' = Append(tasks, calling) /\ calling' = NoView
  /\ UNCHANGED <<pending, scheduled, worker, taken, toplevels, geometry, configured,
                 calls, asked>>
----------------------------------------------------------------------------
(* The Wayland thread. *)

StartWorker ==
  /\ worker = NoView /\ tasks # <<>>
  /\ worker' = Head(tasks) /\ tasks' = Tail(tasks)
  /\ UNCHANGED <<pending, scheduled, calling, taken, toplevels, geometry, configured,
                 calls, asked>>

AtLoopTop == worker # NoView /\ taken = NoRequest

TakeRequest ==
  /\ AtLoopTop /\ pending[worker] # NoRequest
  /\ taken' = pending[worker]
  /\ pending' = [pending EXCEPT ![worker] = NoRequest]
  /\ UNCHANGED <<scheduled, calling, tasks, worker, toplevels, geometry, configured,
                 calls, asked>>

MayStopEarly == AtLoopTop   \* Mutant: looks before it takes the mutex

MayStop == AtLoopTop /\ pending[worker] = NoRequest

StopWorker ==
  /\ MayStop
  /\ scheduled' = scheduled \ {worker} /\ worker' = NoView
  /\ UNCHANGED <<pending, calling, tasks, taken, toplevels, geometry, configured,
                 calls, asked>>

(* update_toplevel_geometry_cache; NoBox stands for no entry.               *)
Cache(old, r) ==
  IF r.width = 0 THEN old
  ELSE IF r.placed THEN [x |-> r.x, width |-> r.width]
  ELSE IF old = NoBox THEN old
  ELSE [old EXCEPT !.width = r.width]

(* configure_xwayland_toplevel, or ZenithXdgToplevel::resize, which has no  *)
(* place to send.                                                           *)
SentTo(v, r) ==
  [x |-> IF v \in Xwayland /\ r.placed THEN r.x ELSE configured[v].x, width |-> r.width]

ApplyThenErase ==   \* Mutant: erases what is stored after applying, not when taking
  /\ worker # NoView /\ taken # NoRequest
  /\ taken' = NoRequest /\ pending' = [pending EXCEPT ![worker] = NoRequest]
  /\ geometry' = IF toplevels[worker] = "gone" THEN geometry
                 ELSE [geometry EXCEPT ![worker] = Cache(@, taken)]
  /\ configured' = IF toplevels[worker] # "live" THEN configured
                   ELSE [configured EXCEPT ![worker] = SentTo(worker, taken)]
  /\ UNCHANGED <<scheduled, calling, tasks, worker, toplevels, calls, asked>>

(* An xdg_toplevel that is gone while its xdg_surface stays is still found  *)
(* in server->toplevels; there is no window left to hear of it.             *)
ApplyRequest ==
  /\ worker # NoView /\ taken # NoRequest
  /\ taken' = NoRequest
  /\ geometry' = IF toplevels[worker] = "gone" THEN geometry
                 ELSE [geometry EXCEPT ![worker] = Cache(@, taken)]
  /\ configured' = IF toplevels[worker] # "live" THEN configured
                   ELSE [configured EXCEPT ![worker] = SentTo(worker, taken)]
  /\ UNCHANGED <<pending, scheduled, calling, tasks, worker, toplevels, calls, asked>>

(* zenith_xdg_toplevel_destroy, or the end of an X11 window.                *)
DestroyToplevel(v) ==
  /\ worker = NoView /\ toplevels[v] = "live"
  /\ toplevels' = [toplevels EXCEPT ![v] = IF v \in Xwayland THEN "gone" ELSE "husk"]
  /\ geometry' = [geometry EXCEPT ![v] = NoBox]
  /\ UNCHANGED <<pending, scheduled, calling, tasks, worker, taken, configured, calls, asked>>

DestroySurface(v) ==
  /\ worker = NoView /\ toplevels[v] = "husk"
  /\ toplevels' = [toplevels EXCEPT ![v] = "gone"]
  /\ UNCHANGED <<pending, scheduled, calling, tasks, worker, taken, geometry, configured,
                 calls, asked>>

Platform == (\E v \in Views, r \in Requests : ResizeWindow(v, r)) \/ EnqueueWorker
Work     == StartWorker \/ TakeRequest \/ StopWorker \/ ApplyRequest
Windows  == \E v \in Views : DestroyToplevel(v) \/ DestroySurface(v)

Next == Platform \/ Work \/ Windows

Spec == Init /\ [][Next]_vars

(* The platform thread leaves its call, the Wayland thread its queue.       *)
FairSpec == Spec /\ WF_vars(EnqueueWorker) /\ WF_vars(Work)
----------------------------------------------------------------------------
TypeOK ==
  /\ pending \in [Views -> Stored] /\ asked \in [Views -> Stored]
  /\ scheduled \subseteq Views
  /\ calling \in Views \cup {NoView} /\ worker \in Views \cup {NoView}
  /\ tasks \in Seq(Views) /\ taken \in Stored
  /\ toplevels \in [Views -> {"live", "husk", "gone"}]
  /\ geometry \in [Views -> Boxes] /\ configured \in [Views -> Boxes]
  /\ calls \in Nat

HasWorker(v) == calling = v \/ worker = v \/ \E i \in DOMAIN tasks : tasks[i] = v

(* A stored request is never stranded: the view has a worker that is        *)
(* queued, about to be, or running, whenever a request is stored for it     *)
(* (enqueue_worker in resize_window, and the erase of a stopping worker).   *)
RequestHasWorker ==
  \A v \in Views : /\ pending[v] # NoRequest => v \in scheduled
                   /\ v \in scheduled <=> HasWorker(v)

(* No view ever has two workers: they would apply its requests out of turn. *)
OneWorkerEach ==
  /\ \A i, j \in DOMAIN tasks : tasks[i] = tasks[j] => i = j
  /\ \A i \in DOMAIN tasks : tasks[i] \notin {calling, worker}
  /\ calling = NoView \/ calling # worker

(* The window of v and the frame callbacks' filter know r.                   *)
Reflected(v, r) ==
  /\ configured[v].width = r.width
  /\ r.placed =>
       /\ v \in Xwayland => configured[v].x = r.x
       /\ r.width > 0 => geometry[v] = [x |-> r.x, width |-> r.width]
  /\ geometry[v] # NoBox /\ r.width > 0 => geometry[v].width = r.width

(* When a view has no worker, what the shell asked for last is what its     *)
(* window was sent and what the frame callbacks are filtered by, whatever   *)
(* was overwritten on the way (toplevel_intersects_output).                 *)
LastRequestWins ==
  \A v \in Views \ scheduled :
    toplevels[v] = "live" /\ asked[v] # NoRequest => Reflected(v, asked[v])

(* Every request is served or overtaken by a later one.                     *)
RequestsAreServed ==
  \A v \in Views : pending[v] # NoRequest ~> (pending[v] = NoRequest /\ v \notin scheduled)
=============================================================================
