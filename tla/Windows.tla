------------------------------ MODULE Windows ------------------------------
(***************************************************************************)
(* Windows on the Wayland thread, their focus and the pointer over them:    *)
(* xdg toplevels (zenith_xdg_surface.cpp, zenith_xdg_toplevel.cpp), X11     *)
(* windows (zenith_xwayland_toplevel.cpp), what the shell is told of them   *)
(* (embedder_state.cpp) and the calls it makes (platform_api.cpp).          *)
(*                                                                          *)
(* Messages to the shell are queued in order, so what it was told last is   *)
(* all that is kept.  Calls of the shell come from a queue: they may name   *)
(* a view that is gone or not there yet.  Sizes, positions, titles, decorations and   *)
(* the maximized and visible flags travel in messages and are not told      *)
(* apart here.  A client destroys an xdg_toplevel and its xdg_surface       *)
(* together.                                                                *)
(***************************************************************************)
EXTENDS TextInput

CONSTANT XWindows   \* X11 windows; they may have several wl_surfaces in turn

VARIABLES
  xdg,        \* xdg_toplevel of each surface
  x11,        \* ZenithXwaylandToplevel of each X11 window
  toplevels,  \* keys of server->toplevels (and of xdg_ or xwayland_toplevels)
  shown       \* views whose last message was map_toplevel_surface

views == <<toplevels, shown>>
vars  == <<surface, pointer, input, focused, xdg, x11, views>>

NoX11 == [alive |-> FALSE, surface |-> None, override |-> FALSE, mapped |-> FALSE,
          is_mapped |-> FALSE, registered |-> FALSE, view_id |-> None]

Init ==
  /\ InitPointer /\ InitTextInput
  /\ xdg = [v \in XdgViews |-> "none"] /\ x11 = [w \in XWindows |-> NoX11]
  /\ toplevels = {} /\ shown = {}

(* Unmapping and destroying: text inputs leave, the pointer's focus goes.     *)
Unfocus(s) ==
  /\ input' = LeaveAll(input, TextInputsOn(s))
  /\ pointer' = IF pointer.focus = s THEN Focus(pointer, None) ELSE pointer

(* Messages to the shell: map_xdg_surface, map_toplevel_surface, and back.     *)
MapXdgSurface(v) == shown' = shown \cup {v}

UnmapXdgSurface(v) == shown' = shown \ {v}

MapToplevelSurface(v) == shown' = shown \cup {v}

UnmapToplevelSurface(v) == shown' = shown \ {v}

-----------------------------------------------------------------------------
(* wl_surfaces *)

CreateSurface(s) ==
  /\ surface[s] = "none"
  /\ surface' = [surface EXCEPT ![s] = "alive"]
  /\ UNCHANGED <<pointer, input, focused, xdg, x11, views>>

RoleGone(s) == /\ s \in XdgViews => xdg[s] \in {"none", "destroyed"}
               /\ \A w \in XWindows : x11[w].surface # s

(* wlroots destroys the role first, then tells listeners, then the seat.      *)
DestroySurface(s) ==
  /\ s \in Alive /\ RoleGone(s)
  /\ surface' = [surface EXCEPT ![s] = "destroyed"]
  /\ pointer' = LET p == ConstraintGone(pointer, s) IN IF p.focus = s THEN Focus(p, None) ELSE p
  /\ input' = SurfaceForgotten(input, s)
  /\ focused' = IF focused = s THEN None ELSE focused
  /\ UNCHANGED <<xdg, x11, views>>

-----------------------------------------------------------------------------
(* xdg toplevels *)

XdgCreate(v) ==
  /\ v \in Alive /\ xdg[v] = "none"
  /\ xdg' = [xdg EXCEPT ![v] = "created"]
  /\ toplevels' = toplevels \cup {v}
  /\ UNCHANGED <<surface, pointer, input, focused, x11, shown>>

(* The initial commit, answered with a configure.                             *)
XdgCommit(v) ==
  /\ xdg[v] = "created"
  /\ xdg' = [xdg EXCEPT ![v] = "configured"]
  /\ UNCHANGED <<surface, pointer, input, focused, x11, views>>

XdgMap(v) ==
  /\ xdg[v] = "configured"
  /\ xdg' = [xdg EXCEPT ![v] = "mapped"]
  /\ MapXdgSurface(v)
  /\ UNCHANGED <<surface, pointer, input, focused, x11, toplevels>>

XdgUnmap(v) ==
  /\ xdg[v] = "mapped"
  /\ xdg' = [xdg EXCEPT ![v] = "created"]
  /\ Unfocus(v) /\ UnmapXdgSurface(v)
  /\ UNCHANGED <<surface, focused, x11, toplevels>>

(* Unmapped if it is mapped, and then destroyed.                              *)
XdgDestroy(v) ==
  /\ xdg[v] \in {"created", "configured", "mapped"}
  /\ xdg' = [xdg EXCEPT ![v] = "destroyed"]
  /\ Unfocus(v)
  /\ IF xdg[v] = "mapped" THEN UnmapXdgSurface(v) ELSE UNCHANGED shown
  /\ toplevels' = toplevels \ {v}
  /\ UNCHANGED <<surface, focused, x11>>

(* ZenithXdgToplevel::focus                                                   *)
XdgFocus(v) ==
  /\ IF focused # v
     THEN /\ focused' = v
          /\ input' = EnterAll(input, TextInputsOf(Client(v)), v)
     ELSE UNCHANGED <<focused, input>>

XdgUnfocus(v) ==
  /\ input' = LeaveAll(input, TextInputsOf(Client(v)))
  /\ focused' = IF focused = v THEN None ELSE focused

(* request_minimize                                                           *)
XdgMinimize(v) ==
  /\ xdg[v] \in {"created", "configured", "mapped"}
  /\ XdgUnfocus(v)
  /\ UNCHANGED <<surface, pointer, xdg, x11, views>>

-----------------------------------------------------------------------------
(* X11 windows *)

(* ensure_registered                                                          *)
Registered(r) ==
  IF r.registered \/ r.override \/ r.surface = None THEN r
  ELSE [r EXCEPT !.registered = TRUE, !.view_id = r.surface]

Register(w, r) ==
  /\ x11' = [x11 EXCEPT ![w] = Registered(r)]
  /\ toplevels' = IF r.registered THEN toplevels ELSE toplevels \cup ({Registered(r).view_id} \ {None})

XCreate(w) ==
  /\ ~x11[w].alive
  /\ \E override \in BOOLEAN : x11' = [x11 EXCEPT ![w] = [NoX11 EXCEPT !.alive = TRUE, !.override = override]]
  /\ UNCHANGED <<surface, pointer, input, focused, xdg, views>>

(* The X11 client changes override_redirect, before the window is mapped; jdwm *)
(* does not listen.                                                          *)
XOverride(w) ==
  /\ x11[w].alive /\ ~x11[w].mapped
  /\ x11' = [x11 EXCEPT ![w].override = ~@]
  /\ UNCHANGED <<surface, pointer, input, focused, xdg, views>>

XAssociate(w, s) ==
  /\ x11[w].alive /\ x11[w].surface = None
  /\ s \in Alive /\ RoleGone(s)
  /\ Register(w, [x11[w] EXCEPT !.surface = s])
  /\ UNCHANGED <<surface, pointer, input, focused, xdg, shown>>

(* Requests that name the window register it when that is possible by now:    *)
(* request_move, request_resize, request_maximize, request_fullscreen,        *)
(* set_title, set_decorations.                                               *)
XRequest(w) ==
  /\ x11[w].alive
  /\ Register(w, x11[w])
  /\ UNCHANGED <<surface, pointer, input, focused, xdg, shown>>

(* The surface is mapped; unmanaged windows are none of the shell's business. *)
XMap(w) ==
  /\ x11[w].surface # None /\ ~x11[w].mapped
  /\ LET r == Registered(x11[w])
         shows == r.registered /\ ~r.override
     IN /\ Register(w, [x11[w] EXCEPT !.mapped = TRUE, !.is_mapped = @ \/ shows])
        /\ IF shows THEN MapToplevelSurface(r.view_id) ELSE UNCHANGED shown
  /\ UNCHANGED <<surface, pointer, input, focused, xdg>>

(* handle_unmap                                                               *)
HandleUnmap(w) ==
  /\ Unfocus(x11[w].surface)
  /\ IF x11[w].is_mapped /\ x11[w].registered /\ ~x11[w].override
     THEN UnmapToplevelSurface(x11[w].view_id) ELSE UNCHANGED shown

XUnmap(w) ==
  /\ x11[w].mapped
  /\ HandleUnmap(w)
  /\ x11' = [x11 EXCEPT ![w].mapped = FALSE, ![w].is_mapped = FALSE]
  /\ UNCHANGED <<surface, focused, xdg, toplevels>>

DetachedOnly(r) ==   \* Mutant: still registered, under the old view
  [r EXCEPT !.surface = None, !.mapped = FALSE, !.is_mapped = FALSE]

Detached(r) == [r EXCEPT !.surface = None, !.mapped = FALSE, !.is_mapped = FALSE,
                         !.registered = FALSE, !.view_id = None]

(* The X11 window loses its wl_surface, unmapped first if it is mapped.       *)
XDissociate(w) ==
  /\ x11[w].surface # None
  /\ HandleUnmap(w)
  /\ toplevels' = toplevels \ {x11[w].view_id}
  /\ x11' = [x11 EXCEPT ![w] = Detached(@)]
  /\ UNCHANGED <<surface, focused, xdg>>

(* wlroots dissociates a window before it destroys it.                        *)
XDestroy(w) ==
  /\ x11[w].alive /\ x11[w].surface = None
  /\ x11' = [x11 EXCEPT ![w] = NoX11]
  /\ UNCHANGED <<surface, pointer, input, focused, xdg, views>>

(* ZenithXwaylandToplevel::focus                                              *)
X11Focus(v) ==
  /\ IF focused # v
     THEN /\ focused' = v
          /\ input' = LeaveAll(input, TextInputs)
     ELSE UNCHANGED <<focused, input>>

X11Unfocus(v) ==
  /\ input' = LeaveAll(input, TextInputs)
  /\ focused' = IF focused = v THEN None ELSE focused

-----------------------------------------------------------------------------
(* Calls of the shell *)

Activate(v, value) ==
  /\ v \in toplevels
  /\ IF v \in XdgViews THEN IF value THEN XdgFocus(v) ELSE XdgUnfocus(v)
     ELSE IF value THEN X11Focus(v) ELSE X11Unfocus(v)
  /\ UNCHANGED <<surface, pointer, xdg, x11, views>>

PointerStep ==
  /\ NextPointer
  /\ UNCHANGED <<surface, input, focused, xdg, x11, views>>

TextInputStep ==
  /\ NextTextInput
  /\ UNCHANGED <<surface, pointer, focused, xdg, x11, views>>

XdgStep(v) == XdgCreate(v) \/ XdgCommit(v) \/ XdgMap(v) \/ XdgUnmap(v) \/ XdgDestroy(v) \/ XdgMinimize(v)

X11Step(w) == \/ XCreate(w) \/ XOverride(w) \/ XRequest(w) \/ XMap(w) \/ XUnmap(w)
              \/ XDissociate(w) \/ XDestroy(w)
              \/ \E s \in X11Views : XAssociate(w, s)

Next ==
  \/ \E s \in Views : CreateSurface(s) \/ DestroySurface(s)
  \/ \E v \in XdgViews : XdgStep(v)
  \/ \E w \in XWindows : X11Step(w)
  \/ \E v \in Views, value \in BOOLEAN : Activate(v, value)
  \/ PointerStep \/ TextInputStep

Spec == Init /\ [][Next]_vars

-----------------------------------------------------------------------------
(* Properties *)

Mapped == {v \in XdgViews : xdg[v] = "mapped"}
            \cup {x11[w].surface : w \in {u \in XWindows : x11[u].mapped /\ ~x11[u].override}}

(* The shell shows the windows that are mapped, those alone, and every window   *)
(* it shows answers its calls, in whatever order X11 windows get, map, unmap,  *)
(* and lose their surfaces.                                                   *)
ShellSeesWindows == shown = Mapped /\ shown \subseteq toplevels

(* insert_text sends what was typed to active_text_input: a live object that   *)
(* its client enabled, and that is focused on this very window.                *)
ActiveTextInputIsFocused ==
  \A v \in Views : input.active[v] # None =>
    LET t == input.text[input.active[v]] IN t.alive /\ t.enabled /\ t.focus = v

(* The cursor on the screen is the one the flags ask for, also after surfaces   *)
(* died while they were drawn or hidden; and a client's image, or its wish to   *)
(* hide the cursor, ends with its focus.                                       *)
CursorShowsIntent ==
  /\ pointer.image = DesiredImage(pointer)
  /\ pointer.client # None =>
       /\ pointer.focus # None
       /\ pointer.client \in Cursors => Client(pointer.client) = Client(pointer.focus)

(* Between events the client's lock is that of the active constraint; and       *)
(* whatever became of the focus since the last event, a motion finds the cursor *)
(* locked exactly when the window under it holds a locked constraint: never by  *)
(* that of a window that has lost the focus, or by one that is gone.            *)
MotionRespectsLock ==
  /\ pointer.client_lock = Locks(pointer, pointer.active)
  /\ Stirred(pointer).client_lock = Locks(pointer, pointer.focus)
=============================================================================
