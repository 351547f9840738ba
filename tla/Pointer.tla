------------------------------ MODULE Pointer ------------------------------
(***************************************************************************)
(* The mouse pointer on the Wayland thread: ZenithPointer (pointer.cpp),    *)
(* the pointer constraints of server.cpp, the shell's calls about the       *)
(* pointer (platform_api.cpp), and touch, which hides it (touch.cpp).       *)
(*                                                                          *)
(* The handlers call one another, and wlroots calls back into them while    *)
(* they run; each is an operator from the state it finds to the state it    *)
(* leaves, and an action applies the ones its handler calls, in that order. *)
(*                                                                          *)
(* External: who has the pointer's focus and what becomes of it when a      *)
(* surface dies (wlr_seat), the image on the screen (wlr_cursor), the       *)
(* constraint objects.  What Flutter is sent of each event is left out.     *)
(***************************************************************************)
EXTENDS Integers, Sequences

CONSTANTS
  XdgViews,  \* wl_surfaces of xdg toplevels, by view id
  X11Views,  \* wl_surfaces of X11 windows
  Cursors,   \* wl_surfaces that clients attach to the pointer; when one is
             \* destroyed, the next goes by the same name
  Kinds      \* constraints clients ask for, of "locked", "locked once", "confined"

VARIABLES
  surface,  \* wl_surfaces of windows: "none", "alive", "destroyed"
  pointer   \* ZenithPointer, the seat's pointer state and the constraints

None == "none"
Views == XdgViews \cup X11Views

ASSUME ViewsAssumption == XdgViews \cap X11Views = {} /\ None \notin Views

(* A surface has one role, and none is a mark of the model.                   *)
ASSUME CursorsAssumption == Cursors \cap (Views \cup {None, "hidden", "theme"}) = {}

ASSUME KindsAssumption == Kinds \subseteq {"locked", "locked once", "confined"}

Alive == {v \in Views : surface[v] = "alive"}

(* Xwayland is one client; the other windows and the cursors are another's.  *)
Client(s) == IF s \in X11Views THEN "xwayland" ELSE "app"

InitPointer ==
  /\ surface = [v \in Views |-> "none"]
  /\ pointer =
       [focus |-> None,             \* pointer_state.focused_surface
        input_visible |-> TRUE,     \* FALSE after a touch
        forced_hidden |-> FALSE,    \* the shell's set_cursor_visible
        client |-> None,            \* client_hidden ("hidden") or client_surface
        image |-> "theme",          \* what wlr_cursor draws
        listeners |-> <<>>,         \* of client_surface's destruction, in order
        client_lock |-> FALSE,      \* one of two locks; the shell's own is left out
        constraint |-> [v \in Views |-> None],
        active |-> None]            \* surface of active_pointer_constraint

-----------------------------------------------------------------------------
(* The cursor image *)

Visible(p) == p.input_visible /\ ~p.forced_hidden /\ p.client # "hidden"

DesiredImage(p) == IF ~Visible(p) THEN None
                   ELSE IF p.client \in Cursors THEN p.client ELSE "theme"

AttachedOnce(p, image) ==   \* Mutant: our listener is not attached again
  LET ours == SelectSeq(p.listeners, LAMBDA l : l = "pointer")
      wlr  == IF image \in Cursors THEN <<"cursor">> ELSE <<>>
  IN IF p.client \notin Cursors THEN <<>>
     ELSE IF Len(p.listeners) = 2 /\ wlr # <<>> THEN p.listeners
     ELSE IF ours # <<>> THEN ours \o wlr ELSE wlr \o <<"pointer">>

(* wlr_cursor listens to a surface while it draws it; ours is attached anew   *)
(* behind it.                                                                *)
Listeners(p, image) == (IF image \in Cursors THEN <<"cursor">> ELSE <<>>)
                         \o (IF p.client \in Cursors THEN <<"pointer">> ELSE <<>>)

Apply(p) == [p EXCEPT !.image = DesiredImage(p), !.listeners = Listeners(p, DesiredImage(p))]

SetVisible(p, value) ==
  IF p.input_visible = value THEN p ELSE Apply([p EXCEPT !.input_visible = value])

SetForcedHidden(p, value) ==
  IF p.forced_hidden = value THEN p ELSE Apply([p EXCEPT !.forced_hidden = value])

Restore(p) == Apply([p EXCEPT !.client = None])

SetClientCursor(p, client) == Apply([p EXCEPT !.client = client])

Heard(p, listener) == IF listener = "cursor" THEN [p EXCEPT !.image = None] ELSE Restore(p)

Told(p, listeners, i) == IF i \in DOMAIN listeners THEN Heard(p, listeners[i]) ELSE p

(* A wl_surface is destroyed: its listeners, two at most, in the order they   *)
(* were attached.                                                            *)
CursorGone(p, s) ==
  IF p.client = s THEN Told(Told(p, p.listeners, 1), p.listeners, 2) ELSE p

FocusKeepsCursor(p, s) == [p EXCEPT !.focus = s]   \* Mutant

(* The seat's focus moves; pointer_focus_change hears of a real change only.  *)
Focus(p, s) == IF p.focus = s THEN p ELSE Restore([p EXCEPT !.focus = s])

-----------------------------------------------------------------------------
(* Pointer constraints *)

Locks(p, s) == s # None /\ p.constraint[s] \in {"locked", "locked once"}

ForgottenConstraint(p, s) == [p EXCEPT !.constraint[s] = None]   \* Mutant

(* wlroots destroys a constraint; server_active_pointer_constraint_destroy.   *)
ConstraintGone(p, s) ==
  LET q == [p EXCEPT !.constraint[s] = None]
  IN IF p.active = s THEN [q EXCEPT !.active = None, !.client_lock = FALSE] ELSE q

(* server_update_pointer_constraint; a one-shot constraint is destroyed, and   *)
(* heard of, inside send_deactivated.                                        *)
UpdateConstraint(p) ==
  LET now == IF p.focus # None /\ p.constraint[p.focus] # None THEN p.focus ELSE None
      q   == IF p.active \notin {None, now} /\ p.constraint[p.active] = "locked once"
             THEN ConstraintGone(p, p.active) ELSE p
  IN [q EXCEPT !.active = now, !.client_lock = Locks(q, now)]

-----------------------------------------------------------------------------
(* Input events and requests of clients *)

StirredOnly(p) == SetVisible(p, TRUE)   \* Mutant: the constraint of an older focus

(* What motion, buttons and axes do first.                                    *)
Stirred(p) == SetVisible(UpdateConstraint(p), TRUE)

(* Motion, buttons and axes; without an output their handlers return.  A motion *)
(* moves the cursor unless it is locked; where to is left out.               *)
InputEvent == pointer' = Stirred(pointer)

TouchDown == pointer' = Focus(SetVisible(pointer, FALSE), None)

(* The client with the focus attaches a surface or hides the cursor.          *)
RequestCursor ==
  /\ pointer.focus # None
  /\ \E cursor \in {"hidden"} \cup {c \in Cursors : Client(c) = Client(pointer.focus)} :
       pointer' = SetClientCursor(pointer, cursor)

DestroyCursor(c) == pointer' = CursorGone(pointer, c)

(* Bound: X11 windows ask for none.                                           *)
RequestConstraint(s) ==
  /\ s \in Alive /\ pointer.constraint[s] = None
  /\ \E kind \in Kinds : pointer' = [pointer EXCEPT !.constraint[s] = kind]

DestroyConstraint(s) ==
  /\ pointer.constraint[s] # None
  /\ pointer' = ConstraintGone(pointer, s)

-----------------------------------------------------------------------------
(* Calls of the shell, run from the Wayland thread's queue *)

(* pointer_hover.  The surface may have been destroyed or unmapped since; a   *)
(* grab may keep the focus from it.                                          *)
Hover(s) ==
  /\ s \in Alive
  /\ \E focus \in {s, None} : pointer' = UpdateConstraint(Focus(pointer, focus))

Exit == pointer' = Restore(UpdateConstraint(Focus(pointer, None)))

SetCursorVisible == \E value \in BOOLEAN : pointer' = SetForcedHidden(pointer, ~value)

NextPointer ==
  \/ InputEvent \/ TouchDown \/ RequestCursor \/ Exit \/ SetCursorVisible
  \/ \E c \in Cursors : DestroyCursor(c)
  \/ \E s \in XdgViews : RequestConstraint(s)
  \/ \E s \in Views : Hover(s) \/ DestroyConstraint(s)
=============================================================================
