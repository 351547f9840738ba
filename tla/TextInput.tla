----------------------------- MODULE TextInput -----------------------------
(***************************************************************************)
(* Text inputs (input/text_input.cpp): objects of a client that follow its  *)
(* keyboard focus and say where the shell's on-screen keyboard should type. *)
(* As in Pointer, a handler is an operator from state to state.             *)
(*                                                                          *)
(* External (wlroots): focused_surface and current_enabled; leaving a       *)
(* surface does not change current_enabled, and a commit is announced as    *)
(* enable, disable or commit by how it changes.                             *)
(***************************************************************************)
EXTENDS Pointer

CONSTANT TextInputs   \* text inputs, all of the client "app"

ASSUME TextInputsAssumption == None \notin TextInputs

VARIABLES
  input,     \* server->text_inputs, and active_text_input of every view
  focused    \* keyboard_state.focused_surface

InitTextInput ==
  /\ input = [text |-> [t \in TextInputs |-> [alive |-> FALSE, enabled |-> FALSE, focus |-> None]],
              active |-> [v \in Views |-> None]]
  /\ focused = None

TextInputsOf(client) == {t \in TextInputs : client = "app" /\ input.text[t].alive}

TextInputsOn(s) == {t \in TextInputs : input.text[t].focus = s}

Disable(i, t) == [i EXCEPT !.active[i.text[t].focus] = None]

(* Those that have a focus lose it, each disabled first if it is enabled.     *)
LeaveAll(i, texts) ==
  [text   |-> [t \in TextInputs |-> IF t \in texts THEN [i.text[t] EXCEPT !.focus = None]
                                    ELSE i.text[t]],
   active |-> [v \in Views |-> IF \E t \in texts : i.text[t].enabled /\ i.text[t].focus = v
                               THEN None ELSE i.active[v]]]

(* Those that are elsewhere leave, and then enter.                            *)
EnterAll(i, texts, s) ==
  LET j == LeaveAll(i, {t \in texts : i.text[t].focus # s})
  IN [j EXCEPT !.text = [t \in TextInputs |-> IF t \in texts THEN [j.text[t] EXCEPT !.focus = s]
                                              ELSE j.text[t]]]

(* The wl_surface dies: wlroots forgets it, and the view goes with it.        *)
SurfaceForgotten(i, s) ==
  [text   |-> [t \in TextInputs |-> IF i.text[t].focus = s THEN [i.text[t] EXCEPT !.focus = None]
                                    ELSE i.text[t]],
   active |-> [i.active EXCEPT ![s] = None]]

-----------------------------------------------------------------------------
(* Requests of the client *)

TextCreate(t) ==
  /\ ~input.text[t].alive
  /\ input' = [input EXCEPT !.text[t] =
       [alive |-> TRUE, enabled |-> FALSE,
        focus |-> IF focused # None /\ Client(focused) = "app" THEN focused ELSE None]]

TextEnable(t) ==
  /\ input.text[t].alive /\ ~input.text[t].enabled
  /\ LET i == [input EXCEPT !.text[t].enabled = TRUE] IN
     input' = IF i.text[t].focus = None THEN i ELSE [i EXCEPT !.active[i.text[t].focus] = t]

TextDisable(t) ==
  /\ input.text[t].alive /\ input.text[t].enabled
  /\ LET i == [input EXCEPT !.text[t].enabled = FALSE] IN
     input' = IF i.text[t].focus = None THEN i ELSE Disable(i, t)

ForgottenText(i, t) == i   \* Mutant: destroyed without being disabled

(* text_input_destroy_handle, before the object is freed.                     *)
DisabledText(i, t) == IF i.text[t].enabled /\ i.text[t].focus # None THEN Disable(i, t) ELSE i

TextDestroy(t) ==
  /\ input.text[t].alive
  /\ input' = [DisabledText(input, t) EXCEPT !.text[t] =
       [alive |-> FALSE, enabled |-> FALSE, focus |-> None]]

NextTextInput == \E t \in TextInputs : TextCreate(t) \/ TextEnable(t) \/ TextDisable(t) \/ TextDestroy(t)
=============================================================================
