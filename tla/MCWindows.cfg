\* Two xdg toplevels and a text input of one client, with a cursor surface, and
\* an X11 window.
CONSTANTS
  a = a
  b = b
  XdgViews = {a, b}
  X11Views = {"w"}
  XWindows = {"x"}
  Cursors = {"c"}
  Kinds = {"locked once", "confined"}
  TextInputs = {"t"}
SPECIFICATION Spec
SYMMETRY Symmetry
CHECK_DEADLOCK FALSE
INVARIANTS
  ShellSeesWindows
  ActiveTextInputIsFocused
  CursorShowsIntent
  MotionRespectsLock
