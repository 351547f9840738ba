--------------------------- MODULE WindowsProofs ---------------------------
(* For any number of windows of either kind, cursors and text inputs: the     *)
(* shell shows the windows that are mapped and can call every one of them;    *)
(* the pointer's image and lock are those its surroundings ask for; and what  *)
(* is typed goes to a text input its client enabled on the focused window.    *)
EXTENDS Windows, TLAPS

XStates == [alive : BOOLEAN, surface : X11Views \cup {None}, override : BOOLEAN,
            mapped : BOOLEAN, is_mapped : BOOLEAN, registered : BOOLEAN,
            view_id : X11Views \cup {None}]

WindowsTypeOK ==
  /\ xdg \in [XdgViews -> {"none", "created", "configured", "mapped", "destroyed"}]
  /\ x11 \in [XWindows -> XStates]

(* Only live X11 windows have surfaces.  One is registered under its surface  *)
(* or under nothing; mapped and managed, it is registered and the shell was told. *)
Consistent(r) ==
  /\ r.view_id = IF r.registered THEN r.surface ELSE None
  /\ r.registered => r.surface # None
  /\ r.surface # None => r.alive
  /\ r.mapped => r.surface # None
  /\ r.mapped /\ ~r.override => r.registered
  /\ r.is_mapped <=> r.mapped /\ ~r.override

(* A surface is lent to one X11 window at a time.                               *)
Lent == \A u, w \in XWindows : x11[u].surface = x11[w].surface /\ x11[u].surface # None => u = w

XdgListed == {v \in XdgViews : xdg[v] \in {"created", "configured", "mapped"}}
XListed   == {v \in X11Views : \E w \in XWindows : x11[w].view_id = v}
XdgMapped == {v \in XdgViews : xdg[v] = "mapped"}
XMapped   == {v \in X11Views : \E w \in XWindows : x11[w].surface = v /\ x11[w].is_mapped}

Inv ==
  /\ WindowsTypeOK /\ Lent
  /\ \A w \in XWindows : Consistent(x11[w])
  /\ toplevels = XdgListed \cup XListed
  /\ shown = XdgMapped \cup XMapped

(* None is no view, and no view is of both kinds.                               *)
LEMMA ViewKinds ==
  /\ \A v \in XdgViews : v \notin X11Views /\ v # None
  /\ \A v \in X11Views : v \notin XdgViews /\ v # None
  BY ViewsAssumption DEF Views

LEMMA InitInv == Init => Inv
<1> SUFFICES ASSUME Init PROVE Inv
  OBVIOUS
<1>1. WindowsTypeOK /\ Lent /\ (\A w \in XWindows : Consistent(x11[w]))
  BY DEF Init, WindowsTypeOK, XStates, NoX11, Lent, Consistent
<1>2. XdgListed = {} /\ XListed = {} /\ XdgMapped = {} /\ XMapped = {}
  BY ViewKinds DEF Init, NoX11, XdgListed, XListed, XdgMapped, XMapped
<1> QED
  BY <1>1, <1>2 DEF Init, Inv

(* Registering changes what is listed by the view it registers, if any.         *)
LEMMA RegisteredIs ==
  ASSUME NEW r \in XStates, Consistent(r)
  PROVE  /\ Registered(r) \in XStates /\ Consistent(Registered(r))
         /\ Registered(r).surface = r.surface /\ Registered(r).mapped = r.mapped
         /\ Registered(r).is_mapped = r.is_mapped /\ Registered(r).override = r.override
         /\ r.registered => Registered(r) = r
         /\ ~r.override /\ r.surface # None => Registered(r).registered
  BY DEF Registered, Consistent, XStates

-----------------------------------------------------------------------------
(* Steps, by what they change                                                  *)

Listed == {"created", "configured", "mapped"}

(* A step of one xdg window that lists and shows it as its new state asks.      *)
LEMMA XdgChanged ==
  ASSUME Inv, NEW v \in XdgViews, NEW s \in {"created", "configured", "mapped", "destroyed"},
         xdg' = [xdg EXCEPT ![v] = s], x11' = x11,
         toplevels' = IF s \in Listed THEN toplevels \cup {v} ELSE toplevels \ {v},
         shown' = IF s = "mapped" THEN shown \cup {v} ELSE shown \ {v}
  PROVE  Inv'
<1>1. xdg' \in [XdgViews -> {"none", "created", "configured", "mapped", "destroyed"}]
      /\ xdg'[v] = s /\ \A u \in XdgViews : u # v => xdg'[u] = xdg[u]
  BY DEF Inv, WindowsTypeOK
<1>2. v \notin XListed /\ v \notin XMapped
  BY ViewKinds DEF XListed, XMapped
<1>3. XListed' = XListed /\ XMapped' = XMapped
  BY DEF XListed, XMapped
<1>4. toplevels' = XdgListed' \cup XListed
  <2>1. XdgListed' = IF s \in Listed THEN XdgListed \cup {v} ELSE XdgListed \ {v}
    BY <1>1 DEF XdgListed, Listed
  <2> QED
    BY <1>2, <2>1 DEF Inv
<1>5. shown' = XdgMapped' \cup XMapped
  <2>1. XdgMapped' = IF s = "mapped" THEN XdgMapped \cup {v} ELSE XdgMapped \ {v}
    BY <1>1 DEF XdgMapped
  <2> QED
    BY <1>2, <2>1 DEF Inv
<1> QED
  BY <1>1, <1>3, <1>4, <1>5 DEF Inv, WindowsTypeOK, Lent

(* A step of one X11 window that lists and shows it as its new record asks.     *)
LEMMA X11Changed ==
  ASSUME Inv, NEW w \in XWindows, NEW r \in XStates, Consistent(r),
         x11' = [x11 EXCEPT ![w] = r], xdg' = xdg,
         r.surface # None => \A u \in XWindows : u # w => x11[u].surface # r.surface,
         toplevels' = (toplevels \ {x11[w].view_id}) \cup ({r.view_id} \ {None}),
         shown' = (shown \ (IF x11[w].is_mapped THEN {x11[w].surface} ELSE {}))
                     \cup (IF r.is_mapped THEN {r.surface} ELSE {})
  PROVE  Inv'
<1> DEFINE o == x11[w]
<1>1. /\ x11' \in [XWindows -> XStates] /\ x11'[w] = r /\ o \in XStates /\ Consistent(o)
      /\ \A u \in XWindows : u # w => x11'[u] = x11[u]
      /\ \A u \in XWindows : x11[u] \in XStates /\ Consistent(x11[u])
  BY DEF Inv, WindowsTypeOK
<1>2. Lent'
  BY <1>1 DEF Inv, Lent
<1>3. \A u \in XWindows : Consistent(x11'[u])
  BY <1>1
<1>4. XdgListed' = XdgListed /\ XdgMapped' = XdgMapped
  BY DEF XdgListed, XdgMapped
<1>5. XListed' = (XListed \ {o.view_id}) \cup ({r.view_id} \ {None})
  <2>1. \A u \in XWindows : u # w /\ x11[u].view_id # None => x11[u].view_id # o.view_id
    BY <1>1 DEF Inv, Lent, Consistent
  <2>2. r.view_id \in X11Views \cup {None} /\ None \notin X11Views
    BY ViewKinds DEF XStates
  <2>3. ASSUME NEW v \in X11Views
        PROVE  v \in XListed' <=> v \in (XListed \ {o.view_id}) \cup ({r.view_id} \ {None})
    <3>1. v \in XListed' <=> r.view_id = v \/ \E u \in XWindows : u # w /\ x11[u].view_id = v
      BY <1>1 DEF XListed
    <3>2. v \in XListed \ {o.view_id} <=> \E u \in XWindows : u # w /\ x11[u].view_id = v
      BY <2>1, <2>2 DEF XListed
    <3> QED
      BY <2>2, <3>1, <3>2
  <2>4. XListed' \subseteq X11Views /\ XListed \subseteq X11Views
    BY DEF XListed
  <2> QED
    BY <2>2, <2>3, <2>4
<1>6. XMapped' = (XMapped \ (IF o.is_mapped THEN {o.surface} ELSE {}))
                   \cup (IF r.is_mapped THEN {r.surface} ELSE {})
  <2>1. \A u \in XWindows : u # w /\ x11[u].is_mapped => /\ x11[u].surface # None
                                                         /\ x11[u].surface # o.surface
    BY <1>1 DEF Inv, Lent, Consistent
  <2>2. /\ r.is_mapped => r.surface \in X11Views
        /\ o.is_mapped => o.surface \in X11Views
    BY <1>1 DEF XStates, Consistent
  <2>3. ASSUME NEW v \in X11Views
        PROVE  v \in XMapped' <=> v \in (XMapped \ (IF o.is_mapped THEN {o.surface} ELSE {}))
                                          \cup (IF r.is_mapped THEN {r.surface} ELSE {})
    <3>1. v \in XMapped' <=> \/ r.surface = v /\ r.is_mapped
                             \/ \E u \in XWindows : u # w /\ x11[u].surface = v /\ x11[u].is_mapped
      BY <1>1 DEF XMapped
    <3>2. v \in XMapped \ (IF o.is_mapped THEN {o.surface} ELSE {})
            <=> \E u \in XWindows : u # w /\ x11[u].surface = v /\ x11[u].is_mapped
      BY <2>1 DEF XMapped
    <3> QED
      BY <3>1, <3>2
  <2>4. XMapped' \subseteq X11Views /\ XMapped \subseteq X11Views
    BY DEF XMapped
  <2> QED
    BY <2>2, <2>3, <2>4
<1>7. toplevels' = XdgListed' \cup XListed'
  <2>1. o.view_id \notin XdgListed
    BY <1>1, ViewKinds DEF XdgListed, XStates
  <2> QED
    BY <1>4, <1>5, <2>1 DEF Inv
<1>8. shown' = XdgMapped' \cup XMapped'
  <2>1. o.surface \notin XdgMapped
    BY <1>1, ViewKinds DEF XdgMapped, XStates
  <2> QED
    BY <1>4, <1>6, <2>1 DEF Inv
<1> QED
  BY <1>1, <1>2, <1>3, <1>7, <1>8 DEF Inv, WindowsTypeOK

(* What a record says of the lists.                                             *)
LEMMA ListedAs ==
  ASSUME Inv, NEW w \in XWindows
  PROVE  /\ x11[w] \in XStates /\ Consistent(x11[w])
         /\ IF x11[w].registered THEN x11[w].view_id \in toplevels ELSE x11[w].view_id = None
         /\ None \notin toplevels /\ None \notin shown
         /\ x11[w].is_mapped => x11[w].surface \in shown /\ x11[w].view_id = x11[w].surface
<1>1. x11[w] \in XStates /\ Consistent(x11[w])
  BY DEF Inv, WindowsTypeOK
<1>2. None \notin toplevels /\ None \notin shown
  BY ViewKinds DEF Inv, XdgListed, XListed, XdgMapped, XMapped
<1>3. IF x11[w].registered THEN x11[w].view_id \in toplevels ELSE x11[w].view_id = None
  BY <1>1 DEF Inv, XListed, XStates, Consistent
<1>4. x11[w].is_mapped => x11[w].surface \in shown /\ x11[w].view_id = x11[w].surface
  BY <1>1 DEF Inv, XMapped, XStates, Consistent
<1> QED
  BY <1>1, <1>2, <1>3, <1>4

-----------------------------------------------------------------------------
(* The invariant, step by step                                                 *)

LEMMA XdgStepInv == ASSUME Inv, NEW v \in XdgViews, XdgStep(v) PROVE Inv'
<1>1. /\ xdg[v] \in Listed <=> v \in toplevels
      /\ xdg[v] = "mapped" <=> v \in shown
  BY ViewKinds DEF Inv, XdgListed, XListed, XdgMapped, XMapped, Listed
<1>2. CASE XdgCreate(v)
  <2>1. /\ xdg' = [xdg EXCEPT ![v] = "created"] /\ x11' = x11 /\ shown' = shown \ {v}
        /\ toplevels' = toplevels \cup {v}
    BY <1>1, <1>2 DEF XdgCreate
  <2> QED
    BY <2>1, XdgChanged DEF Listed
<1>3. CASE XdgCommit(v)
  <2>1. /\ xdg' = [xdg EXCEPT ![v] = "configured"] /\ x11' = x11 /\ shown' = shown \ {v}
        /\ toplevels' = toplevels \cup {v}
    BY <1>1, <1>3 DEF XdgCommit, views, Listed
  <2> QED
    BY <2>1, XdgChanged DEF Listed
<1>4. CASE XdgMap(v)
  <2>1. /\ xdg' = [xdg EXCEPT ![v] = "mapped"] /\ x11' = x11 /\ shown' = shown \cup {v}
        /\ toplevels' = toplevels \cup {v}
    BY <1>1, <1>4 DEF XdgMap, MapXdgSurface, Listed
  <2> QED
    BY <2>1, XdgChanged DEF Listed
<1>5. CASE XdgUnmap(v)
  <2>1. /\ xdg' = [xdg EXCEPT ![v] = "created"] /\ x11' = x11 /\ shown' = shown \ {v}
        /\ toplevels' = toplevels \cup {v}
    BY <1>1, <1>5 DEF XdgUnmap, UnmapXdgSurface, Listed
  <2> QED
    BY <2>1, XdgChanged DEF Listed
<1>6. CASE XdgDestroy(v)
  <2>1. /\ xdg' = [xdg EXCEPT ![v] = "destroyed"] /\ x11' = x11 /\ shown' = shown \ {v}
        /\ toplevels' = toplevels \ {v}
    BY <1>1, <1>6 DEF XdgDestroy, UnmapXdgSurface
  <2> QED
    BY <2>1, XdgChanged DEF Listed
<1>7. CASE XdgMinimize(v)
  BY <1>7 DEF XdgMinimize, views, Inv, WindowsTypeOK, Lent, XdgListed, XListed, XdgMapped, XMapped
<1> QED
  BY <1>2, <1>3, <1>4, <1>5, <1>6, <1>7 DEF XdgStep

(* Registering a window whose surface is its own keeps the invariant.           *)
LEMMA RegisterInv ==
  ASSUME Inv, NEW w \in XWindows, NEW q \in XStates,
         q.registered = x11[w].registered, q.view_id = x11[w].view_id,
         q.is_mapped => ~x11[w].is_mapped \/ q.surface = x11[w].surface,
         x11[w].is_mapped => q.is_mapped,
         Consistent(Registered(q)),
         q.surface # None => \A u \in XWindows : u # w => x11[u].surface # q.surface,
         Register(w, q), xdg' = xdg,
         shown' = shown \cup (IF q.is_mapped THEN {q.surface} ELSE {})
  PROVE  Inv'
<1> DEFINE r == Registered(q)
<1>1. /\ r \in XStates /\ Consistent(r) /\ r.surface = q.surface /\ r.is_mapped = q.is_mapped
      /\ q.registered => r = q
  BY DEF Registered, XStates
<1>2. x11' = [x11 EXCEPT ![w] = r]
  BY DEF Register
<1>3. toplevels' = IF q.registered THEN toplevels ELSE toplevels \cup ({r.view_id} \ {None})
  BY DEF Register
<1> HIDE DEF r
<1>4. toplevels' = (toplevels \ {x11[w].view_id}) \cup ({r.view_id} \ {None})
  <2>1. CASE q.registered
    BY <1>1, <1>3, <2>1, ListedAs
  <2>2. CASE ~q.registered
    BY <1>1, <1>3, <2>2, ListedAs
  <2> QED
    BY <2>1, <2>2
<1>5. shown' = (shown \ (IF x11[w].is_mapped THEN {x11[w].surface} ELSE {}))
                  \cup (IF r.is_mapped THEN {r.surface} ELSE {})
  BY <1>1
<1> QED
  BY <1>1, <1>2, <1>4, <1>5, X11Changed

(* So does a step that changes nothing the lists are made of.                   *)
LEMMA RecordChanged ==
  ASSUME Inv, NEW w \in XWindows, NEW r \in XStates, Consistent(r),
         x11' = [x11 EXCEPT ![w] = r], UNCHANGED <<xdg, views>>,
         r.surface = x11[w].surface, r.view_id = x11[w].view_id, r.is_mapped = x11[w].is_mapped
  PROVE  Inv'
<1>1. /\ toplevels' = (toplevels \ {x11[w].view_id}) \cup ({r.view_id} \ {None})
      /\ shown' = (shown \ (IF x11[w].is_mapped THEN {x11[w].surface} ELSE {}))
                     \cup (IF r.is_mapped THEN {r.surface} ELSE {})
  BY ListedAs DEF views
<1>2. r.surface # None => \A u \in XWindows : u # w => x11[u].surface # r.surface
  BY DEF Inv, Lent
<1>3. xdg' = xdg
  OBVIOUS
<1> QED
  BY <1>1, <1>2, <1>3, X11Changed

(* Unmapping takes from the shell what it was shown.                            *)
LEMMA Unmapped ==
  ASSUME Inv, NEW w \in XWindows, HandleUnmap(w)
  PROVE  shown' = shown \ (IF x11[w].is_mapped THEN {x11[w].surface} ELSE {})
  BY ListedAs DEF HandleUnmap, UnmapToplevelSurface, Consistent

LEMMA X11StepInv == ASSUME Inv, NEW w \in XWindows, X11Step(w) PROVE Inv'
<1> DEFINE o == x11[w]
<1>1. o \in XStates /\ Consistent(o)
  BY ListedAs
<1>2. ASSUME NEW v \in BOOLEAN, NEW a \in BOOLEAN,
             x11' = [x11 EXCEPT ![w] = [NoX11 EXCEPT !.alive = a, !.override = v]],
             o.surface = None, UNCHANGED <<xdg, views>>
      PROVE  Inv'
  <2> DEFINE r == [NoX11 EXCEPT !.alive = a, !.override = v]
  <2>1. r \in XStates /\ Consistent(r) /\ r.surface = None /\ r.view_id = None /\ ~r.is_mapped
    BY DEF NoX11, XStates, Consistent
  <2>2. o.view_id = None /\ ~o.is_mapped
    BY <1>1, <1>2 DEF Consistent
  <2> HIDE DEF r
  <2>3. r.is_mapped = o.is_mapped
    BY <1>1, <2>1, <2>2 DEF XStates
  <2>4. x11' = [x11 EXCEPT ![w] = r]
    BY <1>2 DEF r
  <2> QED
    BY <1>2, <2>1, <2>2, <2>3, <2>4, RecordChanged
<1>3. CASE XOverride(w)
  <2> DEFINE r == [o EXCEPT !.override = ~o.override]
  <2>1. x11' = [x11 EXCEPT ![w] = r] /\ UNCHANGED <<xdg, views>> /\ ~o.mapped
    BY <1>3 DEF XOverride
  <2>2. /\ r \in XStates /\ Consistent(r) /\ r.surface = o.surface /\ r.view_id = o.view_id
        /\ r.is_mapped = o.is_mapped
    BY <1>1, <2>1 DEF XStates, Consistent
  <2> HIDE DEF r
  <2> QED
    BY <2>1, <2>2, RecordChanged
<1>4. CASE XRequest(w)
  <2>1. Register(w, o) /\ xdg' = xdg /\ shown' = shown
    BY <1>4 DEF XRequest
  <2>2. Consistent(Registered(o))
    BY <1>1, RegisteredIs
  <2>3. o.surface # None => \A u \in XWindows : u # w => x11[u].surface # o.surface
    BY DEF Inv, Lent
  <2>4. shown' = shown \cup (IF o.is_mapped THEN {o.surface} ELSE {})
    BY <2>1, ListedAs
  <2> QED
    BY <1>1, <2>1, <2>2, <2>3, <2>4, RegisterInv
<1>5. CASE \E s \in X11Views : XAssociate(w, s)
  <2>1. PICK s \in X11Views : XAssociate(w, s)
    BY <1>5
  <2> DEFINE q == [o EXCEPT !.surface = s]
  <2>2. /\ o.alive /\ o.surface = None /\ Register(w, q) /\ xdg' = xdg /\ shown' = shown
        /\ \A u \in XWindows : x11[u].surface # s
    BY <2>1 DEF XAssociate, RoleGone
  <2>3. /\ q \in XStates /\ q.registered = o.registered /\ q.view_id = o.view_id
        /\ q.surface = s /\ q.is_mapped = o.is_mapped /\ ~o.is_mapped /\ ~o.registered /\ ~o.mapped
    BY <1>1, <2>2 DEF XStates, Consistent
  <2>4. Consistent(Registered(q))
    BY <1>1, <2>2, <2>3, ViewKinds DEF Registered, Consistent, XStates
  <2> HIDE DEF q
  <2>5. shown' = shown \cup (IF q.is_mapped THEN {q.surface} ELSE {})
    BY <2>2, <2>3
  <2> QED
    BY <2>2, <2>3, <2>4, <2>5, RegisterInv
<1>6. CASE XMap(w)
  <2> DEFINE shows == Registered(o).registered /\ ~Registered(o).override
             q == [o EXCEPT !.mapped = TRUE, !.is_mapped = o.is_mapped \/ shows]
  <2>1. /\ o.surface # None /\ ~o.mapped /\ Register(w, q) /\ xdg' = xdg
        /\ shown' = IF shows THEN shown \cup {Registered(o).view_id} ELSE shown
    BY <1>6 DEF XMap, MapToplevelSurface
  <2>2. shows = ~o.override /\ (shows => Registered(o).view_id = o.surface) /\ ~o.is_mapped
    BY <1>1, <2>1 DEF Registered, Consistent, XStates
  <2>3. /\ q \in XStates /\ q.registered = o.registered /\ q.view_id = o.view_id
        /\ q.surface = o.surface /\ q.is_mapped = ~o.override /\ q.mapped /\ q.override = o.override
    BY <1>1, <2>2 DEF XStates
  <2>4. Consistent(Registered(q))
    BY <1>1, <2>1, <2>3 DEF Registered, Consistent, XStates
  <2>5. o.surface # None => \A u \in XWindows : u # w => x11[u].surface # o.surface
    BY DEF Inv, Lent
  <2> HIDE DEF q, shows
  <2>6. shown' = shown \cup (IF q.is_mapped THEN {q.surface} ELSE {})
    BY <2>1, <2>2, <2>3
  <2> QED
    BY <2>1, <2>2, <2>3, <2>4, <2>5, <2>6, RegisterInv
<1>7. CASE XUnmap(w)
  <2> DEFINE r == [o EXCEPT !.mapped = FALSE, !.is_mapped = FALSE]
  <2>1. /\ x11' = [x11 EXCEPT ![w] = r] /\ UNCHANGED <<xdg, toplevels>>
        /\ shown' = shown \ (IF o.is_mapped THEN {o.surface} ELSE {})
    BY <1>7, Unmapped DEF XUnmap
  <2>2. r \in XStates /\ Consistent(r) /\ r.surface = o.surface /\ r.view_id = o.view_id /\ ~r.is_mapped
    BY <1>1 DEF XStates, Consistent
  <2>3. o.surface # None => \A u \in XWindows : u # w => x11[u].surface # o.surface
    BY DEF Inv, Lent
  <2> HIDE DEF r
  <2>4. toplevels' = (toplevels \ {o.view_id}) \cup ({r.view_id} \ {None})
    BY <2>1, <2>2, ListedAs
  <2>5. shown' = (shown \ (IF o.is_mapped THEN {o.surface} ELSE {}))
                    \cup (IF r.is_mapped THEN {r.surface} ELSE {})
    BY <2>1, <2>2
  <2> QED
    BY <2>1, <2>2, <2>3, <2>4, <2>5, X11Changed
<1>8. CASE XDissociate(w)
  <2> DEFINE r == Detached(o)
  <2>1. /\ x11' = [x11 EXCEPT ![w] = r] /\ xdg' = xdg /\ toplevels' = toplevels \ {o.view_id}
        /\ shown' = shown \ (IF o.is_mapped THEN {o.surface} ELSE {})
    BY <1>8, Unmapped DEF XDissociate
  <2>2. r \in XStates /\ Consistent(r) /\ r.surface = None /\ r.view_id = None /\ ~r.is_mapped
    BY <1>1 DEF Detached, XStates, Consistent
  <2> HIDE DEF r
  <2>3. /\ toplevels' = (toplevels \ {o.view_id}) \cup ({r.view_id} \ {None})
        /\ shown' = (shown \ (IF o.is_mapped THEN {o.surface} ELSE {}))
                       \cup (IF r.is_mapped THEN {r.surface} ELSE {})
    BY <2>1, <2>2
  <2> QED
    BY <2>1, <2>2, <2>3, X11Changed
<1>9. CASE XCreate(w)
  <2>1. PICK override \in BOOLEAN :
          x11' = [x11 EXCEPT ![w] = [NoX11 EXCEPT !.alive = TRUE, !.override = override]]
    BY <1>9 DEF XCreate
  <2>2. o.surface = None /\ UNCHANGED <<xdg, views>>
    BY <1>1, <1>9 DEF XCreate, Consistent
  <2> QED
    BY <1>2, <2>1, <2>2
<1>10. CASE XDestroy(w)
  <2>1. /\ o.surface = None /\ UNCHANGED <<xdg, views>>
        /\ x11' = [x11 EXCEPT ![w] = [NoX11 EXCEPT !.alive = FALSE, !.override = FALSE]]
    BY <1>10 DEF XDestroy, NoX11
  <2> QED
    BY <1>2, <2>1
<1> QED
  BY <1>3, <1>4, <1>5, <1>6, <1>7, <1>8, <1>9, <1>10 DEF X11Step

LEMMA StepInv == ASSUME Inv, [Next]_vars PROVE Inv'
<1>1. CASE UNCHANGED <<xdg, x11, views>>
  BY <1>1 DEF Inv, WindowsTypeOK, Lent, XdgListed, XListed, XdgMapped, XMapped, views
<1>2. CASE \E s \in Views : CreateSurface(s) \/ DestroySurface(s)
  BY <1>1, <1>2 DEF CreateSurface, DestroySurface
<1>3. CASE \E v \in Views, value \in BOOLEAN : Activate(v, value)
  BY <1>1, <1>3 DEF Activate
<1>4. CASE PointerStep \/ TextInputStep \/ UNCHANGED vars
  BY <1>1, <1>4 DEF PointerStep, TextInputStep, vars
<1>5. CASE \E v \in XdgViews : XdgStep(v)
  BY <1>5, XdgStepInv
<1>6. CASE \E w \in XWindows : X11Step(w)
  BY <1>6, X11StepInv
<1> QED
  BY <1>2, <1>3, <1>4, <1>5, <1>6 DEF Next

-----------------------------------------------------------------------------
(* The theorem                                                                 *)

(* In whatever order windows of either kind appear, map, unmap, change surfaces *)
(* and go, the shell shows those that are mapped and can call each of them.     *)
THEOREM ShellSeesTheWindows == Spec => []ShellSeesWindows
<1>1. Inv => ShellSeesWindows
  <2> SUFFICES ASSUME Inv PROVE ShellSeesWindows
    OBVIOUS
  <2>1. XMapped = {x11[w].surface : w \in {u \in XWindows : x11[u].mapped /\ ~x11[u].override}}
    <3>1. \A w \in XWindows : /\ x11[w].is_mapped <=> x11[w].mapped /\ ~x11[w].override
                              /\ x11[w].is_mapped => x11[w].surface \in X11Views
      BY ListedAs DEF XStates, Consistent
    <3> DEFINE Managed == {u \in XWindows : x11[u].mapped /\ ~x11[u].override}
    <3>2. \A w \in XWindows : w \in Managed <=> x11[w].is_mapped
      BY <3>1
    <3> HIDE DEF Managed
    <3>3. ASSUME NEW v \in XMapped PROVE v \in {x11[w].surface : w \in Managed}
      <4>1. PICK w \in XWindows : x11[w].surface = v /\ x11[w].is_mapped
        BY DEF XMapped
      <4> QED
        BY <3>2, <4>1
    <3>4. ASSUME NEW w \in Managed PROVE x11[w].surface \in XMapped
      <4>1. w \in XWindows
        BY DEF Managed
      <4> QED
        BY <3>1, <3>2, <4>1 DEF XMapped
    <3> QED
      BY <3>3, <3>4 DEF Managed
  <2>2. XMapped \subseteq XListed
    BY ListedAs DEF XMapped, XListed
  <2>3. XdgMapped \subseteq XdgListed
    BY DEF XdgMapped, XdgListed
  <2> QED
    BY <2>1, <2>2, <2>3 DEF Inv, ShellSeesWindows, Mapped, XdgMapped
<1> QED
  BY <1>1, InitInv, StepInv, PTL DEF Spec

-----------------------------------------------------------------------------
(* The pointer                                                                 *)

PointerStates ==
  [focus : Views \cup {None}, input_visible : BOOLEAN, forced_hidden : BOOLEAN,
   client : Cursors \cup {None, "hidden"}, image : Cursors \cup {None, "theme"},
   listeners : Seq({"cursor", "pointer"}), client_lock : BOOLEAN,
   constraint : [Views -> {None, "locked", "locked once", "confined"}],
   active : Views \cup {None}]

(* The image is the one asked for, and the destruction of the client's surface  *)
(* is heard by wlr_cursor before our own handler draws the next image.          *)
ImageFits(p) ==
  /\ p.image = DesiredImage(p)
  /\ p.listeners = Listeners(p, p.image)

(* A client's wish lasts no longer than its focus.                              *)
WishFits(p) ==
  p.client # None => /\ p.focus # None
                     /\ p.client \in Cursors => Client(p.client) = Client(p.focus)

(* The active constraint is there, and the client's lock is its own.            *)
LockFits(p) ==
  /\ p.active # None => p.constraint[p.active] # None
  /\ p.client_lock = Locks(p, p.active)

PointerFits(p) == p \in PointerStates /\ ImageFits(p) /\ WishFits(p) /\ LockFits(p)

LEMMA CursorsApart ==
  \A c \in Cursors : c \notin Views /\ c \notin X11Views /\ c # None /\ c # "hidden" /\ c # "theme"
  BY CursorsAssumption DEF Views

(* Applying the cursor draws the image that is asked for.                       *)
LEMMA ApplyFits ==
  ASSUME NEW p \in PointerStates
  PROVE  /\ Apply(p) \in PointerStates /\ ImageFits(Apply(p))
         /\ Apply(p).focus = p.focus /\ Apply(p).client = p.client
         /\ Apply(p).constraint = p.constraint /\ Apply(p).active = p.active
         /\ Apply(p).client_lock = p.client_lock
<1> DEFINE image == DesiredImage(p)
           listeners == Listeners(p, image)
<1>1. image \in Cursors \cup {None, "theme"}
  BY DEF DesiredImage
<1>2. listeners \in Seq({"cursor", "pointer"})
  <2>1. ASSUME NEW S, NEW a \in S, NEW b \in S, NEW A \in BOOLEAN, NEW B \in BOOLEAN
        PROVE  (IF A THEN <<a>> ELSE <<>>) \o (IF B THEN <<b>> ELSE <<>>) \in Seq(S)
    <3>1. \A s \in Seq(S), z \in Seq(S) : s \o z \in Seq(S)
      OBVIOUS
    <3> QED
      BY <3>1
  <2>2. (image \in Cursors) \in BOOLEAN /\ (p.client \in Cursors) \in BOOLEAN
    OBVIOUS
  <2> QED
    BY <2>1, <2>2 DEF Listeners
<1> HIDE DEF image, listeners
<1>3. Apply(p) = [p EXCEPT !.image = image, !.listeners = listeners]
  BY DEF Apply, image, listeners
<1>4. /\ Apply(p) \in PointerStates /\ Apply(p).image = image /\ Apply(p).listeners = listeners
      /\ Apply(p).focus = p.focus /\ Apply(p).client = p.client
      /\ Apply(p).constraint = p.constraint /\ Apply(p).active = p.active
      /\ Apply(p).client_lock = p.client_lock
      /\ Apply(p).input_visible = p.input_visible /\ Apply(p).forced_hidden = p.forced_hidden
  BY <1>1, <1>2, <1>3 DEF PointerStates
<1>5. DesiredImage(Apply(p)) = image /\ Listeners(Apply(p), image) = listeners
  BY <1>4 DEF DesiredImage, Visible, Listeners, image, listeners
<1> QED
  BY <1>4, <1>5 DEF ImageFits

(* The lock depends on the constraints and on which of them is active.          *)
LEMMA LockKept ==
  ASSUME NEW p, NEW q, LockFits(p), q.constraint = p.constraint, q.active = p.active,
         q.client_lock = p.client_lock
  PROVE  LockFits(q)
  BY DEF LockFits, Locks

(* Changes of what is wished, drawn by Apply.                                   *)
LEMMA WishesFit ==
  ASSUME NEW p, PointerFits(p)
  PROVE  /\ \A value \in BOOLEAN :
              PointerFits(SetVisible(p, value)) /\ PointerFits(SetForcedHidden(p, value))
         /\ \A client \in Cursors \cup {"hidden"} :
              p.focus # None /\ (client \in Cursors => Client(client) = Client(p.focus))
                => PointerFits(SetClientCursor(p, client))
<1>1. p \in PointerStates /\ WishFits(p) /\ LockFits(p)
  BY DEF PointerFits
<1>2. ASSUME NEW value \in BOOLEAN PROVE PointerFits(SetVisible(p, value))
  <2> DEFINE q == [p EXCEPT !.input_visible = value]
  <2>1. /\ q \in PointerStates /\ q.focus = p.focus /\ q.client = p.client
        /\ q.constraint = p.constraint /\ q.active = p.active /\ q.client_lock = p.client_lock
    BY <1>1 DEF PointerStates
  <2> HIDE DEF q
  <2>2. PointerFits(Apply(q))
    BY <1>1, <2>1, ApplyFits, LockKept DEF PointerFits, WishFits
  <2> QED
    BY <2>2 DEF SetVisible, q
<1>3. ASSUME NEW value \in BOOLEAN PROVE PointerFits(SetForcedHidden(p, value))
  <2> DEFINE q == [p EXCEPT !.forced_hidden = value]
  <2>1. /\ q \in PointerStates /\ q.focus = p.focus /\ q.client = p.client
        /\ q.constraint = p.constraint /\ q.active = p.active /\ q.client_lock = p.client_lock
    BY <1>1 DEF PointerStates
  <2> HIDE DEF q
  <2>2. PointerFits(Apply(q))
    BY <1>1, <2>1, ApplyFits, LockKept DEF PointerFits, WishFits
  <2> QED
    BY <2>2 DEF SetForcedHidden, q
<1>4. ASSUME NEW client \in Cursors \cup {"hidden"}, p.focus # None,
             client \in Cursors => Client(client) = Client(p.focus)
      PROVE  PointerFits(SetClientCursor(p, client))
  <2> DEFINE q == [p EXCEPT !.client = client]
  <2>1. /\ q \in PointerStates /\ q.focus = p.focus /\ q.client = client
        /\ q.constraint = p.constraint /\ q.active = p.active /\ q.client_lock = p.client_lock
    BY <1>1 DEF PointerStates
  <2> HIDE DEF q
  <2>2. PointerFits(Apply(q))
    BY <1>1, <1>4, <2>1, ApplyFits, LockKept DEF PointerFits, WishFits
  <2> QED
    BY <2>2 DEF SetClientCursor, q
<1> QED
  BY <1>2, <1>3, <1>4

(* Restoring the cursor of the compositor serves whatever was drawn or wished.  *)
LEMMA RestoreFits ==
  ASSUME NEW p \in PointerStates, LockFits(p)
  PROVE  PointerFits(Restore(p))
<1> DEFINE q == [p EXCEPT !.client = None]
<1>1. /\ q \in PointerStates /\ q.client = None
      /\ q.constraint = p.constraint /\ q.active = p.active /\ q.client_lock = p.client_lock
  BY DEF PointerStates
<1> HIDE DEF q
<1>2. PointerFits(Apply(q))
  BY <1>1, ApplyFits, LockKept DEF PointerFits, WishFits
<1> QED
  BY <1>2 DEF Restore, q

(* The focus moves.                                                             *)
LEMMA FocusFits ==
  ASSUME NEW p, PointerFits(p), NEW s \in Views \cup {None}
  PROVE  PointerFits(Focus(p, s))
<1> DEFINE q == [p EXCEPT !.focus = s]
<1>1. /\ q \in PointerStates
      /\ q.constraint = p.constraint /\ q.active = p.active /\ q.client_lock = p.client_lock
  BY DEF PointerFits, PointerStates
<1>2. LockFits(q)
  <2> HIDE DEF q
  <2> QED
    BY <1>1, LockKept DEF PointerFits
<1>3. PointerFits(Restore(q))
  <2> HIDE DEF q
  <2> QED
    BY <1>1, <1>2, RestoreFits
<1> QED
  BY <1>3 DEF Focus, q

(* The client's surface is destroyed: wlr_cursor, if it draws the surface, stops *)
(* drawing it, and then the compositor's cursor is restored.                    *)
LEMMA CursorGoneFits ==
  ASSUME NEW p, PointerFits(p), NEW c \in Cursors
  PROVE  PointerFits(CursorGone(p, c))
<1>1. CASE p.client # c
  BY <1>1 DEF CursorGone
<1>2. CASE p.client = c
  <2>0. p \in PointerStates /\ LockFits(p)
    BY DEF PointerFits
  <2>1. p.listeners = IF p.image \in Cursors THEN <<"cursor", "pointer">> ELSE <<"pointer">>
    BY <1>2 DEF PointerFits, ImageFits, Listeners
  <2> DEFINE q == [p EXCEPT !.image = None]
  <2>2. /\ q \in PointerStates
        /\ q.constraint = p.constraint /\ q.active = p.active /\ q.client_lock = p.client_lock
    BY <2>0 DEF PointerStates
  <2>3. LockFits(q)
    <3> HIDE DEF q
    <3> QED
      BY <2>0, <2>2, LockKept
  <2>4. CursorGone(p, c) = IF p.image \in Cursors THEN Restore(q) ELSE Restore(p)
    <3>1. CASE p.image \in Cursors
      BY <1>2, <2>1, <3>1 DEF CursorGone, Told, Heard
    <3>2. CASE p.image \notin Cursors
      BY <1>2, <2>1, <3>2 DEF CursorGone, Told, Heard
    <3> QED
      BY <3>1, <3>2
  <2> HIDE DEF q
  <2> QED
    BY <2>0, <2>2, <2>3, <2>4, RestoreFits
<1> QED
  BY <1>1, <1>2

(* A constraint goes, and with it the lock if it was the active one.            *)
LEMMA ConstraintGoneIs ==
  ASSUME NEW p \in PointerStates, NEW s \in Views
  PROVE  /\ ConstraintGone(p, s) \in PointerStates
         /\ ConstraintGone(p, s).constraint = [p.constraint EXCEPT ![s] = None]
         /\ ConstraintGone(p, s).active = IF p.active = s THEN None ELSE p.active
         /\ ConstraintGone(p, s).client_lock = (p.client_lock /\ p.active # s)
         /\ ConstraintGone(p, s).focus = p.focus /\ ConstraintGone(p, s).client = p.client
         /\ ConstraintGone(p, s).image = p.image /\ ConstraintGone(p, s).listeners = p.listeners
         /\ ConstraintGone(p, s).input_visible = p.input_visible
         /\ ConstraintGone(p, s).forced_hidden = p.forced_hidden
<1>1. CASE p.active = s
  BY <1>1 DEF ConstraintGone, PointerStates
<1>2. CASE p.active # s
  BY <1>2 DEF ConstraintGone, PointerStates
<1> QED
  BY <1>1, <1>2

(* What the image and the client's wish are made of.                            *)
LEMMA SameImage ==
  ASSUME NEW p, NEW q, ImageFits(p), WishFits(p), q.focus = p.focus, q.client = p.client,
         q.image = p.image, q.listeners = p.listeners,
         q.input_visible = p.input_visible, q.forced_hidden = p.forced_hidden
  PROVE  ImageFits(q) /\ WishFits(q)
  BY DEF ImageFits, WishFits, DesiredImage, Visible, Listeners

LEMMA ConstraintGoneFits ==
  ASSUME NEW p, PointerFits(p), NEW s \in Views
  PROVE  PointerFits(ConstraintGone(p, s))
<1> DEFINE q == ConstraintGone(p, s)
<1>1. p \in PointerStates /\ ImageFits(p) /\ WishFits(p) /\ LockFits(p)
  BY DEF PointerFits
<1>2. /\ q \in PointerStates /\ q.constraint = [p.constraint EXCEPT ![s] = None]
      /\ q.active = (IF p.active = s THEN None ELSE p.active)
      /\ q.client_lock = (p.client_lock /\ p.active # s)
      /\ q.focus = p.focus /\ q.client = p.client
      /\ q.image = p.image /\ q.listeners = p.listeners
      /\ q.input_visible = p.input_visible /\ q.forced_hidden = p.forced_hidden
  BY <1>1, ConstraintGoneIs
<1> HIDE DEF q
<1>3. ImageFits(q) /\ WishFits(q)
  BY <1>1, <1>2, SameImage
<1>4. LockFits(q)
  <2>1. /\ p.constraint \in [Views -> {None, "locked", "locked once", "confined"}]
        /\ p.active \in Views \cup {None}
    BY <1>1 DEF PointerStates
  <2>2. CASE p.active = s
    BY <1>2, <2>2 DEF LockFits, Locks
  <2>3. CASE p.active # s
    BY <1>1, <1>2, <2>1, <2>3 DEF LockFits, Locks
  <2> QED
    BY <2>2, <2>3
<1> QED
  BY <1>2, <1>3, <1>4 DEF PointerFits, q

(* The active constraint becomes that of the focus, whichever it was; a one-shot *)
(* one that it replaces is destroyed.                                           *)
LEMMA UpdateFits ==
  ASSUME NEW p, PointerFits(p)
  PROVE  /\ PointerFits(UpdateConstraint(p))
         /\ UpdateConstraint(p).client_lock = Locks(p, p.focus)
<1> DEFINE now == IF p.focus # None /\ p.constraint[p.focus] # None THEN p.focus ELSE None
           q   == IF p.active \notin {None, now} /\ p.constraint[p.active] = "locked once"
                  THEN ConstraintGone(p, p.active) ELSE p
           r   == [q EXCEPT !.active = now, !.client_lock = Locks(q, now)]
<1>1. UpdateConstraint(p) = r
  BY DEF UpdateConstraint
<1>2. /\ p \in PointerStates /\ p.focus \in Views \cup {None} /\ p.active \in Views \cup {None}
      /\ p.constraint \in [Views -> {None, "locked", "locked once", "confined"}]
  BY DEF PointerFits, PointerStates
<1>3. now \in Views \cup {None} /\ now \in {p.focus, None}
  BY <1>2
<1>4. /\ PointerFits(q) /\ q.focus = p.focus
      /\ now # None => q.constraint[now] = p.constraint[now]
  <2>1. CASE p.active \notin {None, now}
    <3>1. PointerFits(ConstraintGone(p, p.active))
      BY <1>2, <2>1, ConstraintGoneFits
    <3>2. /\ ConstraintGone(p, p.active).focus = p.focus
          /\ ConstraintGone(p, p.active).constraint = [p.constraint EXCEPT ![p.active] = None]
      BY <1>2, <2>1, ConstraintGoneIs
    <3> QED
      BY <1>2, <1>3, <2>1, <3>1, <3>2
  <2>2. CASE p.active \in {None, now}
    BY <2>2
  <2> QED
    BY <2>1, <2>2
<1>5. now # None => p.constraint[now] # None
  OBVIOUS
<1>6. p.focus # None /\ p.constraint[p.focus] # None => now = p.focus
  OBVIOUS
<1> HIDE DEF now, q
<1>7. Locks(q, now) = Locks(p, p.focus)
  <2>1. CASE now = None
    <3>1. ~Locks(p, p.focus)
      BY <1>3, <1>6, <2>1 DEF Locks, None
    <3> QED
      BY <2>1, <3>1 DEF Locks
  <2>2. CASE now # None
    BY <1>3, <1>4, <2>2 DEF Locks
  <2> QED
    BY <2>1, <2>2
<1>8. Locks(q, now) \in BOOLEAN
  BY DEF Locks
<1>9. /\ r \in PointerStates /\ r.active = now /\ r.client_lock = Locks(q, now)
      /\ r.constraint = q.constraint /\ r.focus = q.focus /\ r.client = q.client
      /\ r.image = q.image /\ r.listeners = q.listeners
      /\ r.input_visible = q.input_visible /\ r.forced_hidden = q.forced_hidden
  BY <1>3, <1>4, <1>8 DEF PointerFits, PointerStates
<1> HIDE DEF r
<1>10. ImageFits(r) /\ WishFits(r)
  BY <1>4, <1>9, SameImage DEF PointerFits
<1>11. LockFits(r)
  BY <1>4, <1>5, <1>9 DEF LockFits, Locks
<1> QED
  BY <1>1, <1>7, <1>9, <1>10, <1>11 DEF PointerFits

(* A motion finds the lock of the window under it, and leaves it so.            *)
LEMMA StirredFits ==
  ASSUME NEW p, PointerFits(p)
  PROVE  PointerFits(Stirred(p)) /\ Stirred(p).client_lock = Locks(p, p.focus)
<1> DEFINE q == UpdateConstraint(p)
<1>1. PointerFits(q) /\ q.client_lock = Locks(p, p.focus)
  BY UpdateFits
<1> HIDE DEF q
<1>2. PointerFits(SetVisible(q, TRUE))
  BY <1>1, WishesFit
<1>3. SetVisible(q, TRUE).client_lock = q.client_lock
  <2>1. /\ [q EXCEPT !.input_visible = TRUE] \in PointerStates
        /\ [q EXCEPT !.input_visible = TRUE].client_lock = q.client_lock
    BY <1>1 DEF PointerFits, PointerStates
  <2> QED
    BY <2>1, ApplyFits DEF SetVisible
<1> QED
  BY <1>1, <1>2, <1>3 DEF Stirred, q

-----------------------------------------------------------------------------
(* Text inputs                                                                 *)

Texts == [alive : BOOLEAN, enabled : BOOLEAN, focus : Views \cup {None}]

InputStates == [text : [TextInputs -> Texts], active : [Views -> TextInputs \cup {None}]]

(* A view's active text input is alive, enabled and focused on it.              *)
InputFits(i) ==
  /\ i \in InputStates
  /\ \A v \in Views : i.active[v] # None =>
       /\ i.text[i.active[v]].alive /\ i.text[i.active[v]].enabled
       /\ i.text[i.active[v]].focus = v

(* One is active on the view it is focused on, if on any.                       *)
LEMMA ActiveOnFocus ==
  ASSUME NEW i, InputFits(i), NEW t \in TextInputs, NEW v \in Views, i.active[v] = t
  PROVE  i.text[t].alive /\ i.text[t].enabled /\ i.text[t].focus = v
  BY TextInputsAssumption DEF InputFits

LEMMA LeaveAllFits ==
  ASSUME NEW i, InputFits(i), NEW texts \in SUBSET TextInputs
  PROVE  /\ InputFits(LeaveAll(i, texts))
         /\ \A t \in texts : \A v \in Views : LeaveAll(i, texts).active[v] # t
<1> DEFINE j == LeaveAll(i, texts)
<1>1. /\ i \in InputStates /\ i.text \in [TextInputs -> Texts]
      /\ i.active \in [Views -> TextInputs \cup {None}]
  BY DEF InputFits, InputStates
<1>2. /\ j.text = [t \in TextInputs |-> IF t \in texts THEN [i.text[t] EXCEPT !.focus = None]
                                       ELSE i.text[t]]
      /\ j.active = [v \in Views |-> IF \E t \in texts : i.text[t].enabled /\ i.text[t].focus = v
                                     THEN None ELSE i.active[v]]
      /\ j = [text |-> j.text, active |-> j.active]
  BY DEF LeaveAll
<1> HIDE DEF j
<1>3. \A t \in TextInputs : /\ j.text[t] \in Texts
                            /\ t \notin texts => j.text[t] = i.text[t]
  BY <1>1, <1>2 DEF Texts
<1>4. j.text \in [TextInputs -> Texts]
  BY <1>2, <1>3
<1>5. \A v \in Views : j.active[v] = None \/ (j.active[v] = i.active[v] /\ i.active[v] \notin texts)
  <2> SUFFICES ASSUME NEW v \in Views, i.active[v] \in texts PROVE j.active[v] = None
    BY <1>2
  <2>1. i.text[i.active[v]].enabled /\ i.text[i.active[v]].focus = v
    BY ActiveOnFocus
  <2> QED
    BY <1>2, <2>1
<1>6. j \in InputStates
  BY <1>1, <1>2, <1>4, <1>5 DEF InputStates
<1>7. ASSUME NEW v \in Views, j.active[v] # None
      PROVE  /\ j.text[j.active[v]].alive /\ j.text[j.active[v]].enabled
             /\ j.text[j.active[v]].focus = v
  <2>1. j.active[v] = i.active[v] /\ i.active[v] \notin texts /\ i.active[v] \in TextInputs
    BY <1>1, <1>5, <1>7
  <2>2. j.text[j.active[v]] = i.text[i.active[v]]
    BY <1>3, <2>1
  <2> QED
    BY <2>1, <2>2, ActiveOnFocus
<1>8. \A t \in texts : \A v \in Views : j.active[v] # t
  BY <1>5, TextInputsAssumption
<1> QED
  BY <1>6, <1>7, <1>8 DEF InputFits, j

LEMMA EnterAllFits ==
  ASSUME NEW i, InputFits(i), NEW texts \in SUBSET TextInputs, NEW s \in Views
  PROVE  InputFits(EnterAll(i, texts, s))
<1> DEFINE elsewhere == {t \in texts : i.text[t].focus # s}
           j == LeaveAll(i, elsewhere)
           text == [t \in TextInputs |-> IF t \in texts THEN [j.text[t] EXCEPT !.focus = s]
                                        ELSE j.text[t]]
           k == [j EXCEPT !.text = text]
<1>1. EnterAll(i, texts, s) = k
  BY DEF EnterAll
<1>2. InputFits(j) /\ \A t \in elsewhere : \A v \in Views : j.active[v] # t
  BY LeaveAllFits
<1>3. \A t \in texts : t \notin elsewhere => j.text[t].focus = s
  BY DEF LeaveAll
<1>4. elsewhere \subseteq texts
  OBVIOUS
<1> HIDE DEF elsewhere, j
<1>5. /\ j \in InputStates /\ j.text \in [TextInputs -> Texts]
      /\ j.active \in [Views -> TextInputs \cup {None}]
  BY <1>2 DEF InputFits, InputStates
<1>6. \A t \in TextInputs : /\ text[t] \in Texts
                            /\ text[t].alive = j.text[t].alive /\ text[t].enabled = j.text[t].enabled
                            /\ t \notin elsewhere => text[t].focus = j.text[t].focus
  BY <1>3, <1>5 DEF Texts
<1>7. text \in [TextInputs -> Texts]
  BY <1>6
<1> HIDE DEF text
<1>8. k \in InputStates /\ k.text = text /\ k.active = j.active
  BY <1>5, <1>7 DEF InputStates
<1>9. ASSUME NEW v \in Views, j.active[v] # None
      PROVE  /\ text[j.active[v]].alive /\ text[j.active[v]].enabled /\ text[j.active[v]].focus = v
  <2>1. j.active[v] \in TextInputs /\ j.active[v] \notin elsewhere
    BY <1>2, <1>5, <1>9
  <2> QED
    BY <1>2, <1>6, <2>1, ActiveOnFocus
<1> HIDE DEF k
<1>10. InputFits(k)
  BY <1>8, <1>9 DEF InputFits
<1> QED
  BY <1>1, <1>10

(* A surface dies under text inputs.                                            *)
LEMMA ForgottenFits ==
  ASSUME NEW i, InputFits(i), NEW s \in Views
  PROVE  InputFits(SurfaceForgotten(i, s))
<1> DEFINE j == SurfaceForgotten(i, s)
<1>1. /\ i \in InputStates /\ i.text \in [TextInputs -> Texts]
      /\ i.active \in [Views -> TextInputs \cup {None}]
  BY DEF InputFits, InputStates
<1>2. /\ j.text = [t \in TextInputs |-> IF i.text[t].focus = s THEN [i.text[t] EXCEPT !.focus = None]
                                       ELSE i.text[t]]
      /\ j.active = [i.active EXCEPT ![s] = None]
      /\ j = [text |-> j.text, active |-> j.active]
  BY DEF SurfaceForgotten
<1> HIDE DEF j
<1>3. \A t \in TextInputs : /\ j.text[t] \in Texts
                            /\ i.text[t].focus # s => j.text[t] = i.text[t]
  BY <1>1, <1>2 DEF Texts
<1>4. j.text \in [TextInputs -> Texts] /\ j.active \in [Views -> TextInputs \cup {None}]
  BY <1>1, <1>2, <1>3
<1>5. j \in InputStates
  BY <1>2, <1>4 DEF InputStates
<1>6. ASSUME NEW v \in Views, j.active[v] # None
      PROVE  /\ j.text[j.active[v]].alive /\ j.text[j.active[v]].enabled
             /\ j.text[j.active[v]].focus = v
  <2>1. v # s /\ j.active[v] = i.active[v] /\ i.active[v] \in TextInputs
    BY <1>1, <1>2, <1>6
  <2>2. i.text[i.active[v]].focus = v
    BY <2>1, ActiveOnFocus
  <2> QED
    BY <1>3, <2>1, <2>2, ActiveOnFocus
<1> QED
  BY <1>5, <1>6 DEF InputFits, j

(* A request changes one text input, and what is active on the view it is       *)
(* focused on: this one, if it is enabled there, or none.                       *)
LEMMA TextChanged ==
  ASSUME NEW i, InputFits(i), NEW t \in TextInputs, NEW r \in Texts,
         NEW active \in [Views -> TextInputs \cup {None}],
         \A v \in Views : \/ active[v] = None
                          \/ active[v] = t /\ r.alive /\ r.enabled /\ r.focus = v
                          \/ active[v] = i.active[v] /\ i.active[v] # t
  PROVE  InputFits([text |-> [i.text EXCEPT ![t] = r], active |-> active])
<1>1. i.text \in [TextInputs -> Texts] /\ i.active \in [Views -> TextInputs \cup {None}]
  BY DEF InputFits, InputStates
<1> DEFINE text == [i.text EXCEPT ![t] = r]
<1>2. /\ text \in [TextInputs -> Texts] /\ text[t] = r
      /\ \A u \in TextInputs : u # t => text[u] = i.text[u]
  BY <1>1
<1> HIDE DEF text
<1>3. ASSUME NEW v \in Views, active[v] # None
      PROVE  text[active[v]].alive /\ text[active[v]].enabled /\ text[active[v]].focus = v
  <2>1. CASE active[v] = t
    BY <1>2, <1>3, <2>1
  <2>2. CASE active[v] # t
    <3>1. active[v] = i.active[v] /\ i.active[v] \in TextInputs
      BY <1>1, <1>3, <2>2
    <3> QED
      BY <1>2, <2>2, <3>1, ActiveOnFocus
  <2> QED
    BY <2>1, <2>2
<1>4. [text |-> text, active |-> active] \in InputStates
  BY <1>2 DEF InputStates
<1> QED
  BY <1>3, <1>4 DEF InputFits, text

LEMMA TextInputStepFits ==
  ASSUME InputFits(input), focused \in Views \cup {None}, NextTextInput
  PROVE  InputFits(input')
<1>0. PICK t \in TextInputs : TextCreate(t) \/ TextEnable(t) \/ TextDisable(t) \/ TextDestroy(t)
  BY DEF NextTextInput
<1> DEFINE o == input.text[t]
<1>1. /\ input = [text |-> input.text, active |-> input.active]
      /\ input.text \in [TextInputs -> Texts] /\ input.active \in [Views -> TextInputs \cup {None}]
      /\ o \in Texts
  BY DEF InputFits, InputStates
<1>2. \A v \in Views : input.active[v] = t => o.alive /\ o.enabled /\ o.focus = v
  BY ActiveOnFocus
<1>3. CASE TextCreate(t)
  <2> DEFINE r == [alive |-> TRUE, enabled |-> FALSE,
                   focus |-> IF focused # None /\ Client(focused) = "app" THEN focused ELSE None]
  <2>1. r \in Texts
    BY DEF Texts
  <2>2. ~o.alive /\ input' = [input EXCEPT !.text[t] = r]
    BY <1>3 DEF TextCreate
  <2> HIDE DEF r
  <2>3. input' = [text |-> [input.text EXCEPT ![t] = r], active |-> input.active]
    BY <1>1, <2>2
  <2> QED
    BY <1>1, <1>2, <2>1, <2>2, <2>3, TextChanged
<1>4. CASE TextEnable(t)
  <2> DEFINE r == [o EXCEPT !.enabled = TRUE]
             active == IF o.focus = None THEN input.active ELSE [input.active EXCEPT ![o.focus] = t]
  <2>1. r \in Texts /\ r.focus = o.focus /\ r.alive = o.alive /\ r.enabled
    BY <1>1 DEF Texts
  <2>2. active \in [Views -> TextInputs \cup {None}]
    BY <1>1 DEF Texts
  <2>3. o.alive /\ ~o.enabled
    BY <1>4 DEF TextEnable
  <2>4. input' = [text |-> [input.text EXCEPT ![t] = r], active |-> active]
    <3> DEFINE text == [input.text EXCEPT ![t] = r]
               i == [input EXCEPT !.text[t].enabled = TRUE]
    <3>1. text[t].focus = o.focus
      BY <1>1, <2>1
    <3>2. i = [input EXCEPT !.text = text]
      OBVIOUS
    <3>3. input' = IF i.text[t].focus = None THEN i ELSE [i EXCEPT !.active[i.text[t].focus] = t]
      BY <1>4 DEF TextEnable
    <3> HIDE DEF text, i
    <3>4. i = [text |-> text, active |-> input.active]
      BY <1>1, <3>2
    <3>5. input' = IF o.focus = None THEN i ELSE [i EXCEPT !.active[o.focus] = t]
      BY <3>1, <3>3, <3>4
    <3>6. [i EXCEPT !.active[o.focus] = t]
            = [text |-> text, active |-> [input.active EXCEPT ![o.focus] = t]]
      BY <3>4
    <3> QED
      BY <3>4, <3>5, <3>6 DEF text
  <2>5. \A v \in Views : \/ active[v] = t /\ r.alive /\ r.enabled /\ r.focus = v
                         \/ active[v] = input.active[v] /\ input.active[v] # t
    BY <1>1, <1>2, <2>1, <2>3 DEF Texts
  <2> HIDE DEF r, active
  <2> QED
    BY <2>1, <2>2, <2>4, <2>5, TextChanged
<1>5. ASSUME NEW r \in Texts,
             input' = [text   |-> [input.text EXCEPT ![t] = r],
                       active |-> IF o.enabled /\ o.focus # None
                                  THEN [input.active EXCEPT ![o.focus] = None] ELSE input.active]
      PROVE  InputFits(input')
  <2> DEFINE active == IF o.enabled /\ o.focus # None
                       THEN [input.active EXCEPT ![o.focus] = None] ELSE input.active
  <2>1. active \in [Views -> TextInputs \cup {None}]
    BY <1>1 DEF Texts
  <2>2. \A v \in Views : active[v] = None \/ (active[v] = input.active[v] /\ input.active[v] # t)
    <3>1. CASE o.enabled /\ o.focus # None
      BY <1>1, <1>2, <3>1
    <3>2. CASE ~(o.enabled /\ o.focus # None)
      BY <1>1, <1>2, <3>2, ViewsAssumption
    <3> QED
      BY <3>1, <3>2
  <2> HIDE DEF active
  <2>3. InputFits([text |-> [input.text EXCEPT ![t] = r], active |-> active])
    BY <2>1, <2>2, TextChanged
  <2> QED
    BY <1>5, <2>3 DEF active
<1>6. CASE TextDisable(t)
  <2> DEFINE r == [o EXCEPT !.enabled = FALSE]
  <2>1. r \in Texts
    BY <1>1 DEF Texts
  <2>2. input' = [text   |-> [input.text EXCEPT ![t] = r],
                  active |-> IF o.enabled /\ o.focus # None
                             THEN [input.active EXCEPT ![o.focus] = None] ELSE input.active]
    BY <1>1, <1>6 DEF TextDisable, Disable, Texts
  <2> HIDE DEF r
  <2> QED
    BY <1>5, <2>1, <2>2
<1>7. CASE TextDestroy(t)
  <2> DEFINE r == [alive |-> FALSE, enabled |-> FALSE, focus |-> None]
  <2>1. r \in Texts
    BY DEF Texts
  <2>2. input' = [text   |-> [input.text EXCEPT ![t] = r],
                  active |-> IF o.enabled /\ o.focus # None
                             THEN [input.active EXCEPT ![o.focus] = None] ELSE input.active]
    BY <1>1, <1>7 DEF TextDestroy, DisabledText, Disable
  <2> HIDE DEF r
  <2> QED
    BY <1>5, <2>1, <2>2
<1> QED
  BY <1>0, <1>3, <1>4, <1>6, <1>7

-----------------------------------------------------------------------------
(* The pointer and the text inputs, step by step                               *)

FocusInv ==
  /\ PointerFits(pointer) /\ InputFits(input)
  /\ focused \in Views \cup {None}

LEMMA InitFocus == Init => FocusInv
<1> SUFFICES ASSUME Init PROVE FocusInv
  OBVIOUS
<1>0. /\ \A S : <<>> \in Seq(S)
      /\ [v \in Views |-> None] \in [Views -> {None, "locked", "locked once", "confined"}]
  OBVIOUS
<1>1. /\ pointer.focus = None /\ pointer.input_visible = TRUE /\ pointer.forced_hidden = FALSE
      /\ pointer.client = None /\ pointer.image = "theme" /\ pointer.listeners = <<>>
      /\ pointer.client_lock = FALSE /\ pointer.active = None
      /\ pointer \in PointerStates
  BY <1>0 DEF Init, InitPointer, PointerStates
<1>2. None # "hidden" /\ None \notin Cursors /\ "theme" \notin Cursors
  BY CursorsApart DEF None
<1>3. DesiredImage(pointer) = "theme"
  BY <1>1, <1>2 DEF DesiredImage, Visible
<1>4. Listeners(pointer, "theme") = <<>>
  BY <1>1, <1>2 DEF Listeners
<1>5. PointerFits(pointer)
  BY <1>1, <1>3, <1>4 DEF PointerFits, ImageFits, WishFits, LockFits, Locks
<1>6. InputFits(input) /\ focused = None
  BY DEF Init, InitTextInput, InputFits, InputStates, Texts
<1> QED
  BY <1>5, <1>6 DEF FocusInv

LEMMA PointerStepFits ==
  ASSUME PointerFits(pointer), NextPointer
  PROVE  PointerFits(pointer')
<1>0. None \in Views \cup {None}
  OBVIOUS
<1>1. CASE InputEvent
  BY <1>1, StirredFits DEF InputEvent
<1>2. CASE TouchDown
  <2>1. PointerFits(SetVisible(pointer, FALSE))
    BY WishesFit
  <2> QED
    BY <1>2, <2>1, FocusFits DEF TouchDown
<1>3. CASE RequestCursor
  <2>1. PICK cursor \in {"hidden"} \cup {c \in Cursors : Client(c) = Client(pointer.focus)} :
          pointer.focus # None /\ pointer' = SetClientCursor(pointer, cursor)
    BY <1>3 DEF RequestCursor
  <2>2. /\ cursor \in Cursors \cup {"hidden"}
        /\ cursor \in Cursors => Client(cursor) = Client(pointer.focus)
    BY CursorsApart
  <2> QED
    BY <2>1, <2>2, WishesFit
<1>4. CASE Exit
  <2>1. PointerFits(UpdateConstraint(Focus(pointer, None)))
    BY <1>0, FocusFits, UpdateFits
  <2> QED
    BY <1>4, <2>1, RestoreFits DEF Exit, PointerFits
<1>5. CASE SetCursorVisible
  <2>1. PICK value \in BOOLEAN : pointer' = SetForcedHidden(pointer, ~value)
    BY <1>5 DEF SetCursorVisible
  <2>2. PointerFits(SetForcedHidden(pointer, TRUE)) /\ PointerFits(SetForcedHidden(pointer, FALSE))
    BY WishesFit
  <2>3. CASE value = TRUE
    BY <2>1, <2>2, <2>3
  <2>4. CASE value = FALSE
    BY <2>1, <2>2, <2>4
  <2> QED
    BY <2>3, <2>4
<1>6. CASE \E c \in Cursors : DestroyCursor(c)
  BY <1>6, CursorGoneFits DEF DestroyCursor
<1>7. CASE \E s \in XdgViews : RequestConstraint(s)
  <2>1. PICK s \in XdgViews, kind \in Kinds :
          pointer.constraint[s] = None /\ pointer' = [pointer EXCEPT !.constraint[s] = kind]
    BY <1>7 DEF RequestConstraint
  <2>2. /\ s \in Views /\ kind \in {"locked", "locked once", "confined"}
        /\ pointer \in PointerStates /\ ImageFits(pointer) /\ WishFits(pointer) /\ LockFits(pointer)
    BY KindsAssumption DEF Views, PointerFits
  <2>3. /\ pointer' \in PointerStates /\ pointer'.constraint = [pointer.constraint EXCEPT ![s] = kind]
        /\ pointer'.active = pointer.active /\ pointer'.client_lock = pointer.client_lock
        /\ pointer'.focus = pointer.focus /\ pointer'.client = pointer.client
        /\ pointer'.image = pointer.image /\ pointer'.listeners = pointer.listeners
        /\ pointer'.input_visible = pointer.input_visible
        /\ pointer'.forced_hidden = pointer.forced_hidden
    BY <2>1, <2>2 DEF PointerStates
  <2>4. ImageFits(pointer') /\ WishFits(pointer')
    BY <2>2, <2>3, SameImage
  <2>5. pointer.active # s
    BY <2>1, <2>2, ViewKinds DEF LockFits
  <2>6. pointer.active # None =>
          pointer'.constraint[pointer.active] = pointer.constraint[pointer.active]
    BY <2>2, <2>3, <2>5 DEF PointerStates
  <2>7. LockFits(pointer')
    BY <2>2, <2>3, <2>6 DEF LockFits, Locks
  <2> QED
    BY <2>3, <2>4, <2>7 DEF PointerFits
<1>8. CASE \E s \in Views : Hover(s)
  <2>1. PICK s \in Views, focus \in Views \cup {None} :
          pointer' = UpdateConstraint(Focus(pointer, focus))
    BY <1>8 DEF Hover
  <2> QED
    BY <2>1, FocusFits, UpdateFits
<1>9. CASE \E s \in Views : DestroyConstraint(s)
  BY <1>9, ConstraintGoneFits DEF DestroyConstraint
<1> QED
  BY <1>1, <1>2, <1>3, <1>4, <1>5, <1>6, <1>7, <1>8, <1>9 DEF NextPointer

(* Unmapping takes the pointer's focus and that of the text inputs.             *)
LEMMA UnfocusFits ==
  ASSUME FocusInv, NEW s \in Views \cup {None}, Unfocus(s)
  PROVE  PointerFits(pointer') /\ InputFits(input')
<1>1. PointerFits(pointer) /\ InputFits(input) /\ None \in Views \cup {None}
  BY DEF FocusInv
<1>2. TextInputsOn(s) \in SUBSET TextInputs
  BY DEF TextInputsOn
<1>3. InputFits(LeaveAll(input, TextInputsOn(s)))
  BY <1>1, <1>2, LeaveAllFits
<1>4. PointerFits(Focus(pointer, None))
  BY <1>1, FocusFits
<1> QED
  BY <1>1, <1>3, <1>4 DEF Unfocus

LEMMA FocusStep == ASSUME Inv, FocusInv, [Next]_vars PROVE FocusInv'
<1>0. PointerFits(pointer) /\ InputFits(input) /\ focused \in Views \cup {None}
  BY DEF FocusInv
<1>1. XdgViews \subseteq Views /\ X11Views \subseteq Views /\ None \in Views \cup {None}
  BY DEF Views
<1>2. \A client : TextInputsOf(client) \in SUBSET TextInputs
  BY DEF TextInputsOf
<1>3. CASE UNCHANGED <<pointer, input, focused>>
  BY <1>0, <1>3 DEF FocusInv
<1>4. ASSUME NEW s \in Views, DestroySurface(s) PROVE FocusInv'
  <2> DEFINE p == ConstraintGone(pointer, s)
  <2>1. PointerFits(p) /\ PointerFits(Focus(p, None))
    BY <1>0, <1>1, ConstraintGoneFits, FocusFits
  <2> HIDE DEF p
  <2>2. pointer' = IF p.focus = s THEN Focus(p, None) ELSE p
    BY <1>4 DEF DestroySurface, p
  <2>3. InputFits(SurfaceForgotten(input, s)) /\ input' = SurfaceForgotten(input, s)
    BY <1>0, <1>4, ForgottenFits DEF DestroySurface
  <2>4. focused' \in Views \cup {None}
    BY <1>0, <1>4 DEF DestroySurface
  <2> QED
    BY <2>1, <2>2, <2>3, <2>4 DEF FocusInv
<1>5. ASSUME NEW s \in Views \cup {None}, Unfocus(s), focused' = focused PROVE FocusInv'
  BY <1>0, <1>5, UnfocusFits DEF FocusInv
<1>6. ASSUME NEW v \in XdgViews, XdgUnfocus(v), pointer' = pointer PROVE FocusInv'
  <2>1. InputFits(LeaveAll(input, TextInputsOf(Client(v))))
    BY <1>0, <1>2, LeaveAllFits
  <2> QED
    BY <1>0, <1>6, <2>1 DEF XdgUnfocus, FocusInv
<1>7. ASSUME NEW v \in XdgViews, XdgStep(v) PROVE FocusInv'
  <2>1. CASE XdgCreate(v) \/ XdgCommit(v) \/ XdgMap(v)
    BY <1>3, <2>1 DEF XdgCreate, XdgCommit, XdgMap
  <2>2. CASE XdgUnmap(v) \/ XdgDestroy(v)
    BY <1>1, <1>5, <2>2 DEF XdgUnmap, XdgDestroy
  <2>3. CASE XdgMinimize(v)
    BY <1>6, <2>3 DEF XdgMinimize
  <2> QED
    BY <1>7, <2>1, <2>2, <2>3 DEF XdgStep
<1>8. ASSUME NEW w \in XWindows, X11Step(w) PROVE FocusInv'
  <2>1. x11[w].surface \in Views \cup {None}
    BY <1>1, ListedAs DEF XStates
  <2>2. CASE XUnmap(w) \/ XDissociate(w)
    BY <1>5, <2>1, <2>2 DEF XUnmap, XDissociate, HandleUnmap
  <2>3. CASE \/ XCreate(w) \/ XOverride(w) \/ XRequest(w) \/ XMap(w) \/ XDestroy(w)
             \/ \E s \in X11Views : XAssociate(w, s)
    BY <1>3, <2>3 DEF XCreate, XOverride, XRequest, XMap, XDestroy, XAssociate
  <2> QED
    BY <1>8, <2>2, <2>3 DEF X11Step
<1>9. ASSUME NEW v \in Views, NEW value \in BOOLEAN, Activate(v, value) PROVE FocusInv'
  <2>1. pointer' = pointer
    BY <1>9 DEF Activate
  <2>2. /\ InputFits(LeaveAll(input, TextInputs))
        /\ InputFits(EnterAll(input, TextInputsOf(Client(v)), v))
    BY <1>0, <1>2, LeaveAllFits, EnterAllFits
  <2>3. CASE v \in XdgViews /\ value
    BY <1>0, <1>9, <2>1, <2>2, <2>3 DEF Activate, XdgFocus, FocusInv
  <2>4. CASE v \in XdgViews /\ ~value
    BY <1>6, <1>9, <2>1, <2>4 DEF Activate
  <2>5. CASE v \notin XdgViews
    BY <1>0, <1>9, <2>1, <2>2, <2>5 DEF Activate, X11Focus, X11Unfocus, FocusInv
  <2> QED
    BY <2>3, <2>4, <2>5
<1>10. CASE PointerStep
  BY <1>0, <1>10, PointerStepFits DEF PointerStep, FocusInv
<1>11. CASE TextInputStep
  BY <1>0, <1>11, TextInputStepFits DEF TextInputStep, FocusInv
<1>12. CASE (\E s \in Views : CreateSurface(s)) \/ UNCHANGED vars
  BY <1>3, <1>12 DEF CreateSurface, vars
<1> QED
  BY <1>4, <1>7, <1>8, <1>9, <1>10, <1>11, <1>12 DEF Next

LEMMA FocusIsInvariant == Spec => []FocusInv
<1>1. Init => Inv /\ FocusInv
  BY InitInv, InitFocus
<1>2. Inv /\ FocusInv /\ [Next]_vars => (Inv /\ FocusInv)'
  BY StepInv, FocusStep
<1> QED
  BY <1>1, <1>2, PTL DEF Spec

-----------------------------------------------------------------------------
(* More theorems                                                               *)

(* Through every order of focus changes, deaths of surfaces, touches and calls  *)
(* of the shell, the cursor drawn is the one the flags ask for, and what a      *)
(* client wished ends with its focus.                                           *)
THEOREM CursorIsAsIntended == Spec => []CursorShowsIntent
<1>1. FocusInv => CursorShowsIntent
  BY DEF FocusInv, PointerFits, ImageFits, WishFits, CursorShowsIntent
<1> QED
  BY <1>1, FocusIsInvariant, PTL

(* Whatever constraints came and went since the last event, a motion moves a    *)
(* cursor that is locked exactly by the window under it.                        *)
THEOREM LockIsTheFocus == Spec => []MotionRespectsLock
<1>1. FocusInv => MotionRespectsLock
  BY StirredFits DEF FocusInv, PointerFits, LockFits, MotionRespectsLock
<1> QED
  BY <1>1, FocusIsInvariant, PTL

(* What the shell's keyboard types is sent to a text input that is alive,       *)
(* enabled and focused on the window it was typed for.                          *)
THEOREM TypingFindsItsText == Spec => []ActiveTextInputIsFocused
<1>1. FocusInv => ActiveTextInputIsFocused
  BY DEF FocusInv, InputFits, ActiveTextInputIsFocused
<1> QED
  BY <1>1, FocusIsInvariant, PTL

=============================================================================
