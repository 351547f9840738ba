------------------------ MODULE OutputConfiguration ------------------------
(***************************************************************************)
(* The configuration of the outputs: what the manager has recorded, what    *)
(* the hardware does, and everything reconcile derives from both.           *)
(*                                                                          *)
(* A change is tested, prepared (a framebuffer of the new size), committed  *)
(* for all outputs at once, and rolled back if that fails; the rollback may *)
(* fail too.  Blanking the desktop commits the recorded settings with every *)
(* output off.  All of this runs on the Wayland thread, and applying_ keeps *)
(* the backend's callbacks from starting a second change, so a handler is   *)
(* one step.                                                                *)
(*                                                                          *)
(* The desktop is a row: y, height, scale, transform and adaptive sync go   *)
(* the way of x and width.  A mode is a width and a rate; rate 0 asks the   *)
(* backend to choose.  The module ends where shutdown begins.               *)
(***************************************************************************)
EXTENDS Integers, FiniteSetsExt, SequencesExt

NoOutput == "none"

CONSTANTS
  Outputs,
  Modes,         \* the modes clients ask for, as [width, refresh]
  Positions,     \* the x they ask for
  MaxDimension,  \* the largest framebuffer the GPU can have
  PickedRate,    \* the rate the backend chooses for refresh = 0
  MaxRight       \* bound: how far from the origin a new output is put

ASSUME ConfigurationAssumption ==
  /\ NoOutput \notin Outputs
  /\ Modes \subseteq [width : Nat \ {0}, refresh : Nat]
  /\ Positions \subseteq Int
  /\ MaxDimension \in Nat /\ PickedRate \in Nat \ {0}
  /\ MaxRight \in Nat

VARIABLES
  outputs,           \* ZenithServer::outputs, in the order they were plugged in
  hw,                \* what wlroots says of each plugged output
  configured,        \* configured_
  display_enabled,   \* display_enabled_
  layout,            \* output_layout: x of the outputs in it
  primary,           \* ZenithServer::output
  prepared,          \* prepared_target_, as the width of its buffers
  target,            \* composition_swap_chain_, likewise
  composition,       \* composition_format_output_, _width_ and _mapping_
  told,              \* what the protocol's clients were told last
  accepted,          \* history: the settings last accepted for each output
  outcome            \* history: how the last handler ended, ...

vars == <<outputs, hw, configured, display_enabled, layout, primary, prepared,
          target, composition, told, accepted, outcome>>

Settings == [enabled : BOOLEAN, width : Nat, refresh : Nat, x : Int]
NoTarget == 0
NoComposition == [format |-> NoOutput, width |-> 0, mapping |-> <<>>]

(* The state a handler works on.                                            *)
Now == [outputs |-> outputs, hw |-> hw, configured |-> configured,
        display_enabled |-> display_enabled, layout |-> layout,
        primary |-> primary, prepared |-> prepared, target |-> target,
        composition |-> composition, told |-> told, replaced |-> FALSE]

Become(s) ==
  /\ outputs' = s.outputs /\ hw' = s.hw /\ configured' = s.configured
  /\ display_enabled' = s.display_enabled /\ layout' = s.layout
  /\ primary' = s.primary /\ prepared' = s.prepared /\ target' = s.target
  /\ composition' = s.composition /\ told' = s.told

Init ==
  /\ outputs = <<>> /\ hw = <<>> /\ configured = <<>> /\ display_enabled = TRUE
  /\ layout = <<>> /\ primary = NoOutput
  /\ prepared = NoTarget /\ target = NoTarget /\ composition = NoComposition
  /\ told = <<>> /\ accepted = <<>>
  /\ outcome = [result |-> "none", replaced |-> FALSE, recovered |-> FALSE]

----------------------------------------------------------------------------
Plugged(s) == DOMAIN s.hw
Lit(s)     == {o \in Plugged(s) : s.hw[o].on}
Enabled(c) == {o \in DOMAIN c : c[o].enabled}

FirstOf(s, S) ==
  LET those == {i \in DOMAIN s.outputs : s.outputs[i] \in S}
  IN  IF those = {} THEN NoOutput ELSE s.outputs[Min(those)]

Extent(boxes) ==
  IF boxes = {} THEN 0
  ELSE Max({b.x + b.width : b \in boxes}) - Min({b.x : b \in boxes})

Box(s, o) == [x |-> s.layout[o], width |-> s.hw[o].width]
Boxes(s)  == {Box(s, o) : o \in DOMAIN s.layout}

CaptureOutput(s, o) ==
  [enabled |-> s.hw[o].on, width |-> s.hw[o].width, refresh |-> s.hw[o].refresh,
   x |-> IF o \in DOMAIN s.layout THEN s.layout[o]
         ELSE IF o \in DOMAIN s.configured THEN s.configured[o].x ELSE 0]

ConfigurationCaptured(s) ==   \* Mutant: reads the hardware instead of the record
  [o \in Plugged(s) |-> CaptureOutput(s, o)]

Configuration(s) ==
  [o \in Plugged(s) |-> IF o \in DOMAIN s.configured THEN s.configured[o]
                        ELSE CaptureOutput(s, o)]

RenderOutput(s) ==
  IF s.primary \in Lit(s) THEN s.primary ELSE FirstOf(s, Lit(s))

(* configuration_geometry: the width of the framebuffer, and whether the    *)
(* proposal can have one.                                                   *)
ProposedExtent(p) == Extent({[x |-> p[o].x, width |-> p[o].width] : o \in Enabled(p)})
HasGeometry(p) ==
  /\ \A o \in Enabled(p) : p[o].width \in 1..MaxDimension
  /\ ProposedExtent(p) <= MaxDimension

Mapping(s) ==
  [i \in DOMAIN s.outputs |->
     LET o == s.outputs[i]
     IN  [box |-> IF o \in DOMAIN s.layout THEN Box(s, o) ELSE [x |-> 0, width |-> 0],
          on  |-> s.hw[o].on]]

ClearCompositionTarget(s) ==
  [s EXCEPT !.prepared = NoTarget, !.target = NoTarget, !.composition = NoComposition]

EnsureKeepsPrepared(s) ==   \* Mutant: copies the prepared target, does not move it
  IF RenderOutput(s) = NoOutput THEN {ClearCompositionTarget(s)}
  ELSE LET wanted == [format |-> RenderOutput(s), width |-> Extent(Boxes(s)),
                      mapping |-> Mapping(s)]
       IN  IF s.target # NoTarget /\ s.composition = wanted THEN {s}
           ELSE {[s EXCEPT !.target = IF s.prepared # NoTarget THEN s.prepared
                                      ELSE wanted.width,
                           !.composition = wanted, !.replaced = TRUE]}

(* ensure_composition_target; a set, since a framebuffer that was not       *)
(* prepared may fail to be created.                                         *)
EnsureCompositionTarget(s) ==
  LET wanted == [format |-> RenderOutput(s), width |-> Extent(Boxes(s)),
                 mapping |-> Mapping(s)]
      Install(chain) == [s EXCEPT !.target = chain, !.prepared = NoTarget,
                                  !.composition = wanted, !.replaced = TRUE]
  IN  IF RenderOutput(s) = NoOutput THEN {ClearCompositionTarget(s)}
      ELSE IF s.target # NoTarget /\ s.composition = wanted THEN {s}
      ELSE IF s.prepared # NoTarget THEN {Install(s.prepared)}
      ELSE {Install(wanted.width), ClearCompositionTarget(s)}

NextPrimary(s) ==
  IF s.primary \in Enabled(s.configured) THEN s.primary
  ELSE FirstOf(s, Enabled(s.configured))

PlacedAlways(s) ==   \* Mutant: leaves outputs that are off in the layout
  [o \in DOMAIN s.configured |-> s.configured[o].x]

Placed(s) ==
  [o \in Lit(s) \cap DOMAIN s.configured |-> s.configured[o].x]

Reconcile(s) ==
  EnsureCompositionTarget([s EXCEPT !.primary = NextPrimary(s), !.layout = Placed(s),
                                    !.told = Configuration(s)])

----------------------------------------------------------------------------
(* configure(): the set of ways it can end, each with the state it leaves.  *)

Ended(r, S) == {[result |-> r, state |-> s] : s \in S}

Rate(r) == IF r = 0 THEN PickedRate ELSE r

(* The state handed to the backend: nothing is lit while blanked.           *)
Desired(s, p) ==
  [o \in Plugged(s) |->
     IF p[o].enabled /\ s.display_enabled
     THEN [on |-> TRUE, width |-> p[o].width, refresh |-> Rate(p[o].refresh)]
     ELSE [s.hw[o] EXCEPT !.on = FALSE]]

RecordedAsAsked(s, p, lit) == p   \* Mutant: keeps the placeholder

(* The settings recorded for a proposal that was applied.                   *)
Recorded(s, p, lit) ==
  [o \in DOMAIN p |-> IF s.display_enabled /\ p[o].enabled
                      THEN [p[o] EXCEPT !.refresh = lit[o].refresh] ELSE p[o]]

Applied(s, p) ==
  LET lit == Desired(s, p)
  IN  Reconcile([s EXCEPT !.hw = lit, !.configured = Recorded(s, p, lit),
                          !.prepared = ProposedExtent(p),
                          !.composition.mapping = <<>>])

RestoredWithTarget(s, p) ==   \* Mutant: hands over the framebuffer all the same
  Reconcile([s EXCEPT !.prepared = ProposedExtent(p), !.composition.mapping = <<>>])

(* The rollback put the outputs back.                                       *)
Restored(s, p) == Reconcile(s)

RecoveredNothing(s, p) ==   \* Mutant: keeps the record
  UNION {Reconcile([s EXCEPT !.hw = h]) :
           h \in {[o \in Plugged(s) |-> IF o \in S THEN Desired(s, p)[o] ELSE s.hw[o]] :
                    S \in SUBSET Plugged(s)}}

(* It did not: every output is as it was or as it was to be.                *)
Recovered(s, p) ==
  UNION {LET r == [s EXCEPT !.hw = [o \in Plugged(s) |->
                                      IF o \in S THEN Desired(s, p)[o] ELSE s.hw[o]]]
         IN  Reconcile([r EXCEPT !.configured = [o \in Plugged(s) |-> CaptureOutput(r, o)]])
         : S \in SUBSET Plugged(s)}

Acceptable(s, p) == DOMAIN p = Plugged(s) /\ HasGeometry(p)

Configure(s, p, test_only) ==
  Ended("rejected", {s}) \cup
  IF ~ Acceptable(s, p) THEN {}
  ELSE IF test_only THEN Ended("tested", {s})
  ELSE Ended("applied", Applied(s, p))
         \cup Ended("restored", Restored(s, p))
         \cup Ended("recovered", Recovered(s, p))

----------------------------------------------------------------------------
(* The handlers. *)

Remember(result, s) ==
  outcome' = [result |-> result, replaced |-> s.replaced,
              recovered |-> CASE result = "recovered" -> TRUE
                              [] result = "applied"   -> FALSE
                              [] OTHER                -> outcome.recovered]

(* The settings a user may count on after a configure that ended in r.      *)
AcceptedAfter(r, p) ==
  CASE r.result = "applied"   -> p
    [] r.result = "recovered" -> r.state.configured
    [] OTHER                  -> accepted

(* A client's head: a head that is turned off keeps its settings.           *)
Heads(o) ==
  (UNION {{[enabled |-> TRUE, width |-> m.width, refresh |-> m.refresh, x |-> x]
             : x \in Positions} : m \in Modes})
  \cup {[Configuration(Now)[o] EXCEPT !.enabled = FALSE]}

Request(test_only) ==
  /\ outputs # <<>>
  /\ \E p \in UNION {[S -> UNION {Heads(o) : o \in S}] : S \in SUBSET Plugged(Now)} :
       /\ \A o \in DOMAIN p : p[o] \in Heads(o)
       /\ \E r \in Configure(Now, p, test_only) :
            /\ Become(r.state) /\ Remember(r.result, r.state)
            /\ accepted' = AcceptedAfter(r, p)

(* The backend asks for a mode, or for an output to be on or off.           *)
RequestState(o) ==
  /\ o \in Plugged(Now)
  /\ \E e \in BOOLEAN, m \in Modes \cup {configured[o]} :
       LET p == [Configuration(Now) EXCEPT
                   ![o].enabled = e, ![o].width = m.width, ![o].refresh = m.refresh]
       IN  \E r \in Configure(Now, p, FALSE) :
             /\ Become(r.state) /\ Remember(r.result, r.state)
             /\ accepted' = AcceptedAfter(r, p)

SetDisplayEnabled(enable) ==
  /\ display_enabled # enable
  /\ \E r \in Configure([Now EXCEPT !.display_enabled = enable],
                        Configuration(Now), FALSE) :
       /\ Become(IF r.result = "applied" THEN r.state
                 ELSE [r.state EXCEPT !.display_enabled = display_enabled])
       /\ Remember(r.result, r.state)
       /\ accepted' = IF r.result = "recovered" THEN r.state.configured ELSE accepted

(* add_output_to_layout: to the right of everything lit.                    *)
RightOf(s) == IF DOMAIN s.layout = {} THEN 0 ELSE Max({b.x + b.width : b \in Boxes(s)})

(* output_create_handle: the output is lit if it can be, and recorded.      *)
WithOutput(s, o, light) ==
  LET lit == [s EXCEPT !.outputs = Append(@, o),
                       !.hw = [p \in Plugged(s) \cup {o} |-> IF p = o THEN light ELSE s.hw[p]],
                       !.layout = IF light.on
                                  THEN [p \in DOMAIN @ \cup {o} |->
                                          IF p = o THEN RightOf(s) ELSE @[p]]
                                  ELSE @]
  IN  [lit EXCEPT !.configured = [p \in DOMAIN @ \cup {o} |->
                                    IF p = o THEN CaptureOutput(lit, o) ELSE @[p]]]

(* The output could not be combined with the others: it is turned off,      *)
(* unless that fails as well.                                               *)
Unusable(s, o) ==
  UNION {LET off == [s EXCEPT !.hw[o].on = @ /\ stays]
         IN  Reconcile([off EXCEPT !.configured[o] = CaptureOutput(off, o)])
         : stays \in BOOLEAN}

Lights == {[on |-> TRUE, width |-> m.width, refresh |-> Rate(m.refresh)] : m \in Modes}
            \cup {[on |-> FALSE, width |-> 0, refresh |-> 0]}

PlugIn(o) ==
  /\ o \notin Plugged(Now) /\ RightOf(Now) \in (-MaxRight)..MaxRight
  /\ \E light \in Lights :
       LET s == WithOutput(Now, o, light)
       IN  \E r \in Configure(s, Configuration(s), FALSE) :
             \E t \in IF r.result = "applied" THEN {r.state} ELSE Unusable(r.state, o) :
               /\ Become(t)
               /\ Remember(IF r.result = "applied" THEN "applied"
                           ELSE IF r.result = "recovered" \/ t.hw[o].on THEN "recovered"
                           ELSE "unusable", t)
               /\ accepted' = IF r.result = "recovered" THEN t.configured
                              ELSE [p \in Plugged(t) |-> IF p = o THEN t.configured[o]
                                                         ELSE accepted[p]]

Forget(f, o) == [p \in DOMAIN f \ {o} |-> f[p]]

WithoutOutput(s, o) ==
  LET at == CHOOSE i \in DOMAIN s.outputs : s.outputs[i] = o
  IN  [s EXCEPT !.outputs = RemoveAt(@, at), !.hw = Forget(@, o),
                !.configured = Forget(@, o), !.layout = Forget(@, o),
                !.composition.format = IF @ = o THEN NoOutput ELSE @,
                !.primary = IF @ = o THEN NoOutput ELSE @]

Unplug(o) ==
  /\ o \in Plugged(Now)
  /\ \E s \in Reconcile(WithoutOutput(Now, o)) :
       Become(s) /\ Remember("unplugged", s)
  /\ accepted' = Forget(accepted, o)

Next ==
  \/ \E enable \in BOOLEAN : SetDisplayEnabled(enable)
  \/ \E test_only \in BOOLEAN : Request(test_only)
  \/ \E o \in Outputs : RequestState(o) \/ PlugIn(o) \/ Unplug(o)

Spec == Init /\ [][Next]_vars
----------------------------------------------------------------------------
TypeOK ==
  /\ outputs \in Seq(Outputs) /\ DOMAIN hw = {outputs[i] : i \in DOMAIN outputs}
  /\ \A i, j \in DOMAIN outputs : outputs[i] = outputs[j] => i = j
  /\ hw \in [DOMAIN hw -> [on : BOOLEAN, width : Nat, refresh : Nat]]
  /\ configured \in [DOMAIN hw -> Settings] /\ told \in [DOMAIN hw -> Settings]
  /\ accepted \in [DOMAIN hw -> Settings]
  /\ display_enabled \in BOOLEAN
  /\ DOMAIN layout \subseteq DOMAIN hw /\ layout \in [DOMAIN layout -> Int]
  /\ primary \in {NoOutput} \cup DOMAIN hw
  /\ composition.format \in {NoOutput} \cup DOMAIN hw
  /\ prepared \in Nat /\ target \in Nat

(* While the desktop is on, every output runs with the settings recorded    *)
(* for it, rate included: after each way configure can end, rollbacks that  *)
(* fail half-way included (recovery captures what the outputs came to).     *)
HardwareFollowsRecord ==
  display_enabled =>
    \A o \in Plugged(Now) :
      /\ hw[o].on = configured[o].enabled
      /\ hw[o].on => hw[o] = [on |-> TRUE, width |-> configured[o].width,
                              refresh |-> configured[o].refresh]

(* Lit outputs, and only they, are in the layout, at their recorded place.  *)
LayoutFollowsHardware ==
  /\ DOMAIN layout = Lit(Now)
  /\ \A o \in Lit(Now) : layout[o] = configured[o].x

(* The framebuffer Flutter draws into is as wide as the lit desktop, was    *)
(* set up for its render output, and a prepared one is never left to a      *)
(* later change.                                                            *)
TargetCoversDesktop ==
  /\ prepared = NoTarget
  /\ target # NoTarget =>
       /\ Lit(Now) # {} /\ target = Extent(Boxes(Now))
       /\ composition = [format |-> RenderOutput(Now), width |-> target,
                         mapping |-> Mapping(Now)]

(* Clients see the record, and never the placeholder of a custom mode once  *)
(* its output runs ("Advertise the resulting rate", configure).             *)
AdvertisedIsRecord ==
  /\ told = configured
  /\ display_enabled => \A o \in Enabled(told) : told[o].refresh # 0

(* What was accepted for an output stays recorded through blanking, other   *)
(* outputs' hotplug and failed changes ("Retain the last settings so a      *)
(* later enable or power-cycle doesn't lose the user's layout").            *)
SettingsAreKept ==
  \A o \in Plugged(Now) :
    configured[o] = [accepted[o] EXCEPT !.refresh = IF @ = 0 THEN configured[o].refresh
                                                    ELSE @]

(* A change that was only tested, was rejected, or was rolled back leaves   *)
(* everything as it was; the framebuffer is not even replaced (the smoke    *)
(* test: "rejected configuration changed live state").                      *)
FailureChangesNothing ==
  [][outcome'.result \in {"tested", "rejected", "restored"} =>
       /\ UNCHANGED <<outputs, hw, configured, display_enabled, layout, primary, told>>
       /\ target # NoTarget => /\ UNCHANGED <<target, composition>>
                               /\ ~ outcome'.replaced]_vars

(* Waking the desktop never changes which outputs are configured on (the    *)
(* smoke test: "blank/wake changed configured outputs").                    *)
WakeKeepsConfiguration ==
  [][SetDisplayEnabled(TRUE) => Enabled(configured') = Enabled(configured)]_vars
=============================================================================
