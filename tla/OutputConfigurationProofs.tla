--------------------- MODULE OutputConfigurationProofs ---------------------
(***************************************************************************)
(* For any outputs, modes and limits: while the desktop is on the hardware  *)
(* runs what is recorded, the layout holds the lit outputs, clients were    *)
(* told the record, accepted settings stay in it, the framebuffer covers    *)
(* the desktop, and a failed change leaves everything as it was.  The       *)
(* argument follows the state record s through the handlers, from one       *)
(* reconcile to the next.                                                   *)
(***************************************************************************)
EXTENDS OutputConfiguration, SequenceTheorems, TLAPS

Fields == {"outputs", "hw", "configured", "display_enabled", "layout", "primary",
           "prepared", "target", "composition", "told", "replaced"}

(* What wlroots says of an output: one that runs has a rate.                *)
Hardware ==
  {h \in [on : BOOLEAN, width : Nat, refresh : Nat] : h.on => h.refresh # 0}

(* What every intermediate state of a handler is.                           *)
Typed(s) ==
  /\ DOMAIN s = Fields
  /\ s.hw \in [DOMAIN s.hw -> Hardware]
  /\ s.configured \in [DOMAIN s.hw -> Settings]
  /\ s.layout \in [DOMAIN s.layout -> Int]

(* What reconcile establishes.                                              *)
Reconciled(s) == s.layout = Placed(s) /\ s.told = s.configured

Follows(s) ==
  \A o \in Plugged(s) :
    /\ s.hw[o].on = s.configured[o].enabled
    /\ s.hw[o].on => /\ s.hw[o].width = s.configured[o].width
                     /\ s.hw[o].refresh = s.configured[o].refresh

IInv == Typed(Now) /\ Reconciled(Now) /\ (display_enabled => Follows(Now))

LEMMA NowFields ==
  /\ DOMAIN Now = Fields /\ Now.outputs = outputs /\ Now.hw = hw
  /\ Now.configured = configured /\ Now.display_enabled = display_enabled
  /\ Now.layout = layout /\ Now.told = told
BY DEF Now, Fields

(* The framebuffer has no part in the record.                               *)
LEMMA TargetOnly ==
  ASSUME NEW s, DOMAIN s = Fields, NEW t \in EnsureCompositionTarget(s)
  PROVE  /\ DOMAIN t = Fields /\ t.hw = s.hw /\ t.configured = s.configured
         /\ t.display_enabled = s.display_enabled /\ t.layout = s.layout
         /\ t.told = s.told
<1> DEFINE wanted == [format |-> RenderOutput(s), width |-> Extent(Boxes(s)),
                      mapping |-> Mapping(s)]
           Install(chain) == [s EXCEPT !.target = chain, !.prepared = NoTarget,
                                       !.composition = wanted, !.replaced = TRUE]
<1>1. \/ t = s \/ t = ClearCompositionTarget(s)
      \/ t = Install(s.prepared) \/ t = Install(wanted.width)
  BY DEF EnsureCompositionTarget
<1>2. CASE t = s
  BY <1>2
<1>3. CASE t = ClearCompositionTarget(s)
  BY <1>3 DEF ClearCompositionTarget, Fields
<1>4. ASSUME NEW chain, t = Install(chain)
      PROVE  /\ DOMAIN t = Fields /\ t.hw = s.hw /\ t.configured = s.configured
             /\ t.display_enabled = s.display_enabled /\ t.layout = s.layout
             /\ t.told = s.told
  <2> HIDE DEF wanted
  <2> QED
    BY <1>4 DEF Fields
<1> QED
  BY <1>1, <1>2, <1>3, <1>4

LEMMA PlacedTyped ==
  ASSUME NEW s, Typed(s)
  PROVE  Placed(s) \in [DOMAIN Placed(s) -> Int]
BY DEF Placed, Typed, Settings, Lit, Plugged

LEMMA ConfigurationIsRecord ==
  ASSUME NEW s, Typed(s)
  PROVE  Configuration(s) = s.configured
BY DEF Configuration, Typed, Plugged

(* reconcile changes neither record nor hardware, and leaves them agreeing  *)
(* with the layout and with what clients were told.                         *)
LEMMA ReconcileWorks ==
  ASSUME NEW s, Typed(s), NEW t \in Reconcile(s)
  PROVE  /\ Typed(t) /\ Reconciled(t)
         /\ t.hw = s.hw /\ t.configured = s.configured
         /\ t.display_enabled = s.display_enabled
<1> DEFINE u == [s EXCEPT !.primary = NextPrimary(s), !.layout = Placed(s),
                          !.told = Configuration(s)]
<1>1. /\ DOMAIN u = Fields /\ u.hw = s.hw /\ u.configured = s.configured
      /\ u.display_enabled = s.display_enabled
      /\ u.layout = Placed(s) /\ u.told = Configuration(s)
  BY DEF Typed, Fields
<1>2. t \in EnsureCompositionTarget(u)
  BY DEF Reconcile
<1> HIDE DEF u
<1>3. /\ DOMAIN t = Fields /\ t.hw = s.hw /\ t.configured = s.configured
      /\ t.display_enabled = s.display_enabled
      /\ t.layout = Placed(s) /\ t.told = Configuration(s)
  BY <1>1, <1>2, TargetOnly
<1>4. Placed(t) = Placed(s)
  BY <1>3 DEF Placed, Lit, Plugged
<1> QED
  BY <1>3, <1>4, PlacedTyped, ConfigurationIsRecord DEF Typed, Reconciled

LEMMA FollowsSame ==
  ASSUME NEW s, NEW t, t.hw = s.hw, t.configured = s.configured, Follows(s)
  PROVE  Follows(t)
BY DEF Follows, Plugged

LEMMA CaptureTyped ==
  ASSUME NEW s, Typed(s), NEW o \in Plugged(s)
  PROVE  /\ CaptureOutput(s, o) \in Settings
         /\ CaptureOutput(s, o).enabled = s.hw[o].on
         /\ CaptureOutput(s, o).width = s.hw[o].width
         /\ CaptureOutput(s, o).refresh = s.hw[o].refresh
<1>1. s.hw[o] \in Hardware
  BY DEF Typed, Plugged
<1>2. (IF o \in DOMAIN s.layout THEN s.layout[o]
       ELSE IF o \in DOMAIN s.configured THEN s.configured[o].x ELSE 0) \in Int
  BY DEF Typed, Plugged, Settings
<1> QED
  BY <1>1, <1>2 DEF CaptureOutput, Settings, Hardware

----------------------------------------------------------------------------
(* The ways configure ends.                                                 *)

Proposal(s) == [Plugged(s) -> Settings]

LEMMA DesiredTyped ==
  ASSUME NEW s, Typed(s), NEW p \in Proposal(s)
  PROVE  Desired(s, p) \in [Plugged(s) -> Hardware]
<1> SUFFICES ASSUME NEW o \in Plugged(s)
             PROVE  Desired(s, p)[o] \in Hardware
  BY DEF Desired
<1>1. s.hw[o] \in Hardware /\ p[o] \in Settings
  BY DEF Typed, Plugged, Proposal
<1>2. [s.hw[o] EXCEPT !.on = FALSE] \in Hardware
  BY <1>1 DEF Hardware
<1>3. Rate(p[o].refresh) \in Nat \ {0}
  BY <1>1, ConfigurationAssumption DEF Rate, Settings
<1>4. [on |-> TRUE, width |-> p[o].width, refresh |-> Rate(p[o].refresh)] \in Hardware
  BY <1>1, <1>3 DEF Hardware, Settings
<1> QED
  BY <1>2, <1>4 DEF Desired

LEMMA AppliedWorks ==
  ASSUME NEW s, Typed(s), NEW p \in Proposal(s), NEW t \in Applied(s, p)
  PROVE  /\ Typed(t) /\ Reconciled(t)
         /\ t.display_enabled = s.display_enabled /\ Plugged(t) = Plugged(s)
         /\ s.display_enabled => Follows(t)
         /\ t.configured = Recorded(s, p, Desired(s, p))
<1> DEFINE lit == Desired(s, p)
           rec == Recorded(s, p, lit)
           u == [s EXCEPT !.hw = lit, !.configured = rec,
                          !.prepared = ProposedExtent(p), !.composition.mapping = <<>>]
<1>1. lit \in [Plugged(s) -> Hardware]
  BY DesiredTyped
<1>2. rec \in [Plugged(s) -> Settings]
  <2> SUFFICES ASSUME NEW o \in Plugged(s)
               PROVE  rec[o] \in Settings
    BY DEF Recorded, Proposal
  <2>1. p[o] \in Settings /\ lit[o] \in Hardware
    BY <1>1 DEF Proposal
  <2>2. [p[o] EXCEPT !.refresh = lit[o].refresh] \in Settings
    BY <2>1 DEF Settings, Hardware
  <2> QED
    BY <2>1, <2>2 DEF Recorded, Proposal
<1>3. t \in Reconcile(u)
  BY DEF Applied
<1>4. ASSUME s.display_enabled, NEW o \in Plugged(s)
      PROVE  /\ lit[o].on = rec[o].enabled
             /\ lit[o].on => lit[o].width = rec[o].width /\ lit[o].refresh = rec[o].refresh
  <2>1. p[o] \in Settings /\ s.hw[o] \in Hardware /\ o \in DOMAIN p
    BY DEF Proposal, Typed, Plugged
  <2>2. CASE p[o].enabled
    <3>1. lit[o] = [on |-> TRUE, width |-> p[o].width, refresh |-> Rate(p[o].refresh)]
      BY <1>4, <2>2 DEF Desired
    <3>2. rec[o] = [p[o] EXCEPT !.refresh = lit[o].refresh]
      BY <1>4, <2>1, <2>2 DEF Recorded
    <3> HIDE DEF lit, rec
    <3>3. rec[o].enabled = TRUE
      BY <2>1, <2>2, <3>2 DEF Settings
    <3>4. rec[o].width = p[o].width /\ rec[o].refresh = lit[o].refresh
      BY <2>1, <3>2 DEF Settings
    <3>5. lit[o].on = TRUE /\ lit[o].width = p[o].width
      BY <3>1
    <3> QED
      BY <3>3, <3>4, <3>5
  <2>3. CASE ~ p[o].enabled
    <3>1. lit[o] = [s.hw[o] EXCEPT !.on = FALSE] /\ rec[o] = p[o]
      BY <2>1, <2>3 DEF Desired, Recorded
    <3> HIDE DEF lit, rec
    <3>2. lit[o].on = FALSE
      BY <2>1, <3>1 DEF Hardware
    <3>3. p[o].enabled = FALSE
      BY <2>1, <2>3 DEF Settings
    <3> QED
      BY <3>1, <3>2, <3>3
  <2> QED
    BY <2>2, <2>3
<1> HIDE DEF lit, rec
<1>5. /\ DOMAIN u = Fields /\ u.hw = lit /\ u.configured = rec
      /\ u.display_enabled = s.display_enabled /\ u.layout = s.layout
  BY DEF Typed, Fields
<1> HIDE DEF u
<1>6. Typed(u)
  BY <1>1, <1>2, <1>5 DEF Typed
<1>7. /\ Typed(t) /\ Reconciled(t) /\ t.hw = lit /\ t.configured = rec
      /\ t.display_enabled = s.display_enabled
  BY <1>3, <1>5, <1>6, ReconcileWorks
<1>8. Plugged(t) = Plugged(s)
  BY <1>1, <1>7 DEF Plugged
<1>9. s.display_enabled => Follows(t)
  BY <1>4, <1>7, <1>8 DEF Follows
<1> QED
  BY <1>7, <1>8, <1>9 DEF lit, rec

LEMMA RecoveredWorks ==
  ASSUME NEW s, Typed(s), NEW p \in Proposal(s), NEW t \in Recovered(s, p)
  PROVE  /\ Typed(t) /\ Reconciled(t)
         /\ t.display_enabled = s.display_enabled /\ Plugged(t) = Plugged(s)
         /\ Follows(t)
<1> DEFINE mix(S) == [o \in Plugged(s) |-> IF o \in S THEN Desired(s, p)[o] ELSE s.hw[o]]
           r(S) == [s EXCEPT !.hw = mix(S)]
           rec(S) == [o \in Plugged(s) |-> CaptureOutput(r(S), o)]
           u(S) == [r(S) EXCEPT !.configured = rec(S)]
<1>1. PICK S \in SUBSET Plugged(s) : t \in Reconcile(u(S))
  BY DEF Recovered
<1>2. mix(S) \in [Plugged(s) -> Hardware]
  BY DesiredTyped DEF Typed, Plugged
<1>3. /\ DOMAIN r(S) = Fields /\ r(S).hw = mix(S) /\ r(S).configured = s.configured
      /\ r(S).display_enabled = s.display_enabled /\ r(S).layout = s.layout
  BY DEF Typed, Fields
<1>4. /\ DOMAIN u(S) = Fields /\ u(S).hw = mix(S) /\ u(S).configured = rec(S)
      /\ u(S).display_enabled = s.display_enabled /\ u(S).layout = s.layout
  <2> HIDE DEF r, mix, rec
  <2> QED
    BY <1>3 DEF Fields
<1>5. Typed(r(S)) /\ Plugged(r(S)) = Plugged(s)
  <2> HIDE DEF r, mix
  <2>1. DOMAIN mix(S) = DOMAIN s.hw
    BY <1>2 DEF Plugged
  <2> QED
    BY <1>2, <1>3, <2>1 DEF Typed, Plugged
<1> HIDE DEF r, mix
<1>6. \A o \in Plugged(s) :
        /\ CaptureOutput(r(S), o) \in Settings
        /\ CaptureOutput(r(S), o).enabled = mix(S)[o].on
        /\ CaptureOutput(r(S), o).width = mix(S)[o].width
        /\ CaptureOutput(r(S), o).refresh = mix(S)[o].refresh
  BY <1>3, <1>5, CaptureTyped
<1>7. /\ rec(S) \in [Plugged(s) -> Settings]
      /\ \A o \in Plugged(s) : /\ rec(S)[o].enabled = mix(S)[o].on
                               /\ rec(S)[o].width = mix(S)[o].width
                               /\ rec(S)[o].refresh = mix(S)[o].refresh
  BY <1>6
<1> HIDE DEF rec, u
<1>8. Typed(u(S))
  BY <1>2, <1>4, <1>7 DEF Typed, Plugged
<1>9. /\ Typed(t) /\ Reconciled(t) /\ t.hw = mix(S) /\ t.configured = rec(S)
      /\ t.display_enabled = s.display_enabled
  BY <1>1, <1>4, <1>8, ReconcileWorks
<1>10. Plugged(t) = Plugged(s)
  BY <1>2, <1>9 DEF Plugged
<1>11. Follows(t)
  BY <1>7, <1>9, <1>10 DEF Follows
<1> QED
  BY <1>9, <1>10, <1>11

Good(s) == Typed(s) /\ Reconciled(s) /\ (s.display_enabled => Follows(s))

(* Whatever is proposed, configure leaves a good state behind, except that  *)
(* it may leave the state it was given as it is.                            *)
LEMMA ConfigureWorks ==
  ASSUME NEW s, Typed(s), NEW p, p \in [DOMAIN p -> Settings],
         NEW b, NEW r \in Configure(s, p, b)
  PROVE  /\ Typed(r.state)
         /\ r.state.display_enabled = s.display_enabled
         /\ Plugged(r.state) = Plugged(s)
         /\ \/ r.state = s /\ r.result \in {"rejected", "tested"}
            \/ /\ r.result = "restored" /\ Reconciled(r.state)
               /\ r.state.hw = s.hw /\ r.state.configured = s.configured
            \/ /\ r.result = "applied" /\ Good(r.state) /\ DOMAIN p = Plugged(s)
               /\ r.state.configured = Recorded(s, p, Desired(s, p))
            \/ r.result = "recovered" /\ Reconciled(r.state) /\ Follows(r.state)
<1>1. \/ r.state = s /\ r.result \in {"rejected", "tested"}
      \/ /\ DOMAIN p = Plugged(s)
         /\ \/ r.result = "applied" /\ r.state \in Applied(s, p)
            \/ r.result = "restored" /\ r.state \in Restored(s, p)
            \/ r.result = "recovered" /\ r.state \in Recovered(s, p)
  BY DEF Configure, Ended, Acceptable
<1>2. CASE r.state = s /\ r.result \in {"rejected", "tested"}
  BY <1>2
<1>3. ASSUME DOMAIN p = Plugged(s), r.result = "applied", r.state \in Applied(s, p)
      PROVE  /\ Typed(r.state) /\ Good(r.state)
             /\ r.state.display_enabled = s.display_enabled
             /\ Plugged(r.state) = Plugged(s)
             /\ r.state.configured = Recorded(s, p, Desired(s, p))
  BY <1>3, AppliedWorks DEF Proposal, Good
<1>4. ASSUME r.result = "restored", r.state \in Restored(s, p)
      PROVE  /\ Typed(r.state) /\ Reconciled(r.state)
             /\ r.state.hw = s.hw /\ r.state.configured = s.configured
             /\ r.state.display_enabled = s.display_enabled
             /\ Plugged(r.state) = Plugged(s)
  BY <1>4, ReconcileWorks DEF Restored, Plugged
<1>5. ASSUME DOMAIN p = Plugged(s), r.result = "recovered", r.state \in Recovered(s, p)
      PROVE  /\ Typed(r.state) /\ Reconciled(r.state) /\ Follows(r.state)
             /\ r.state.display_enabled = s.display_enabled
             /\ Plugged(r.state) = Plugged(s)
  BY <1>5, RecoveredWorks DEF Proposal
<1> QED
  BY <1>1, <1>2, <1>3, <1>4, <1>5

(* A change of the settings alone keeps a good state good.                  *)
LEMMA ConfigureKeepsGood ==
  ASSUME NEW s, Good(s), NEW p, p \in [DOMAIN p -> Settings],
         NEW b, NEW r \in Configure(s, p, b)
  PROVE  Good(r.state)
<1>1. Typed(s)
  BY DEF Good
<1>2. CASE r.state = s
  BY <1>2
<1>3. CASE r.result = "restored" /\ Reconciled(r.state)
           /\ r.state.hw = s.hw /\ r.state.configured = s.configured
  BY <1>1, <1>3, ConfigureWorks, FollowsSame DEF Good
<1>4. CASE r.result = "recovered" /\ Reconciled(r.state) /\ Follows(r.state)
  BY <1>1, <1>4, ConfigureWorks DEF Good
<1> QED
  BY <1>1, <1>2, <1>3, <1>4, ConfigureWorks

LEMMA NowIsGood == IInv <=> Good(Now)
BY NowFields DEF IInv, Good

LEMMA BecomeGood ==
  ASSUME NEW t, Good(t), Become(t)
  PROVE  IInv'
<1>1. /\ Now'.hw = t.hw /\ Now'.configured = t.configured
      /\ Now'.layout = t.layout /\ Now'.told = t.told
      /\ DOMAIN Now' = Fields /\ display_enabled' = t.display_enabled
  BY DEF Now, Become, Fields
<1>2. Placed(Now') = Placed(t)
  BY <1>1 DEF Placed, Lit, Plugged
<1>3. Typed(Now') /\ Reconciled(Now')
  BY <1>1, <1>2 DEF Good, Typed, Reconciled
<1>4. Follows(t) => Follows(Now')
  BY <1>1 DEF Follows, Plugged
<1> QED
  BY <1>1, <1>3, <1>4 DEF IInv, Good

----------------------------------------------------------------------------
(* The handlers.                                                            *)

LEMMA InitIInv == Init => IInv
<1> SUFFICES ASSUME Init PROVE IInv
  OBVIOUS
<1>1. /\ Now.hw = <<>> /\ Now.configured = <<>> /\ Now.layout = <<>> /\ Now.told = <<>>
      /\ DOMAIN Now = Fields
  BY NowFields DEF Init
<1>2. Plugged(Now) = {} /\ DOMAIN Now.layout = {} /\ DOMAIN Now.configured = {}
  BY <1>1 DEF Plugged
<1>3. Typed(Now)
  BY <1>1, <1>2 DEF Typed, Plugged
<1>4. Reconciled(Now)
  BY <1>1, <1>2 DEF Reconciled, Placed, Lit
<1> QED
  BY <1>2, <1>3, <1>4 DEF IInv, Follows

LEMMA HeadsTyped ==
  ASSUME IInv, NEW o \in Plugged(Now), NEW h \in Heads(o)
  PROVE  h \in Settings
<1>1. configured[o] \in Settings /\ Configuration(Now)[o] = configured[o]
  BY NowFields, ConfigurationIsRecord DEF IInv, Typed, Plugged
<1>2. [configured[o] EXCEPT !.enabled = FALSE] \in Settings
  BY <1>1 DEF Settings
<1>3. ASSUME NEW m \in Modes, NEW x \in Positions
      PROVE  [enabled |-> TRUE, width |-> m.width, refresh |-> m.refresh, x |-> x]
               \in Settings
  BY ConfigurationAssumption DEF Settings
<1>4. \/ h = [configured[o] EXCEPT !.enabled = FALSE]
      \/ \E m \in Modes, x \in Positions :
           h = [enabled |-> TRUE, width |-> m.width, refresh |-> m.refresh, x |-> x]
  BY <1>1 DEF Heads
<1> QED
  BY <1>2, <1>3, <1>4

LEMMA RequestKeeps ==
  ASSUME IInv, NEW b \in BOOLEAN, Request(b)
  PROVE  IInv'
<1>1. PICK p \in UNION {[S -> UNION {Heads(o) : o \in S}] : S \in SUBSET Plugged(Now)} :
        /\ \A o \in DOMAIN p : p[o] \in Heads(o)
        /\ \E r \in Configure(Now, p, b) : Become(r.state)
  BY DEF Request
<1>2. DOMAIN p \subseteq Plugged(Now) /\ p = [o \in DOMAIN p |-> p[o]]
  OBVIOUS
<1>3. p \in [DOMAIN p -> Settings]
  BY <1>1, <1>2, HeadsTyped
<1> QED
  BY <1>1, <1>3, NowIsGood, ConfigureKeepsGood, BecomeGood

LEMMA RequestStateKeeps ==
  ASSUME IInv, NEW o \in Outputs, RequestState(o)
  PROVE  IInv'
<1>1. PICK e \in BOOLEAN, m \in Modes \cup {configured[o]} :
        \E r \in Configure(Now, [Configuration(Now) EXCEPT
                     ![o].enabled = e, ![o].width = m.width, ![o].refresh = m.refresh],
                   FALSE) : Become(r.state)
  BY DEF RequestState
<1> DEFINE p == [Configuration(Now) EXCEPT
                   ![o].enabled = e, ![o].width = m.width, ![o].refresh = m.refresh]
<1>2. /\ configured \in [Plugged(Now) -> Settings]
      /\ Configuration(Now) = configured /\ o \in Plugged(Now)
  BY NowFields, ConfigurationIsRecord DEF IInv, Typed, Plugged, RequestState
<1>3. m.width \in Nat /\ m.refresh \in Nat
  BY <1>2, ConfigurationAssumption DEF Settings
<1>4. p \in [DOMAIN p -> Settings]
  BY <1>2, <1>3 DEF Settings
<1> QED
  BY <1>1, <1>4, NowIsGood, ConfigureKeepsGood, BecomeGood

LEMMA SetDisplayEnabledKeeps ==
  ASSUME IInv, NEW e \in BOOLEAN, SetDisplayEnabled(e)
  PROVE  IInv'
<1> DEFINE s == [Now EXCEPT !.display_enabled = e]
<1>1. PICK r \in Configure(s, Configuration(Now), FALSE) :
        Become(IF r.result = "applied" THEN r.state
               ELSE [r.state EXCEPT !.display_enabled = display_enabled])
  BY DEF SetDisplayEnabled
<1>2. /\ DOMAIN s = Fields /\ s.hw = hw /\ s.configured = configured
      /\ s.layout = layout /\ s.told = told
  BY NowFields DEF Fields
<1>3. configured \in [DOMAIN configured -> Settings] /\ Configuration(Now) = configured
  BY NowFields, ConfigurationIsRecord DEF IInv, Typed
<1> HIDE DEF s
<1>4. Typed(s) /\ Reconciled(s)
  BY <1>2, NowFields DEF IInv, Typed, Reconciled, Placed, Lit, Plugged
<1>5. /\ Typed(r.state)
      /\ \/ r.state = s /\ r.result \in {"rejected", "tested"}
         \/ /\ r.result = "restored" /\ Reconciled(r.state)
            /\ r.state.hw = s.hw /\ r.state.configured = s.configured
         \/ r.result = "applied" /\ Good(r.state)
         \/ r.result = "recovered" /\ Reconciled(r.state) /\ Follows(r.state)
  BY <1>1, <1>3, <1>4, ConfigureWorks
<1> DEFINE t == [r.state EXCEPT !.display_enabled = display_enabled]
<1>6. /\ DOMAIN t = Fields /\ t.hw = r.state.hw /\ t.configured = r.state.configured
      /\ t.layout = r.state.layout /\ t.told = r.state.told
      /\ t.display_enabled = display_enabled
  BY <1>5 DEF Typed, Fields
<1> HIDE DEF t
<1>7. ASSUME r.result # "applied" PROVE Good(t)
  <2>1. Typed(t)
    BY <1>5, <1>6 DEF Typed
  <2>2. Reconciled(r.state)
    BY <1>4, <1>5, <1>7
  <2>3. Reconciled(t)
    BY <1>6, <2>2 DEF Reconciled, Placed, Lit, Plugged
  <2>4. display_enabled => Follows(t)
    <3>1. ASSUME display_enabled PROVE Follows(Now)
      BY <3>1 DEF IInv
    <3>2. \/ Follows(r.state)
          \/ r.state.hw = hw /\ r.state.configured = configured
      BY <1>2, <1>5, <1>7
    <3> QED
      BY <1>6, <3>1, <3>2, FollowsSame, NowFields
  <2> QED
    BY <1>6, <2>1, <2>3, <2>4 DEF Good
<1>8. CASE r.result = "applied"
  BY <1>1, <1>5, <1>8, BecomeGood
<1>9. CASE r.result # "applied"
  BY <1>1, <1>7, <1>9, BecomeGood DEF t
<1> QED
  BY <1>8, <1>9

FollowsAt(s, o) ==
  /\ s.hw[o].on = s.configured[o].enabled
  /\ s.hw[o].on => /\ s.hw[o].width = s.configured[o].width
                   /\ s.hw[o].refresh = s.configured[o].refresh

(* An output that is turned off, or stays on, is recorded as it is.         *)
LEMMA UnusableWorks ==
  ASSUME NEW s, Typed(s), NEW o \in Plugged(s), NEW t \in Unusable(s, o)
  PROVE  /\ Typed(t) /\ Reconciled(t) /\ t.display_enabled = s.display_enabled
         /\ (\A p \in Plugged(s) \ {o} : FollowsAt(s, p)) => Follows(t)
<1>1. PICK stays \in BOOLEAN :
        t \in Reconcile([[s EXCEPT !.hw[o].on = @ /\ stays] EXCEPT
                 !.configured[o] = CaptureOutput([s EXCEPT !.hw[o].on = @ /\ stays], o)])
  BY DEF Unusable
<1> DEFINE off == [s EXCEPT !.hw[o].on = @ /\ stays]
           light == [s.hw[o] EXCEPT !.on = @ /\ stays]
           rec == CaptureOutput(off, o)
           u == [off EXCEPT !.configured[o] = rec]
<1>2. s.hw[o] \in Hardware /\ o \in DOMAIN s.hw
  BY DEF Typed, Plugged
<1>3. light \in Hardware
  <2>1. (s.hw[o].on /\ stays) \in BOOLEAN
    OBVIOUS
  <2> QED
    BY <1>2, <2>1 DEF Hardware
<1>4. /\ DOMAIN off = Fields /\ off.hw = [s.hw EXCEPT ![o] = light]
      /\ off.configured = s.configured /\ off.layout = s.layout
      /\ off.display_enabled = s.display_enabled
  BY <1>2 DEF Typed, Fields
<1> HIDE DEF off, light
<1>5. Typed(off) /\ Plugged(off) = Plugged(s) /\ off.hw[o] = light
  BY <1>2, <1>3, <1>4 DEF Typed, Plugged
<1>6. /\ rec \in Settings /\ rec.enabled = light.on
      /\ rec.width = light.width /\ rec.refresh = light.refresh
  BY <1>5, CaptureTyped
<1> HIDE DEF rec
<1>7. /\ DOMAIN u = Fields /\ u.hw = off.hw /\ u.configured = [s.configured EXCEPT ![o] = rec]
      /\ u.layout = s.layout /\ u.display_enabled = s.display_enabled
  BY <1>4 DEF Fields
<1>8. t \in Reconcile(u)
  BY <1>1 DEF off, rec
<1> HIDE DEF u
<1>9. Typed(u)
  BY <1>4, <1>5, <1>6, <1>7 DEF Typed
<1>10. /\ Typed(t) /\ Reconciled(t) /\ t.hw = off.hw
       /\ t.configured = [s.configured EXCEPT ![o] = rec]
       /\ t.display_enabled = s.display_enabled
  BY <1>7, <1>8, <1>9, ReconcileWorks
<1>11. ASSUME \A p \in Plugged(s) \ {o} : FollowsAt(s, p)
       PROVE  Follows(t)
  <2> SUFFICES ASSUME NEW p \in Plugged(s)
               PROVE  FollowsAt(t, p)
    BY <1>5, <1>10 DEF Follows, FollowsAt, Plugged
  <2>1. p \in DOMAIN s.hw /\ p \in DOMAIN s.configured
    BY DEF Typed, Plugged
  <2>2. CASE p = o
    BY <1>4, <1>5, <1>6, <1>10, <2>1, <2>2 DEF FollowsAt
  <2>3. CASE p # o
    <3>1. t.hw[p] = s.hw[p] /\ t.configured[p] = s.configured[p]
      BY <1>4, <1>10, <2>1, <2>3
    <3> QED
      BY <1>11, <2>3, <3>1 DEF FollowsAt
  <2> QED
    BY <2>2, <2>3
<1> QED
  BY <1>10, <1>11

LEMMA WithOutputWorks ==
  ASSUME IInv, NEW o, o \notin Plugged(Now), NEW light \in Hardware,
         RightOf(Now) \in Int
  PROVE  /\ Typed(WithOutput(Now, o, light))
         /\ WithOutput(Now, o, light).display_enabled = display_enabled
         /\ o \in Plugged(WithOutput(Now, o, light))
         /\ display_enabled =>
              \A p \in Plugged(WithOutput(Now, o, light)) \ {o} :
                FollowsAt(WithOutput(Now, o, light), p)
<1> DEFINE plugged == [p \in Plugged(Now) \cup {o} |-> IF p = o THEN light ELSE Now.hw[p]]
           placed == IF light.on
                     THEN [p \in DOMAIN Now.layout \cup {o} |->
                             IF p = o THEN RightOf(Now) ELSE Now.layout[p]]
                     ELSE Now.layout
           lit == [Now EXCEPT !.outputs = Append(@, o), !.hw = plugged, !.layout = placed]
           rec == [p \in DOMAIN configured \cup {o} |->
                     IF p = o THEN CaptureOutput(lit, o) ELSE configured[p]]
           s == [lit EXCEPT !.configured = rec]
<1>1. /\ Typed(Now) /\ hw \in [Plugged(Now) -> Hardware]
      /\ configured \in [Plugged(Now) -> Settings] /\ layout \in [DOMAIN layout -> Int]
  BY NowFields DEF IInv, Typed, Plugged
<1>2. /\ DOMAIN lit = Fields /\ lit.hw = plugged /\ lit.layout = placed
      /\ lit.configured = configured /\ lit.display_enabled = display_enabled
  BY NowFields DEF Fields
<1>3. WithOutput(Now, o, light) = s
  BY NowFields, <1>2 DEF WithOutput
<1>4. plugged \in [Plugged(Now) \cup {o} -> Hardware] /\ plugged[o] = light
  BY <1>1, NowFields
<1>5. placed \in [DOMAIN placed -> Int]
  BY <1>1, NowFields
<1> HIDE DEF plugged, placed, lit
<1>6. CaptureOutput(lit, o) \in Settings
  <2>1. o \notin DOMAIN lit.configured
    BY <1>1, <1>2
  <2>2. (IF o \in DOMAIN lit.layout THEN lit.layout[o]
         ELSE IF o \in DOMAIN lit.configured THEN lit.configured[o].x ELSE 0) \in Int
    BY <1>2, <1>5, <2>1
  <2>3. lit.hw[o] = light
    BY <1>2, <1>4
  <2> QED
    BY <2>2, <2>3 DEF CaptureOutput, Settings, Hardware
<1>7. rec \in [Plugged(Now) \cup {o} -> Settings]
  BY <1>1, <1>6
<1>8. \A p \in Plugged(Now) \ {o} : rec[p] = configured[p] /\ plugged[p] = hw[p]
  BY <1>1, NowFields DEF plugged
<1> HIDE DEF rec
<1>9. /\ DOMAIN s = Fields /\ s.hw = plugged /\ s.layout = placed
      /\ s.configured = rec /\ s.display_enabled = display_enabled
  BY <1>2 DEF Fields
<1> HIDE DEF s
<1>10. Typed(s) /\ Plugged(s) = Plugged(Now) \cup {o}
  BY <1>4, <1>5, <1>7, <1>9 DEF Typed, Plugged
<1>11. ASSUME display_enabled, NEW p \in Plugged(s) \ {o}
       PROVE  FollowsAt(s, p)
  <2>1. p \in Plugged(Now) \ {o}
    BY <1>10
  <2>2. FollowsAt(Now, p)
    BY <1>11, <2>1 DEF IInv, Follows, FollowsAt
  <2>3. s.hw[p] = hw[p] /\ s.configured[p] = configured[p]
    BY <1>8, <1>9, <2>1
  <2> QED
    BY <2>2, <2>3, NowFields DEF FollowsAt
<1> QED
  BY <1>3, <1>9, <1>10, <1>11

LEMMA LightsTyped == Lights \subseteq Hardware
<1>1. ASSUME NEW m \in Modes
      PROVE  [on |-> TRUE, width |-> m.width, refresh |-> Rate(m.refresh)] \in Hardware
  BY ConfigurationAssumption DEF Rate, Hardware
<1>2. [on |-> FALSE, width |-> 0, refresh |-> 0] \in Hardware
  BY DEF Hardware
<1>3. \A l \in Lights : \/ l = [on |-> FALSE, width |-> 0, refresh |-> 0]
                        \/ \E m \in Modes : l = [on |-> TRUE, width |-> m.width,
                                                 refresh |-> Rate(m.refresh)]
  BY DEF Lights
<1> HIDE DEF Hardware
<1> QED
  BY <1>1, <1>2, <1>3

LEMMA PlugInKeeps ==
  ASSUME IInv, NEW o \in Outputs, PlugIn(o)
  PROVE  IInv'
<1>1. PICK light \in Lights :
        \E r \in Configure(WithOutput(Now, o, light),
                          Configuration(WithOutput(Now, o, light)), FALSE) :
          \E t \in IF r.result = "applied" THEN {r.state} ELSE Unusable(r.state, o) :
            Become(t)
  BY DEF PlugIn
<1> DEFINE s == WithOutput(Now, o, light)
<1>2. /\ Typed(s) /\ s.display_enabled = display_enabled /\ o \in Plugged(s)
      /\ display_enabled => \A p \in Plugged(s) \ {o} : FollowsAt(s, p)
  <2>1. RightOf(Now) \in Int /\ o \notin Plugged(Now) /\ light \in Hardware
    BY LightsTyped, ConfigurationAssumption DEF PlugIn
  <2> QED
    BY <2>1, WithOutputWorks
<1> HIDE DEF s
<1>3. PICK r \in Configure(s, Configuration(s), FALSE) :
        \E t \in IF r.result = "applied" THEN {r.state} ELSE Unusable(r.state, o) :
          Become(t)
  BY <1>1 DEF s
<1>4. /\ Configuration(s) = s.configured
      /\ Configuration(s) \in [DOMAIN Configuration(s) -> Settings]
  BY <1>2, ConfigurationIsRecord DEF Typed
<1>5. /\ Typed(r.state) /\ r.state.display_enabled = display_enabled
      /\ o \in Plugged(r.state) /\ Plugged(r.state) = Plugged(s)
      /\ \/ r.state.hw = s.hw /\ r.state.configured = s.configured
         \/ r.result = "applied" /\ Good(r.state)
         \/ r.result = "recovered" /\ Follows(r.state)
  <2>1. /\ Typed(r.state) /\ r.state.display_enabled = s.display_enabled
        /\ Plugged(r.state) = Plugged(s)
        /\ \/ r.state = s /\ r.result \in {"rejected", "tested"}
           \/ /\ r.result = "restored" /\ Reconciled(r.state)
              /\ r.state.hw = s.hw /\ r.state.configured = s.configured
           \/ r.result = "applied" /\ Good(r.state)
           \/ r.result = "recovered" /\ Reconciled(r.state) /\ Follows(r.state)
    <3> DEFINE p == Configuration(s)
    <3>1. p \in [DOMAIN p -> Settings]
      BY <1>4
    <3> HIDE DEF p
    <3>2. r \in Configure(s, p, FALSE)
      BY <1>3 DEF p
    <3> QED
      BY <1>2, <3>1, <3>2, ConfigureWorks
  <2> QED
    BY <1>2, <2>1
<1>6. CASE r.result = "applied"
  <2>1. Good(r.state)
    BY <1>2, <1>4, <1>6, ConfigureWorks
  <2> QED
    BY <1>3, <1>6, <2>1, BecomeGood
<1>7. CASE r.result # "applied"
  <2>1. PICK t \in Unusable(r.state, o) : Become(t)
    BY <1>3, <1>7
  <2>2. ASSUME display_enabled, NEW p \in Plugged(r.state) \ {o}
        PROVE  FollowsAt(r.state, p)
    <3>1. CASE Follows(r.state)
      BY <2>2, <3>1 DEF Follows, FollowsAt
    <3>2. CASE r.state.hw = s.hw /\ r.state.configured = s.configured
      BY <1>2, <1>5, <2>2, <3>2 DEF FollowsAt
    <3> QED
      BY <1>5, <1>7, <3>1, <3>2
  <2>3. /\ Typed(t) /\ Reconciled(t) /\ t.display_enabled = display_enabled
        /\ display_enabled => Follows(t)
    BY <1>5, <2>1, <2>2, UnusableWorks
  <2> QED
    BY <2>1, <2>3, BecomeGood DEF Good
<1> QED
  BY <1>6, <1>7

LEMMA UnplugKeeps ==
  ASSUME IInv, NEW o \in Outputs, Unplug(o)
  PROVE  IInv'
<1> DEFINE s == WithoutOutput(Now, o)
<1>1. PICK t \in Reconcile(s) : Become(t)
  BY DEF Unplug
<1>2. /\ DOMAIN s = Fields /\ s.hw = Forget(hw, o)
      /\ s.configured = Forget(configured, o) /\ s.layout = Forget(layout, o)
      /\ s.display_enabled = display_enabled
  BY NowFields DEF WithoutOutput, Fields
<1>3. /\ hw \in [Plugged(Now) -> Hardware] /\ configured \in [Plugged(Now) -> Settings]
      /\ layout \in [DOMAIN layout -> Int]
  BY NowFields DEF IInv, Typed, Plugged
<1> HIDE DEF s
<1>4. Typed(s) /\ Plugged(s) = Plugged(Now) \ {o}
  BY <1>2, <1>3 DEF Typed, Forget, Plugged
<1>5. \A p \in Plugged(s) : s.hw[p] = hw[p] /\ s.configured[p] = configured[p]
  BY <1>2, <1>3, <1>4 DEF Forget
<1>6. display_enabled => Follows(s)
  BY <1>4, <1>5, NowFields DEF IInv, Follows
<1>7. Good(t)
  BY <1>1, <1>2, <1>4, <1>6, ReconcileWorks, FollowsSame DEF Good
<1> QED
  BY <1>1, <1>7, BecomeGood

LEMMA StepKeeps == IInv /\ [Next]_vars => IInv'
<1> SUFFICES ASSUME IInv, [Next]_vars PROVE IInv'
  OBVIOUS
<1>1. CASE UNCHANGED vars
  BY <1>1 DEF IInv, vars, Now, Typed, Reconciled, Follows, Placed, Lit, Plugged
<1>2. CASE Next
  BY <1>2, RequestKeeps, RequestStateKeeps, SetDisplayEnabledKeeps, PlugInKeeps,
     UnplugKeeps DEF Next
<1> QED
  BY <1>1, <1>2

LEMMA Invariant == Spec => []IInv
<1> QED
  BY InitIInv, StepKeeps, PTL DEF Spec

(* Whatever is asked, plugged and fails: a desktop that is on runs what is  *)
(* recorded for each output (configure, reconcile).                         *)
THEOREM HardwareRunsTheRecord == Spec => []HardwareFollowsRecord
<1>1. IInv => HardwareFollowsRecord
  <2> SUFFICES ASSUME IInv, display_enabled, NEW o \in Plugged(Now)
               PROVE  /\ hw[o].on = configured[o].enabled
                      /\ hw[o].on => hw[o] = [on |-> TRUE, width |-> configured[o].width,
                                              refresh |-> configured[o].refresh]
    BY DEF HardwareFollowsRecord
  <2>1. /\ hw[o].on = configured[o].enabled
        /\ hw[o].on => /\ hw[o].width = configured[o].width
                       /\ hw[o].refresh = configured[o].refresh
    BY NowFields DEF IInv, Follows
  <2>2. hw[o] \in Hardware
    BY NowFields DEF IInv, Typed, Plugged
  <2>3. ASSUME hw[o].on
        PROVE  hw[o] = [on |-> TRUE, width |-> configured[o].width,
                        refresh |-> configured[o].refresh]
    <3>1. hw[o].on = TRUE
      BY <2>2, <2>3 DEF Hardware
    <3> QED
      BY <2>1, <2>2, <3>1 DEF Hardware
  <2> QED
    BY <2>1, <2>3
<1> QED
  BY <1>1, Invariant, PTL

(* The layout is rebuilt after every change, also after one that failed:    *)
(* lit outputs are in it, at the recorded place (reconcile).                *)
THEOREM LayoutHoldsTheLit == Spec => []LayoutFollowsHardware
<1>1. IInv => LayoutFollowsHardware
  BY NowFields DEF IInv, Typed, Reconciled, Placed, Lit, Plugged, LayoutFollowsHardware
<1> QED
  BY <1>1, Invariant, PTL

(* Clients were told the record last, and a rate of every output that runs  *)
(* (reconcile, configure).                                                  *)
THEOREM ClientsSeeTheRecord == Spec => []AdvertisedIsRecord
<1>1. IInv => AdvertisedIsRecord
  <2> SUFFICES ASSUME IInv PROVE AdvertisedIsRecord
    OBVIOUS
  <2>1. told = configured
    BY NowFields DEF IInv, Reconciled
  <2>2. ASSUME display_enabled, NEW o \in Enabled(told) PROVE told[o].refresh # 0
    <3>1. o \in Plugged(Now) /\ hw[o] \in Hardware
      BY <2>1, NowFields DEF IInv, Typed, Plugged, Enabled
    <3>2. hw[o].on = configured[o].enabled /\ configured[o].enabled
          /\ (hw[o].on => hw[o].refresh = configured[o].refresh)
      BY <2>1, <2>2, <3>1, NowFields DEF IInv, Follows, Enabled
    <3> QED
      BY <2>1, <3>1, <3>2 DEF Hardware
  <2> QED
    BY <2>1, <2>2 DEF AdvertisedIsRecord
<1> QED
  BY <1>1, Invariant, PTL

----------------------------------------------------------------------------
(* The settings a user may count on.                                        *)

KeptAt(c, a) ==
  /\ c.enabled = a.enabled /\ c.width = a.width /\ c.x = a.x
  /\ a.refresh # 0 => c.refresh = a.refresh
Kept(c, a) == \A o \in DOMAIN c : KeptAt(c[o], a[o])

KInv == accepted \in [Plugged(Now) -> Settings] /\ Kept(configured, accepted)

(* Recording a proposal fills in the rates it left open, nothing else.      *)
LEMMA RecordedKeeps ==
  ASSUME NEW s, Typed(s), NEW p \in Proposal(s), NEW a \in Proposal(s), Kept(p, a)
  PROVE  Kept(Recorded(s, p, Desired(s, p)), a)
<1> DEFINE lit == Desired(s, p)
<1> SUFFICES ASSUME NEW o \in Plugged(s)
             PROVE  KeptAt(Recorded(s, p, lit)[o], a[o])
  BY DEF Recorded, Proposal, Kept
<1>1. p[o] \in Settings /\ a[o] \in Settings /\ o \in DOMAIN p /\ KeptAt(p[o], a[o])
  BY DEF Proposal, Kept
<1>2. CASE s.display_enabled /\ p[o].enabled
  <2>1. lit[o].refresh = Rate(p[o].refresh)
    BY <1>2 DEF Desired
  <2>2. Recorded(s, p, lit)[o] = [p[o] EXCEPT !.refresh = Rate(p[o].refresh)]
    BY <1>1, <1>2, <2>1 DEF Recorded
  <2>3. p[o].refresh # 0 => Rate(p[o].refresh) = p[o].refresh
    BY DEF Rate
  <2> HIDE DEF lit
  <2> QED
    BY <1>1, <2>2, <2>3 DEF KeptAt, Settings
<1>3. CASE ~ (s.display_enabled /\ p[o].enabled)
  BY <1>1, <1>3 DEF Recorded
<1> QED
  BY <1>2, <1>3

(* Of the ways configure ends, applied has accepted the proposal and        *)
(* recovered what it found; the others leave the record alone.              *)
LEMMA ConfigureKeepsSettings ==
  ASSUME NEW s, Typed(s), NEW p, p \in [DOMAIN p -> Settings],
         NEW b, NEW r \in Configure(s, p, b),
         NEW a \in [Plugged(s) -> Settings], Kept(s.configured, a)
  PROVE  /\ r.state.configured \in [Plugged(s) -> Settings]
         /\ Plugged(r.state) = Plugged(s)
         /\ r.result = "applied" => p \in [Plugged(s) -> Settings]
                                    /\ Kept(r.state.configured, p)
                                    /\ (p = s.configured => Kept(r.state.configured, a))
         /\ r.result \notin {"applied", "recovered"} => r.state.configured = s.configured
<1>1. /\ Typed(r.state) /\ Plugged(r.state) = Plugged(s)
      /\ \/ r.state = s /\ r.result \in {"rejected", "tested"}
         \/ r.result = "restored" /\ r.state.configured = s.configured
         \/ /\ r.result = "applied" /\ DOMAIN p = Plugged(s)
            /\ r.state.configured = Recorded(s, p, Desired(s, p))
         \/ r.result = "recovered"
  BY ConfigureWorks
<1>2. r.state.configured \in [Plugged(s) -> Settings]
  BY <1>1 DEF Typed, Plugged
<1>3. ASSUME r.result = "applied"
      PROVE  p \in [Plugged(s) -> Settings] /\ Kept(r.state.configured, p)
             /\ (p = s.configured => Kept(r.state.configured, a))
  <2>1. p \in Proposal(s) /\ a \in Proposal(s)
        /\ r.state.configured = Recorded(s, p, Desired(s, p))
    BY <1>1, <1>3 DEF Proposal
  <2>2. Kept(p, p)
    BY DEF Kept, KeptAt
  <2> QED
    BY <2>1, <2>2, RecordedKeeps DEF Proposal
<1> QED
  BY <1>1, <1>2, <1>3

LEMMA BecomeFields ==
  ASSUME NEW t, Become(t)
  PROVE  /\ Plugged(Now)' = Plugged(t) /\ configured' = t.configured
BY NowFields DEF Become, Plugged, Now

LEMMA KeptSelf == ASSUME NEW c PROVE Kept(c, c)
BY DEF Kept, KeptAt

LEMMA NowSettings ==
  ASSUME IInv
  PROVE  /\ Typed(Now) /\ configured \in [Plugged(Now) -> Settings]
         /\ Configuration(Now) = configured
         /\ configured \in [DOMAIN configured -> Settings]
BY NowFields, ConfigurationIsRecord DEF IInv, Typed, Plugged

(* The request of a client, and that of the backend.                        *)
LEMMA ProposalKeepsSettings ==
  ASSUME IInv, KInv, NEW p, p \in [DOMAIN p -> Settings],
         NEW b, NEW r \in Configure(Now, p, b), Become(r.state),
         accepted' = AcceptedAfter(r, p)
  PROVE  KInv'
<1>1. /\ r.state.configured \in [Plugged(Now) -> Settings]
      /\ Plugged(r.state) = Plugged(Now)
      /\ r.result = "applied" => p \in [Plugged(Now) -> Settings]
                                 /\ Kept(r.state.configured, p)
      /\ r.result \notin {"applied", "recovered"} => r.state.configured = configured
  BY NowSettings, NowFields, ConfigureKeepsSettings DEF KInv
<1>2. accepted' \in [Plugged(Now) -> Settings] /\ Kept(r.state.configured, accepted')
  BY <1>1, KeptSelf DEF KInv, AcceptedAfter
<1> QED
  BY <1>1, <1>2, BecomeFields DEF KInv

LEMMA RequestKeepsSettings ==
  ASSUME IInv, KInv, NEW b \in BOOLEAN, Request(b)
  PROVE  KInv'
<1>1. PICK p \in UNION {[S -> UNION {Heads(o) : o \in S}] : S \in SUBSET Plugged(Now)} :
        /\ \A o \in DOMAIN p : p[o] \in Heads(o)
        /\ \E r \in Configure(Now, p, b) : Become(r.state) /\ accepted' = AcceptedAfter(r, p)
  BY DEF Request
<1>2. DOMAIN p \subseteq Plugged(Now) /\ p = [o \in DOMAIN p |-> p[o]]
  OBVIOUS
<1>3. p \in [DOMAIN p -> Settings]
  BY <1>1, <1>2, HeadsTyped
<1> QED
  BY <1>1, <1>3, ProposalKeepsSettings

LEMMA RequestStateKeepsSettings ==
  ASSUME IInv, KInv, NEW o \in Outputs, RequestState(o)
  PROVE  KInv'
<1> DEFINE q(e, m) == [Configuration(Now) EXCEPT
                         ![o].enabled = e, ![o].width = m.width, ![o].refresh = m.refresh]
<1>1. PICK e \in BOOLEAN, m \in Modes \cup {configured[o]} :
        \E r \in Configure(Now, q(e, m), FALSE) :
          Become(r.state) /\ accepted' = AcceptedAfter(r, q(e, m))
  BY DEF RequestState
<1>2. m.width \in Nat /\ m.refresh \in Nat /\ o \in Plugged(Now)
  BY NowSettings, ConfigurationAssumption DEF Settings, RequestState
<1>3. q(e, m) \in [DOMAIN q(e, m) -> Settings]
  BY <1>2, NowSettings DEF Settings
<1> HIDE DEF q
<1> QED
  BY <1>1, <1>3, ProposalKeepsSettings

LEMMA SetDisplayEnabledKeepsSettings ==
  ASSUME IInv, KInv, NEW e \in BOOLEAN, SetDisplayEnabled(e)
  PROVE  KInv'
<1> DEFINE s == [Now EXCEPT !.display_enabled = e]
<1>1. PICK r \in Configure(s, Configuration(Now), FALSE) :
        /\ Become(IF r.result = "applied" THEN r.state
                  ELSE [r.state EXCEPT !.display_enabled = display_enabled])
        /\ accepted' = IF r.result = "recovered" THEN r.state.configured ELSE accepted
  BY DEF SetDisplayEnabled
<1>2. /\ DOMAIN s = Fields /\ s.hw = hw /\ s.configured = configured /\ s.layout = layout
  BY NowFields DEF Fields
<1> HIDE DEF s
<1>3. Typed(s) /\ Plugged(s) = Plugged(Now)
  BY <1>2, NowFields DEF IInv, Typed, Plugged
<1>4. /\ r.state.configured \in [Plugged(Now) -> Settings]
      /\ Plugged(r.state) = Plugged(Now)
      /\ r.result = "applied" => Kept(r.state.configured, accepted)
      /\ r.result \notin {"applied", "recovered"} => r.state.configured = configured
  <2>1. /\ r \in Configure(s, s.configured, FALSE)
        /\ s.configured \in [DOMAIN s.configured -> Settings]
    BY <1>1, <1>2, NowSettings
  <2>2. accepted \in [Plugged(s) -> Settings] /\ Kept(s.configured, accepted)
    BY <1>2, <1>3 DEF KInv
  <2>3. /\ r.state.configured \in [Plugged(s) -> Settings]
        /\ Plugged(r.state) = Plugged(s)
        /\ r.result = "applied" => Kept(r.state.configured, accepted)
        /\ r.result \notin {"applied", "recovered"} => r.state.configured = s.configured
    <3>1. PICK b : r \in Configure(s, s.configured, b)
      BY <2>1
    <3>2. Typed(s)
      BY <1>3
    <3> QED
      BY <2>1, <2>2, <3>1, <3>2, ConfigureKeepsSettings
  <2> QED
    BY <1>2, <1>3, <2>3
<1>5. DOMAIN r.state = Fields
  <2>1. Typed(r.state)
    BY <1>1, <1>3, NowSettings, ConfigureWorks
  <2> QED
    BY <2>1 DEF Typed
<1>6. Plugged(Now)' = Plugged(r.state) /\ configured' = r.state.configured
  <2> DEFINE t == [r.state EXCEPT !.display_enabled = display_enabled]
  <2>1. t.hw = r.state.hw /\ t.configured = r.state.configured
    BY <1>5 DEF Fields
  <2> HIDE DEF t
  <2> QED
    BY <1>1, <2>1, BecomeFields DEF Plugged, t
<1> QED
  BY <1>1, <1>4, <1>6, KeptSelf DEF KInv

(* What is plugged in is recorded as it came up.                            *)
LEMMA UnusableRecord ==
  ASSUME NEW s, Typed(s), NEW o \in Plugged(s), NEW t \in Unusable(s, o)
  PROVE  /\ t.configured \in [Plugged(s) -> Settings] /\ Plugged(t) = Plugged(s)
         /\ \A p \in Plugged(s) \ {o} : t.configured[p] = s.configured[p]
<1> DEFINE off(b) == [s EXCEPT !.hw[o].on = @ /\ b]
           u(b) == [off(b) EXCEPT !.configured[o] = CaptureOutput(off(b), o)]
<1>1. PICK b \in BOOLEAN : t \in Reconcile(u(b))
  BY DEF Unusable
<1>2. s.hw[o] \in Hardware /\ s.hw \in [Plugged(s) -> Hardware] /\ DOMAIN s = Fields
      /\ s.configured \in [Plugged(s) -> Settings]
  BY DEF Typed, Plugged
<1> DEFINE light == [s.hw[o] EXCEPT !.on = @ /\ b]
<1>3. light \in Hardware
  <2>1. (s.hw[o].on /\ b) \in BOOLEAN
    OBVIOUS
  <2> QED
    BY <1>2, <2>1 DEF Hardware
<1>4. /\ DOMAIN off(b) = Fields /\ off(b).hw = [s.hw EXCEPT ![o] = light]
      /\ off(b).configured = s.configured /\ off(b).layout = s.layout
  BY <1>2 DEF Fields
<1> HIDE DEF off, light
<1>5. Typed(off(b)) /\ Plugged(off(b)) = Plugged(s)
  BY <1>2, <1>3, <1>4 DEF Typed, Plugged
<1> DEFINE rec == CaptureOutput(off(b), o)
<1>6. rec \in Settings
  BY <1>5, CaptureTyped
<1> HIDE DEF rec
<1>7. /\ DOMAIN u(b) = Fields /\ u(b).hw = off(b).hw
      /\ u(b).configured = [s.configured EXCEPT ![o] = rec]
      /\ u(b).layout = s.layout
  BY <1>4 DEF Fields, rec
<1> HIDE DEF u
<1>8. Typed(u(b))
  BY <1>2, <1>4, <1>5, <1>6, <1>7 DEF Typed, Plugged
<1>9. t.configured = [s.configured EXCEPT ![o] = rec] /\ t.hw = off(b).hw
  BY <1>1, <1>7, <1>8, ReconcileWorks
<1> QED
  BY <1>2, <1>5, <1>6, <1>9 DEF Plugged

LEMMA PlugInKeepsSettings ==
  ASSUME IInv, KInv, NEW o \in Outputs, PlugIn(o)
  PROVE  KInv'
<1>1. PICK light \in Lights :
        \E r \in Configure(WithOutput(Now, o, light),
                          Configuration(WithOutput(Now, o, light)), FALSE) :
          \E t \in IF r.result = "applied" THEN {r.state} ELSE Unusable(r.state, o) :
            /\ Become(t)
            /\ accepted' = IF r.result = "recovered" THEN t.configured
                           ELSE [p \in Plugged(t) |-> IF p = o THEN t.configured[o]
                                                      ELSE accepted[p]]
  BY DEF PlugIn
<1> DEFINE s == WithOutput(Now, o, light)
<1>2. o \notin Plugged(Now) /\ RightOf(Now) \in Int /\ light \in Hardware
  BY LightsTyped, ConfigurationAssumption DEF PlugIn
<1>3. /\ Typed(s) /\ Plugged(s) = Plugged(Now) \cup {o}
      /\ \A p \in Plugged(Now) : s.configured[p] = configured[p]
  <2>1. /\ s.hw = [p \in Plugged(Now) \cup {o} |-> IF p = o THEN light ELSE hw[p]]
        /\ \E c : s.configured = [p \in DOMAIN configured \cup {o} |->
                                   IF p = o THEN c ELSE configured[p]]
    BY NowFields DEF WithOutput, Fields
  <2> HIDE DEF s
  <2> QED
    BY <1>2, <2>1, NowSettings, WithOutputWorks DEF s, Plugged
<1> HIDE DEF s
<1>4. PICK r \in Configure(s, s.configured, FALSE) :
        \E t \in IF r.result = "applied" THEN {r.state} ELSE Unusable(r.state, o) :
          /\ Become(t)
          /\ accepted' = IF r.result = "recovered" THEN t.configured
                         ELSE [p \in Plugged(t) |-> IF p = o THEN t.configured[o]
                                                    ELSE accepted[p]]
  BY <1>1, <1>3, ConfigurationIsRecord DEF s
<1>5. PICK t \in IF r.result = "applied" THEN {r.state} ELSE Unusable(r.state, o) :
        /\ Become(t)
        /\ accepted' = IF r.result = "recovered" THEN t.configured
                       ELSE [p \in Plugged(t) |-> IF p = o THEN t.configured[o]
                                                  ELSE accepted[p]]
  BY <1>4
<1> DEFINE a == [p \in Plugged(s) |-> IF p = o THEN s.configured[o] ELSE accepted[p]]
<1>6. /\ s.configured \in [Plugged(s) -> Settings] /\ a \in [Plugged(s) -> Settings]
      /\ Kept(s.configured, a) /\ o \in Plugged(s)
      /\ s.configured \in [DOMAIN s.configured -> Settings]
  <2>1. s.configured \in [Plugged(s) -> Settings]
    BY <1>3 DEF Typed, Plugged
  <2>2. \A p \in Plugged(s) : KeptAt(s.configured[p], a[p])
    BY <1>2, <1>3, NowSettings DEF KInv, Kept, KeptAt
  <2> QED
    BY <1>2, <1>3, <2>1, <2>2 DEF KInv, Kept
<1>7. /\ r.state.configured \in [Plugged(s) -> Settings]
      /\ Plugged(r.state) = Plugged(s) /\ Typed(r.state)
      /\ r.result = "applied" => Kept(r.state.configured, a)
      /\ r.result \notin {"applied", "recovered"} => r.state.configured = s.configured
  BY <1>3, <1>4, <1>6, ConfigureKeepsSettings, ConfigureWorks
<1>8. /\ Plugged(t) = Plugged(s) /\ t.configured \in [Plugged(s) -> Settings]
      /\ r.result # "recovered" => \A p \in Plugged(s) \ {o} : KeptAt(t.configured[p], a[p])
  <2>1. CASE r.result = "applied"
    BY <1>5, <1>7, <2>1 DEF Kept
  <2>2. CASE r.result # "applied"
    <3>1. t \in Unusable(r.state, o)
      BY <1>5, <2>2
    <3>2. /\ Plugged(t) = Plugged(s) /\ t.configured \in [Plugged(s) -> Settings]
          /\ \A p \in Plugged(s) \ {o} : t.configured[p] = r.state.configured[p]
      BY <1>6, <1>7, <3>1, UnusableRecord
    <3> QED
      BY <1>6, <1>7, <2>2, <3>2 DEF Kept
  <2> QED
    BY <2>1, <2>2
<1>9. Plugged(Now)' = Plugged(s) /\ configured' = t.configured
  BY <1>5, <1>8, BecomeFields
<1>10. CASE r.result = "recovered"
  BY <1>5, <1>8, <1>9, <1>10, KeptSelf DEF KInv
<1>11. CASE r.result # "recovered"
  <2>1. accepted' = [p \in Plugged(s) |-> IF p = o THEN t.configured[o] ELSE accepted[p]]
    BY <1>5, <1>8, <1>11
  <2>2. accepted' \in [Plugged(s) -> Settings]
    BY <1>3, <1>8, <2>1 DEF KInv
  <2>3. \A p \in Plugged(s) : KeptAt(t.configured[p], accepted'[p])
    BY <1>8, <1>11, <2>1 DEF KeptAt
  <2> QED
    BY <1>8, <1>9, <2>2, <2>3 DEF KInv, Kept
<1> QED
  BY <1>10, <1>11

LEMMA UnplugKeepsSettings ==
  ASSUME IInv, KInv, NEW o \in Outputs, Unplug(o)
  PROVE  KInv'
<1> DEFINE s == WithoutOutput(Now, o)
<1>1. PICK t \in Reconcile(s) : Become(t) /\ accepted' = Forget(accepted, o)
  BY DEF Unplug
<1>2. /\ DOMAIN s = Fields /\ s.hw = Forget(hw, o)
      /\ s.configured = Forget(configured, o) /\ s.layout = Forget(layout, o)
  BY NowFields DEF WithoutOutput, Fields
<1> HIDE DEF s
<1>3. Typed(s) /\ Plugged(s) = Plugged(Now) \ {o}
  BY <1>2, NowFields DEF IInv, Typed, Forget, Plugged
<1>4. t.configured = s.configured /\ Plugged(t) = Plugged(s)
  BY <1>1, <1>3, ReconcileWorks DEF Plugged
<1> QED
  BY <1>1, <1>2, <1>3, <1>4, BecomeFields, NowSettings DEF KInv, Kept, Forget

(* What was accepted for an output stays recorded, except for a rate left   *)
(* to the backend, through blanking, hotplug and failed changes (configure, *)
(* output_create_handle).                                                   *)
THEOREM AcceptedSettingsAreKept == Spec => []SettingsAreKept
<1>1. Init => KInv
  BY NowFields DEF Init, KInv, Kept, Plugged
<1>2. IInv /\ KInv /\ [Next]_vars => KInv'
  <2> SUFFICES ASSUME IInv, KInv, [Next]_vars PROVE KInv'
    OBVIOUS
  <2>1. CASE UNCHANGED vars
    BY <2>1 DEF KInv, vars, Now, Plugged
  <2>2. CASE Next
    BY <2>2, RequestKeepsSettings, RequestStateKeepsSettings,
       SetDisplayEnabledKeepsSettings, PlugInKeepsSettings, UnplugKeepsSettings DEF Next
  <2> QED
    BY <2>1, <2>2
<1>3. IInv /\ KInv => SettingsAreKept
  <2> SUFFICES ASSUME IInv, KInv, NEW o \in Plugged(Now)
               PROVE  configured[o] = [accepted[o] EXCEPT
                        !.refresh = IF @ = 0 THEN configured[o].refresh ELSE @]
    BY DEF SettingsAreKept
  <2>1. /\ configured[o] \in Settings /\ accepted[o] \in Settings
        /\ KeptAt(configured[o], accepted[o])
    BY NowSettings DEF KInv, Kept
  <2> QED
    BY <2>1 DEF KeptAt, Settings
<1> QED
  BY <1>1, <1>2, <1>3, Invariant, PTL DEF Spec

----------------------------------------------------------------------------
(* The framebuffer.                                                         *)

(* The outputs in use are the ones plugged in, each once.                   *)
Plugs(s) ==
  /\ s.outputs \in Seq(Outputs) /\ Plugged(s) = {s.outputs[i] : i \in DOMAIN s.outputs}
  /\ \A i, j \in DOMAIN s.outputs : s.outputs[i] = s.outputs[j] => i = j

(* Between two changes no target is prepared, and the width of the one in   *)
(* use is known.                                                            *)
Spare(s) ==
  /\ DOMAIN s.composition = {"format", "width", "mapping"}
  /\ s.prepared = NoTarget
  /\ s.target # NoTarget => s.composition.width = s.target

Wanted(s) ==
  [format |-> RenderOutput(s), width |-> Extent(Boxes(s)), mapping |-> Mapping(s)]

Covered(s) ==
  /\ Spare(s)
  /\ s.target # NoTarget => /\ RenderOutput(s) # NoOutput
                            /\ s.target = Extent(Boxes(s)) /\ s.composition = Wanted(s)

(* What ensure_composition_target may be given: a target that was prepared  *)
(* has the width of the desktop, and its mapping is not the one in use.     *)
Ready(s) ==
  /\ DOMAIN s.composition = {"format", "width", "mapping"}
  /\ s.target # NoTarget => s.composition.width = s.target
  /\ s.prepared = NoTarget
     \/ (Lit(s) # {} => /\ s.prepared = Extent(Boxes(s))
                        /\ s.composition.mapping # Mapping(s))

LEMMA SpareIsReady == ASSUME NEW s, Spare(s) PROVE Ready(s)
BY DEF Spare, Ready

LEMMA RenderIsLit ==
  ASSUME NEW s, RenderOutput(s) # NoOutput
  PROVE  Lit(s) # {}
BY DEF RenderOutput, FirstOf

(* The framebuffer that is wanted depends on the outputs alone.             *)
LEMMA SameView ==
  ASSUME NEW s, NEW t, t.outputs = s.outputs, t.hw = s.hw, t.layout = s.layout,
         t.primary = s.primary
  PROVE  /\ Lit(t) = Lit(s) /\ Boxes(t) = Boxes(s) /\ Mapping(t) = Mapping(s)
         /\ RenderOutput(t) = RenderOutput(s) /\ Wanted(t) = Wanted(s)
<1>1. Lit(t) = Lit(s)
  BY DEF Lit, Plugged
<1>2. Boxes(t) = Boxes(s)
  BY DEF Boxes, Box
<1>3. Mapping(t) = Mapping(s)
  BY DEF Mapping, Box
<1>4. \A S : FirstOf(t, S) = FirstOf(s, S)
  BY DEF FirstOf
<1>5. RenderOutput(t) = RenderOutput(s)
  BY <1>1, <1>4 DEF RenderOutput
<1> QED
  BY <1>1, <1>2, <1>3, <1>5 DEF Wanted

LEMMA EnsureCovers ==
  ASSUME NEW s, DOMAIN s = Fields, Ready(s), NEW t \in EnsureCompositionTarget(s)
  PROVE  /\ Covered(t) /\ t.outputs = s.outputs /\ t.primary = s.primary
<1> DEFINE Install(chain) == [s EXCEPT !.target = chain, !.prepared = NoTarget,
                                       !.composition = Wanted(s), !.replaced = TRUE]
<1>1. \/ RenderOutput(s) = NoOutput /\ t = ClearCompositionTarget(s)
      \/ /\ RenderOutput(s) # NoOutput
         /\ \/ t = s /\ s.target # NoTarget /\ s.composition = Wanted(s)
            \/ s.prepared # NoTarget /\ t = Install(s.prepared)
            \/ t = Install(Extent(Boxes(s)))
            \/ t = ClearCompositionTarget(s)
  BY DEF EnsureCompositionTarget, Wanted
<1>2. CASE t = ClearCompositionTarget(s)
  BY <1>2 DEF ClearCompositionTarget, Fields, Covered, Spare, NoComposition
<1>3. CASE RenderOutput(s) # NoOutput /\ t = s /\ s.target # NoTarget
           /\ s.composition = Wanted(s)
  <2>1. s.composition.mapping = Mapping(s) /\ s.composition.width = Extent(Boxes(s))
    BY <1>3 DEF Wanted
  <2>2. s.prepared = NoTarget
    BY <1>3, <2>1, RenderIsLit DEF Ready
  <2> QED
    BY <1>3, <2>1, <2>2 DEF Ready, Covered, Spare
<1>4. ASSUME NEW chain, chain = Extent(Boxes(s)), t = Install(chain),
             RenderOutput(s) # NoOutput
      PROVE  /\ Covered(t) /\ t.outputs = s.outputs /\ t.primary = s.primary
  <2>1. /\ t.target = chain /\ t.prepared = NoTarget /\ t.composition = Wanted(s)
        /\ t.outputs = s.outputs /\ t.primary = s.primary /\ t.hw = s.hw
        /\ t.layout = s.layout
    BY <1>4 DEF Fields
  <2>2. Wanted(t) = Wanted(s) /\ RenderOutput(t) = RenderOutput(s) /\ Boxes(t) = Boxes(s)
    BY <2>1, SameView
  <2>3. DOMAIN Wanted(s) = {"format", "width", "mapping"} /\ Wanted(s).width = chain
    BY <1>4 DEF Wanted
  <2> QED
    BY <1>4, <2>1, <2>2, <2>3 DEF Covered, Spare
<1>5. s.prepared # NoTarget /\ RenderOutput(s) # NoOutput => s.prepared = Extent(Boxes(s))
  BY RenderIsLit DEF Ready
<1> HIDE DEF Install
<1> QED
  BY <1>1, <1>2, <1>3, <1>4, <1>5

(* A framebuffer that is right already stays.                               *)
LEMMA EnsureKeepsCovered ==
  ASSUME NEW s, s.target # NoTarget, RenderOutput(s) # NoOutput, s.composition = Wanted(s)
  PROVE  EnsureCompositionTarget(s) = {s}
BY DEF EnsureCompositionTarget, Wanted

(* The boxes of the desktop once it has been placed.                        *)
PlacedBoxes(s) == {[x |-> s.configured[o].x, width |-> s.hw[o].width] : o \in Lit(s)}

LEMMA ReconcileCovers ==
  ASSUME NEW s, Typed(s), Plugs(s), NEW t \in Reconcile(s),
         DOMAIN s.composition = {"format", "width", "mapping"},
         s.target # NoTarget => s.composition.width = s.target,
         \/ s.prepared = NoTarget
         \/ /\ s.composition.mapping = <<>>
            /\ Lit(s) # {} => s.prepared = Extent(PlacedBoxes(s))
  PROVE  Plugs(t) /\ Covered(t) /\ t.primary = NextPrimary(t)
<1> DEFINE u == [s EXCEPT !.primary = NextPrimary(s), !.layout = Placed(s),
                          !.told = Configuration(s)]
<1>1. /\ DOMAIN u = Fields /\ u.outputs = s.outputs /\ u.hw = s.hw
      /\ u.layout = Placed(s) /\ u.primary = NextPrimary(s)
      /\ u.prepared = s.prepared /\ u.target = s.target /\ u.composition = s.composition
  BY DEF Typed, Fields
<1>2. t \in EnsureCompositionTarget(u)
  BY DEF Reconcile
<1> HIDE DEF u
<1>3. Lit(u) = Lit(s) /\ Boxes(u) = PlacedBoxes(s)
  <2>1. DOMAIN Placed(s) = Lit(s)
    BY DEF Placed, Typed, Lit, Plugged
  <2>2. Lit(u) = Lit(s)
    BY <1>1 DEF Lit, Plugged
  <2>3. \A o \in Lit(s) : Box(u, o) = [x |-> s.configured[o].x, width |-> s.hw[o].width]
    BY <1>1, <2>1 DEF Box, Placed
  <2> QED
    BY <1>1, <2>1, <2>2, <2>3 DEF Boxes, PlacedBoxes
<1>4. Lit(s) # {} => Mapping(u) # <<>>
  <2>1. Lit(s) # {} => s.outputs # <<>>
    BY DEF Plugs, Lit
  <2>2. DOMAIN Mapping(u) = DOMAIN s.outputs
    BY <1>1 DEF Mapping
  <2>3. s.outputs # <<>> => DOMAIN s.outputs # {}
    BY EmptySeq DEF Plugs
  <2> QED
    BY <2>1, <2>2, <2>3
<1>5. Ready(u)
  BY <1>1, <1>3, <1>4 DEF Ready
<1>6. Covered(t) /\ t.outputs = s.outputs /\ t.primary = NextPrimary(s)
  BY <1>1, <1>2, <1>5, EnsureCovers
<1>7. t.hw = s.hw /\ t.configured = s.configured
  BY ReconcileWorks
<1>8. Plugs(t)
  BY <1>6, <1>7 DEF Plugs, Plugged
<1>9. NextPrimary(t) = t.primary
  <2>1. \A S : FirstOf(t, S) = FirstOf(s, S)
    BY <1>6 DEF FirstOf
  <2> QED
    BY <1>6, <1>7, <2>1 DEF NextPrimary
<1> QED
  BY <1>6, <1>8, <1>9

(* The framebuffer that was prepared for a proposal is as wide as the       *)
(* desktop the proposal lights.                                             *)
LEMMA AppliedCovers ==
  ASSUME NEW s, Typed(s), Plugs(s), Spare(s), NEW p \in Proposal(s),
         NEW t \in Applied(s, p)
  PROVE  Plugs(t) /\ Covered(t) /\ t.primary = NextPrimary(t)
<1> DEFINE lit == Desired(s, p)
           rec == Recorded(s, p, lit)
           u == [s EXCEPT !.hw = lit, !.configured = rec,
                          !.prepared = ProposedExtent(p), !.composition.mapping = <<>>]
<1>1. lit \in [Plugged(s) -> Hardware]
  BY DesiredTyped
<1>2. rec \in [Plugged(s) -> Settings]
  <2> SUFFICES ASSUME NEW o \in Plugged(s)
               PROVE  rec[o] \in Settings
    BY DEF Recorded, Proposal
  <2>1. p[o] \in Settings /\ lit[o] \in Hardware
    BY <1>1 DEF Proposal
  <2>2. [p[o] EXCEPT !.refresh = lit[o].refresh] \in Settings
    BY <2>1 DEF Settings, Hardware
  <2> QED
    BY <2>1, <2>2 DEF Recorded, Proposal
<1>3. t \in Reconcile(u)
  BY DEF Applied
<1>4. \A o \in Plugged(s) : lit[o].on => s.display_enabled /\ p[o].enabled
  <2> SUFFICES ASSUME NEW o \in Plugged(s), ~ (s.display_enabled /\ p[o].enabled)
               PROVE  lit[o].on = FALSE
    OBVIOUS
  <2>1. s.hw[o] \in Hardware /\ lit[o] = [s.hw[o] EXCEPT !.on = FALSE]
    BY DEF Typed, Plugged, Desired
  <2> HIDE DEF lit
  <2> QED
    BY <2>1 DEF Hardware
<1>5. \A o \in Plugged(s) : s.display_enabled /\ p[o].enabled
                              => /\ lit[o].on /\ lit[o].width = p[o].width
                                 /\ rec[o].x = p[o].x
  <2> SUFFICES ASSUME NEW o \in Plugged(s), s.display_enabled, p[o].enabled
               PROVE  lit[o].on /\ lit[o].width = p[o].width /\ rec[o].x = p[o].x
    OBVIOUS
  <2>1. lit[o].on /\ lit[o].width = p[o].width
    BY DEF Desired
  <2>2. rec[o] = [p[o] EXCEPT !.refresh = lit[o].refresh] /\ p[o] \in Settings
    BY DEF Recorded, Proposal
  <2> HIDE DEF lit, rec
  <2> QED
    BY <2>1, <2>2 DEF Settings
<1> HIDE DEF lit, rec
<1>6. /\ DOMAIN u = Fields /\ u.hw = lit /\ u.configured = rec /\ u.outputs = s.outputs
      /\ u.layout = s.layout /\ u.prepared = ProposedExtent(p) /\ u.target = s.target
      /\ DOMAIN u.composition = {"format", "width", "mapping"}
      /\ u.composition.mapping = <<>> /\ u.composition.width = s.composition.width
  BY DEF Typed, Fields, Spare
<1> HIDE DEF u
<1>7. Typed(u) /\ Plugs(u)
  BY <1>1, <1>2, <1>6 DEF Typed, Plugs, Plugged
<1>8. Lit(u) # {} => u.prepared = Extent(PlacedBoxes(u))
  <2> SUFFICES ASSUME Lit(u) # {} PROVE u.prepared = Extent(PlacedBoxes(u))
    OBVIOUS
  <2>1. s.display_enabled /\ Lit(u) = Enabled(p)
    BY <1>1, <1>4, <1>5, <1>6 DEF Lit, Plugged, Enabled, Proposal
  <2>2. \A o \in Enabled(p) : u.configured[o].x = p[o].x /\ u.hw[o].width = p[o].width
    BY <1>5, <1>6, <2>1 DEF Enabled, Proposal
  <2>3. PlacedBoxes(u) = {[x |-> p[o].x, width |-> p[o].width] : o \in Enabled(p)}
    BY <2>1, <2>2 DEF PlacedBoxes
  <2> QED
    BY <1>6, <2>3 DEF ProposedExtent
<1>9. u.target # NoTarget => u.composition.width = u.target
  BY <1>6 DEF Spare
<1> QED
  BY <1>3, <1>6, <1>7, <1>8, <1>9, ReconcileCovers

LEMMA RecoveredCovers ==
  ASSUME NEW s, Typed(s), Plugs(s), Spare(s), NEW p \in Proposal(s),
         NEW t \in Recovered(s, p)
  PROVE  Plugs(t) /\ Covered(t) /\ t.primary = NextPrimary(t)
<1> DEFINE mix(S) == [o \in Plugged(s) |-> IF o \in S THEN Desired(s, p)[o] ELSE s.hw[o]]
           r(S) == [s EXCEPT !.hw = mix(S)]
           rec(S) == [o \in Plugged(s) |-> CaptureOutput(r(S), o)]
           u(S) == [r(S) EXCEPT !.configured = rec(S)]
<1>1. PICK S \in SUBSET Plugged(s) : t \in Reconcile(u(S))
  BY DEF Recovered
<1>2. mix(S) \in [Plugged(s) -> Hardware]
  BY DesiredTyped DEF Typed, Plugged
<1>3. /\ DOMAIN r(S) = Fields /\ r(S).hw = mix(S) /\ r(S).configured = s.configured
      /\ r(S).layout = s.layout /\ r(S).outputs = s.outputs
      /\ r(S).prepared = s.prepared /\ r(S).target = s.target
      /\ r(S).composition = s.composition
  BY DEF Typed, Fields
<1>4. /\ DOMAIN u(S) = Fields /\ u(S).hw = mix(S) /\ u(S).configured = rec(S)
      /\ u(S).layout = s.layout /\ u(S).outputs = s.outputs
      /\ u(S).prepared = s.prepared /\ u(S).target = s.target
      /\ u(S).composition = s.composition
  <2> HIDE DEF r, mix, rec
  <2> QED
    BY <1>3 DEF Fields
<1>5. Typed(r(S)) /\ Plugged(r(S)) = Plugged(s)
  <2> HIDE DEF r, mix
  <2>1. DOMAIN mix(S) = DOMAIN s.hw
    BY <1>2 DEF Plugged
  <2> QED
    BY <1>2, <1>3, <2>1 DEF Typed, Plugged
<1> HIDE DEF r, mix
<1>6. rec(S) \in [Plugged(s) -> Settings]
  BY <1>5, CaptureTyped
<1> HIDE DEF rec, u
<1>7. Typed(u(S)) /\ Plugs(u(S)) /\ Spare(u(S))
  BY <1>2, <1>4, <1>6 DEF Typed, Plugged, Plugs, Spare
<1> QED
  BY <1>1, <1>7, ReconcileCovers DEF Spare

(* However configure ends, the framebuffer is right, unless nothing was     *)
(* done at all.                                                             *)
LEMMA ConfigureCovers ==
  ASSUME NEW s, Typed(s), Plugs(s), Spare(s), NEW p, p \in [DOMAIN p -> Settings],
         NEW b, NEW r \in Configure(s, p, b)
  PROVE  /\ Typed(r.state) /\ Plugs(r.state) /\ Spare(r.state)
         /\ \/ r.state = s /\ r.result \in {"rejected", "tested"}
            \/ Covered(r.state) /\ r.state.primary = NextPrimary(r.state)
<1>1. Typed(r.state)
  BY ConfigureWorks
<1>2. \/ r.state = s /\ r.result \in {"rejected", "tested"}
      \/ /\ DOMAIN p = Plugged(s)
         /\ \/ r.state \in Applied(s, p)
            \/ r.state \in Reconcile(s)
            \/ r.state \in Recovered(s, p)
  BY DEF Configure, Ended, Acceptable, Restored
<1>3. CASE r.state = s /\ r.result \in {"rejected", "tested"}
  BY <1>1, <1>3
<1>4. CASE DOMAIN p = Plugged(s) /\ r.state \in Applied(s, p)
  BY <1>1, <1>4, AppliedCovers DEF Proposal, Covered
<1>5. CASE r.state \in Reconcile(s)
  BY <1>1, <1>5, ReconcileCovers DEF Spare, Covered
<1>6. CASE DOMAIN p = Plugged(s) /\ r.state \in Recovered(s, p)
  BY <1>1, <1>6, RecoveredCovers DEF Proposal, Covered
<1> QED
  BY <1>2, <1>3, <1>4, <1>5, <1>6

CInv == Plugs(Now) /\ Covered(Now) /\ primary = NextPrimary(Now)

LEMMA NowTarget ==
  /\ Now.primary = primary /\ Now.prepared = prepared /\ Now.target = target
  /\ Now.composition = composition /\ Now.outputs = outputs
BY DEF Now

(* A state with the same outputs and target is as good.                     *)
LEMMA SameCovered ==
  ASSUME NEW s, NEW t, t.outputs = s.outputs, t.hw = s.hw, t.configured = s.configured,
         t.layout = s.layout, t.primary = s.primary, t.prepared = s.prepared,
         t.target = s.target, t.composition = s.composition
  PROVE  /\ Plugs(s) => Plugs(t)
         /\ Spare(s) => Spare(t)
         /\ Covered(s) => Covered(t)
         /\ s.primary = NextPrimary(s) => t.primary = NextPrimary(t)
<1>1. Wanted(t) = Wanted(s) /\ RenderOutput(t) = RenderOutput(s) /\ Boxes(t) = Boxes(s)
  BY SameView
<1>2. Plugs(s) => Plugs(t)
  BY DEF Plugs, Plugged
<1>3. Spare(s) => Spare(t)
  BY DEF Spare
<1>4. Covered(s) => Covered(t)
  BY <1>1, <1>3 DEF Covered
<1>5. \A S : FirstOf(t, S) = FirstOf(s, S)
  BY DEF FirstOf
<1>6. NextPrimary(t) = NextPrimary(s)
  BY <1>5 DEF NextPrimary
<1> QED
  BY <1>2, <1>3, <1>4, <1>6

LEMMA BecomeCovered ==
  ASSUME NEW t, Plugs(t), Covered(t), t.primary = NextPrimary(t), Become(t)
  PROVE  CInv'
<1> DEFINE n == Now'
<1>1. /\ n.outputs = t.outputs /\ n.hw = t.hw /\ n.configured = t.configured
      /\ n.layout = t.layout /\ n.primary = t.primary /\ n.prepared = t.prepared
      /\ n.target = t.target /\ n.composition = t.composition
  BY DEF Now, Become
<1> HIDE DEF n
<1>2. Plugs(n) /\ Covered(n) /\ n.primary = NextPrimary(n)
  BY <1>1, SameCovered
<1>3. Plugs(Now)' /\ Covered(Now)' /\ NextPrimary(Now)' = NextPrimary(n)
  BY <1>2 DEF n, Plugs, Plugged, Covered, Spare, Wanted, RenderOutput, FirstOf, Lit, Boxes,
              Box, Mapping, NextPrimary
<1>4. primary' = n.primary
  BY <1>1 DEF Become
<1> QED
  BY <1>2, <1>3, <1>4 DEF CInv

LEMMA ProposalCovers ==
  ASSUME IInv, CInv, NEW p, p \in [DOMAIN p -> Settings],
         NEW b, NEW r \in Configure(Now, p, b), Become(r.state)
  PROVE  CInv'
<1>1. Typed(Now) /\ Plugs(Now) /\ Spare(Now)
  BY DEF IInv, CInv, Covered
<1>2. /\ Plugs(r.state)
      /\ \/ r.state = Now
         \/ Covered(r.state) /\ r.state.primary = NextPrimary(r.state)
  BY <1>1, ConfigureCovers
<1>3. Covered(r.state) /\ r.state.primary = NextPrimary(r.state)
  BY <1>2, NowTarget DEF CInv
<1> QED
  BY <1>2, <1>3, BecomeCovered

LEMMA RequestCovers ==
  ASSUME IInv, CInv, NEW b \in BOOLEAN, Request(b)
  PROVE  CInv'
<1>1. PICK p \in UNION {[S -> UNION {Heads(o) : o \in S}] : S \in SUBSET Plugged(Now)} :
        /\ \A o \in DOMAIN p : p[o] \in Heads(o)
        /\ \E r \in Configure(Now, p, b) : Become(r.state)
  BY DEF Request
<1>2. DOMAIN p \subseteq Plugged(Now) /\ p = [o \in DOMAIN p |-> p[o]]
  OBVIOUS
<1>3. p \in [DOMAIN p -> Settings]
  BY <1>1, <1>2, HeadsTyped
<1> QED
  BY <1>1, <1>3, ProposalCovers

LEMMA RequestStateCovers ==
  ASSUME IInv, CInv, NEW o \in Outputs, RequestState(o)
  PROVE  CInv'
<1> DEFINE q(e, m) == [Configuration(Now) EXCEPT
                         ![o].enabled = e, ![o].width = m.width, ![o].refresh = m.refresh]
<1>1. PICK e \in BOOLEAN, m \in Modes \cup {configured[o]} :
        \E r \in Configure(Now, q(e, m), FALSE) : Become(r.state)
  BY DEF RequestState
<1>2. m.width \in Nat /\ m.refresh \in Nat /\ o \in Plugged(Now)
  BY NowSettings, ConfigurationAssumption DEF Settings, RequestState
<1>3. q(e, m) \in [DOMAIN q(e, m) -> Settings]
  BY <1>2, NowSettings DEF Settings
<1> HIDE DEF q
<1> QED
  BY <1>1, <1>3, ProposalCovers

LEMMA SetDisplayEnabledCovers ==
  ASSUME IInv, CInv, NEW e \in BOOLEAN, SetDisplayEnabled(e)
  PROVE  CInv'
<1> DEFINE s == [Now EXCEPT !.display_enabled = e]
<1>1. PICK r \in Configure(s, Configuration(Now), FALSE) :
        Become(IF r.result = "applied" THEN r.state
               ELSE [r.state EXCEPT !.display_enabled = display_enabled])
  BY DEF SetDisplayEnabled
<1>2. /\ DOMAIN s = Fields /\ s.hw = hw /\ s.configured = configured /\ s.layout = layout
      /\ s.outputs = outputs /\ s.primary = primary /\ s.prepared = prepared
      /\ s.target = target /\ s.composition = composition
  BY NowFields, NowTarget DEF Fields
<1> HIDE DEF s
<1>3. Typed(s)
  BY <1>2, NowFields DEF IInv, Typed
<1>4. Plugs(s) /\ Covered(s) /\ Spare(s) /\ s.primary = NextPrimary(s)
  <2>1. Plugs(Now) /\ Covered(Now) /\ Now.primary = NextPrimary(Now)
    BY NowTarget DEF CInv
  <2> QED
    BY <1>2, <2>1, NowFields, NowTarget, SameCovered DEF Covered
<1>5. /\ Typed(r.state) /\ Plugs(r.state) /\ Covered(r.state)
      /\ r.state.primary = NextPrimary(r.state)
  <2>1. PICK b : r \in Configure(s, configured, b)
    BY <1>1, NowSettings
  <2> QED
    BY <1>3, <1>4, <2>1, NowSettings, ConfigureCovers
<1> DEFINE t == [r.state EXCEPT !.display_enabled = display_enabled]
<1>6. Plugs(t) /\ Covered(t) /\ t.primary = NextPrimary(t)
  <2>1. /\ t.outputs = r.state.outputs /\ t.hw = r.state.hw
        /\ t.configured = r.state.configured /\ t.layout = r.state.layout
        /\ t.primary = r.state.primary /\ t.prepared = r.state.prepared
        /\ t.target = r.state.target /\ t.composition = r.state.composition
    BY <1>5 DEF Typed, Fields
  <2> HIDE DEF t
  <2> QED
    BY <1>5, <2>1, SameCovered
<1> HIDE DEF t
<1> QED
  BY <1>1, <1>5, <1>6, BecomeCovered DEF t

LEMMA UnusableCovers ==
  ASSUME NEW s, Typed(s), Plugs(s), Spare(s), NEW o \in Plugged(s), NEW t \in Unusable(s, o)
  PROVE  Plugs(t) /\ Covered(t) /\ t.primary = NextPrimary(t)
<1> DEFINE off(b) == [s EXCEPT !.hw[o].on = @ /\ b]
           u(b) == [off(b) EXCEPT !.configured[o] = CaptureOutput(off(b), o)]
<1>1. PICK b \in BOOLEAN : t \in Reconcile(u(b))
  BY DEF Unusable
<1>2. s.hw[o] \in Hardware /\ s.hw \in [Plugged(s) -> Hardware] /\ DOMAIN s = Fields
      /\ s.configured \in [Plugged(s) -> Settings]
  BY DEF Typed, Plugged
<1> DEFINE light == [s.hw[o] EXCEPT !.on = @ /\ b]
<1>3. light \in Hardware
  <2>1. (s.hw[o].on /\ b) \in BOOLEAN
    OBVIOUS
  <2> QED
    BY <1>2, <2>1 DEF Hardware
<1>4. /\ DOMAIN off(b) = Fields /\ off(b).hw = [s.hw EXCEPT ![o] = light]
      /\ off(b).configured = s.configured /\ off(b).layout = s.layout
      /\ off(b).outputs = s.outputs /\ off(b).prepared = s.prepared
      /\ off(b).target = s.target /\ off(b).composition = s.composition
  BY <1>2 DEF Fields
<1> HIDE DEF off, light
<1>5. Typed(off(b)) /\ Plugged(off(b)) = Plugged(s)
  BY <1>2, <1>3, <1>4 DEF Typed, Plugged
<1> DEFINE rec == CaptureOutput(off(b), o)
<1>6. rec \in Settings
  BY <1>5, CaptureTyped
<1> HIDE DEF rec
<1>7. /\ DOMAIN u(b) = Fields /\ u(b).hw = off(b).hw
      /\ u(b).configured = [s.configured EXCEPT ![o] = rec]
      /\ u(b).layout = s.layout /\ u(b).outputs = s.outputs /\ u(b).prepared = s.prepared
      /\ u(b).target = s.target /\ u(b).composition = s.composition
  BY <1>4 DEF Fields, rec
<1> HIDE DEF u
<1>8. Typed(u(b)) /\ Plugs(u(b)) /\ Spare(u(b))
  BY <1>2, <1>4, <1>5, <1>6, <1>7 DEF Typed, Plugged, Plugs, Spare
<1> QED
  BY <1>1, <1>8, ReconcileCovers DEF Spare

LEMMA PlugInCovers ==
  ASSUME IInv, CInv, NEW o \in Outputs, PlugIn(o)
  PROVE  CInv'
<1>1. PICK light \in Lights :
        \E r \in Configure(WithOutput(Now, o, light),
                          Configuration(WithOutput(Now, o, light)), FALSE) :
          \E t \in IF r.result = "applied" THEN {r.state} ELSE Unusable(r.state, o) :
            Become(t)
  BY DEF PlugIn
<1> DEFINE s == WithOutput(Now, o, light)
<1>2. o \notin Plugged(Now) /\ RightOf(Now) \in Int /\ light \in Hardware
  BY LightsTyped, ConfigurationAssumption DEF PlugIn
<1>3. /\ s.outputs = Append(outputs, o) /\ s.prepared = prepared /\ s.target = target
      /\ s.composition = composition
      /\ s.hw = [p \in Plugged(Now) \cup {o} |-> IF p = o THEN light ELSE hw[p]]
  BY NowFields DEF WithOutput, Fields, Now
<1>4. Typed(s) /\ o \in Plugged(s)
  BY <1>2, WithOutputWorks
<1> HIDE DEF s
<1>5. Plugs(s) /\ Spare(s)
  <2>1. /\ outputs \in Seq(Outputs) /\ Plugged(Now) = {outputs[i] : i \in DOMAIN outputs}
        /\ \A i, j \in DOMAIN outputs : outputs[i] = outputs[j] => i = j
    BY NowTarget DEF CInv, Plugs
  <2>2. /\ Append(outputs, o) \in Seq(Outputs) /\ Len(outputs) \in Nat
        /\ DOMAIN outputs = 1..Len(outputs)
        /\ DOMAIN Append(outputs, o) = 1..(Len(outputs) + 1)
        /\ Append(outputs, o)[Len(outputs) + 1] = o
        /\ \A i \in 1..Len(outputs) : Append(outputs, o)[i] = outputs[i]
    BY <2>1
  <2>3. Plugged(s) = {Append(outputs, o)[i] : i \in DOMAIN Append(outputs, o)}
    BY <1>3, <2>1, <2>2 DEF Plugged
  <2>4. \A i, j \in DOMAIN Append(outputs, o) :
          Append(outputs, o)[i] = Append(outputs, o)[j] => i = j
    <3>1. \A i \in 1..Len(outputs) : outputs[i] # o
      BY <1>2, <2>1, <2>2
    <3>2. ASSUME NEW i \in 1..(Len(outputs) + 1)
          PROVE  i \in 1..Len(outputs) \/ i = Len(outputs) + 1
      BY <2>2
    <3> QED
      BY <2>1, <2>2, <3>1, <3>2
  <2>5. Spare(s)
    BY <1>3, NowTarget DEF CInv, Covered, Spare
  <2> QED
    BY <1>3, <2>2, <2>3, <2>4, <2>5 DEF Plugs
<1>6. PICK r \in Configure(s, s.configured, FALSE) :
        \E t \in IF r.result = "applied" THEN {r.state} ELSE Unusable(r.state, o) :
          Become(t)
  BY <1>1, <1>4, ConfigurationIsRecord DEF s
<1>7. PICK t \in IF r.result = "applied" THEN {r.state} ELSE Unusable(r.state, o) : Become(t)
  BY <1>6
<1>8. /\ Typed(r.state) /\ Plugs(r.state) /\ Spare(r.state)
      /\ Plugged(r.state) = Plugged(s)
      /\ \/ r.result \in {"rejected", "tested"}
         \/ Covered(r.state) /\ r.state.primary = NextPrimary(r.state)
  <2>1. PICK b : r \in Configure(s, s.configured, b)
    BY <1>6
  <2>2. s.configured \in [DOMAIN s.configured -> Settings]
    BY <1>4 DEF Typed
  <2> QED
    BY <1>4, <1>5, <2>1, <2>2, ConfigureCovers, ConfigureWorks
<1>9. CASE r.result = "applied"
  BY <1>7, <1>8, <1>9, BecomeCovered
<1>10. CASE r.result # "applied"
  <2>1. t \in Unusable(r.state, o) /\ o \in Plugged(r.state)
    BY <1>4, <1>7, <1>8, <1>10
  <2> QED
    BY <1>7, <1>8, <2>1, UnusableCovers, BecomeCovered
<1> QED
  BY <1>9, <1>10

(* Taking out one element of a sequence in which it is once.                *)
LEMMA RemovedOnce ==
  ASSUME NEW S, NEW q \in Seq(S), NEW at \in DOMAIN q,
         \A i, j \in DOMAIN q : q[i] = q[j] => i = j
  PROVE  /\ RemoveAt(q, at) \in Seq(S)
         /\ {RemoveAt(q, at)[i] : i \in DOMAIN RemoveAt(q, at)}
              = {q[i] : i \in DOMAIN q} \ {q[at]}
         /\ \A i, j \in DOMAIN RemoveAt(q, at) :
              RemoveAt(q, at)[i] = RemoveAt(q, at)[j] => i = j
<1> DEFINE n == Len(q)
           r == RemoveAt(q, at)
           old(i) == IF i < at THEN i ELSE i + 1
<1>1. n \in Nat /\ DOMAIN q = 1..n /\ at \in 1..n
  OBVIOUS
<1>2. /\ SubSeq(q, 1, at - 1) \in Seq(S) /\ Len(SubSeq(q, 1, at - 1)) = at - 1
      /\ \A i \in 1..(at - 1) : SubSeq(q, 1, at - 1)[i] = q[i]
  BY <1>1, SubSeqProperties
<1>3. /\ SubSeq(q, at + 1, n) \in Seq(S) /\ Len(SubSeq(q, at + 1, n)) = n - at
      /\ \A i \in 1..(n - at) : SubSeq(q, at + 1, n)[i] = q[at + i]
  BY <1>1, SubSeqProperties
<1>4. /\ r \in Seq(S) /\ Len(r) = n - 1 /\ DOMAIN r = 1..(n - 1)
      /\ \A i \in 1..(n - 1) : r[i] = q[old(i)] /\ old(i) \in DOMAIN q \ {at}
  <2> DEFINE left == SubSeq(q, 1, at - 1)
             right == SubSeq(q, at + 1, n)
  <2>1. /\ left \in Seq(S) /\ right \in Seq(S) /\ Len(left) = at - 1 /\ Len(right) = n - at
        /\ \A i \in 1..(at - 1) : left[i] = q[i]
        /\ \A i \in 1..(n - at) : right[i] = q[at + i]
        /\ r = left \o right
    BY <1>2, <1>3 DEF RemoveAt
  <2> HIDE DEF left, right, r
  <2>2. /\ r \in Seq(S) /\ Len(r) = n - 1
        /\ \A i \in 1..(n - 1) : r[i] = IF i <= at - 1 THEN left[i] ELSE right[i - (at - 1)]
    <3>1. /\ left \o right \in Seq(S) /\ Len(left \o right) = Len(left) + Len(right)
          /\ \A i \in 1..(Len(left) + Len(right)) :
               (left \o right)[i] = IF i <= Len(left) THEN left[i]
                                    ELSE right[i - Len(left)]
      BY <2>1, ConcatProperties
    <3>2. Len(left) + Len(right) = n - 1
      BY <1>1, <2>1
    <3> QED
      BY <2>1, <3>1, <3>2
  <2>3. ASSUME NEW i \in 1..(n - 1)
        PROVE  r[i] = q[old(i)] /\ old(i) \in DOMAIN q \ {at}
    <3>1. CASE i < at
      BY <1>1, <2>1, <2>2, <3>1
    <3>2. CASE ~ (i < at)
      <4>1. r[i] = right[i - (at - 1)] /\ i - (at - 1) \in 1..(n - at)
        BY <1>1, <2>2, <3>2
      <4>2. right[i - (at - 1)] = q[i + 1] /\ old(i) = i + 1
        BY <1>1, <2>1, <3>2, <4>1
      <4> QED
        BY <1>1, <3>2, <4>1, <4>2
    <3> QED
      BY <3>1, <3>2
  <2> QED
    BY <1>1, <2>2, <2>3
<1> HIDE DEF r
<1>5. ASSUME NEW k \in DOMAIN q, k # at
      PROVE  \E i \in DOMAIN r : r[i] = q[k]
  <2>1. CASE k < at
    BY <1>1, <1>4, <2>1
  <2>2. CASE k > at
    <3>1. k - 1 \in 1..(n - 1) /\ old(k - 1) = k
      BY <1>1, <2>2
    <3> QED
      BY <1>4, <3>1
  <2> QED
    BY <1>1, <1>5, <2>1, <2>2
<1>6. {r[i] : i \in DOMAIN r} = {q[i] : i \in DOMAIN q} \ {q[at]}
  <2>1. \A i \in DOMAIN r : r[i] \in {q[k] : k \in DOMAIN q} \ {q[at]}
    BY <1>4
  <2>2. \A k \in DOMAIN q : q[k] # q[at] => q[k] \in {r[i] : i \in DOMAIN r}
    BY <1>5
  <2> QED
    BY <2>1, <2>2
<1>7. \A i, j \in DOMAIN r : r[i] = r[j] => i = j
  <2> SUFFICES ASSUME NEW i \in DOMAIN r, NEW j \in DOMAIN r, r[i] = r[j]
               PROVE  i = j
    OBVIOUS
  <2>1. old(i) = old(j) /\ i \in 1..(n - 1) /\ j \in 1..(n - 1)
    BY <1>4
  <2> QED
    BY <1>1, <2>1
<1> QED
  BY <1>4, <1>6, <1>7 DEF r

LEMMA UnplugCovers ==
  ASSUME IInv, CInv, NEW o \in Outputs, Unplug(o)
  PROVE  CInv'
<1> DEFINE s == WithoutOutput(Now, o)
           at == CHOOSE i \in DOMAIN outputs : outputs[i] = o
<1>1. PICK t \in Reconcile(s) : Become(t)
  BY DEF Unplug
<1>2. /\ outputs \in Seq(Outputs) /\ Plugged(Now) = {outputs[i] : i \in DOMAIN outputs}
      /\ \A i, j \in DOMAIN outputs : outputs[i] = outputs[j] => i = j
      /\ Spare(Now) /\ o \in Plugged(Now)
  BY NowTarget DEF CInv, Plugs, Covered, Unplug
<1>3. at \in DOMAIN outputs /\ outputs[at] = o
  BY <1>2
<1> HIDE DEF at
<1>4. /\ DOMAIN s = Fields /\ s.hw = Forget(hw, o)
      /\ s.configured = Forget(configured, o) /\ s.layout = Forget(layout, o)
      /\ s.outputs = RemoveAt(outputs, at) /\ s.prepared = prepared /\ s.target = target
      /\ DOMAIN s.composition = DOMAIN composition
      /\ s.composition.width = composition.width
  <2>1. DOMAIN composition = {"format", "width", "mapping"}
    BY <1>2, NowTarget DEF Spare
  <2> QED
    BY <2>1, NowFields, NowTarget DEF WithoutOutput, Fields, at
<1> HIDE DEF s
<1>5. Typed(s) /\ Plugged(s) = Plugged(Now) \ {o}
  BY <1>4, NowFields DEF IInv, Typed, Forget, Plugged
<1>6. Plugs(s)
  <2> DEFINE rest == RemoveAt(outputs, at)
  <2>1. /\ rest \in Seq(Outputs)
        /\ {rest[i] : i \in DOMAIN rest} = {outputs[i] : i \in DOMAIN outputs} \ {outputs[at]}
        /\ \A i, j \in DOMAIN rest : rest[i] = rest[j] => i = j
    BY <1>2, <1>3, RemovedOnce
  <2>2. s.outputs = rest
    BY <1>4
  <2> HIDE DEF rest
  <2>3. Plugged(s) = {rest[i] : i \in DOMAIN rest}
    BY <1>2, <1>3, <1>5, <2>1
  <2> QED
    BY <2>1, <2>2, <2>3 DEF Plugs
<1>7. Spare(s)
  BY <1>2, <1>4, NowTarget DEF Spare
<1> QED
  BY <1>1, <1>5, <1>6, <1>7, ReconcileCovers, BecomeCovered DEF Spare

LEMMA CoveredInvariant == Spec => [](IInv /\ CInv)
<1>1. Init => CInv
  <2> SUFFICES ASSUME Init PROVE CInv
    OBVIOUS
  <2>1. Plugs(Now)
    BY NowFields, NowTarget, EmptySeq DEF Init, Plugs, Plugged
  <2>2. Covered(Now)
    BY NowTarget DEF Init, Covered, Spare, NoComposition
  <2>3. NextPrimary(Now) = NoOutput
    BY NowFields, NowTarget DEF Init, NextPrimary, Enabled, FirstOf
  <2> QED
    BY <2>1, <2>2, <2>3 DEF Init, CInv
<1>2. IInv /\ CInv /\ [Next]_vars => CInv'
  <2> SUFFICES ASSUME IInv, CInv, [Next]_vars PROVE CInv'
    OBVIOUS
  <2>1. CASE UNCHANGED vars
    <3>1. Become(Now)
      BY <2>1, NowFields, NowTarget DEF vars, Become
    <3>2. Plugs(Now) /\ Covered(Now) /\ Now.primary = NextPrimary(Now)
      BY NowTarget DEF CInv
    <3> QED
      BY <3>1, <3>2, BecomeCovered
  <2>2. CASE Next
    BY <2>2, RequestCovers, RequestStateCovers, SetDisplayEnabledCovers, PlugInCovers,
       UnplugCovers DEF Next
  <2> QED
    BY <2>1, <2>2
<1> QED
  BY <1>1, <1>2, Invariant, PTL DEF Spec

(* Flutter's framebuffer always is that of the desktop it draws, and no     *)
(* target prepared for a change that failed is left to a later one          *)
(* (ensure_composition_target).                                             *)
THEOREM TargetIsTheDesktops == Spec => []TargetCoversDesktop
<1>1. CInv => TargetCoversDesktop
  <2> SUFFICES ASSUME CInv PROVE TargetCoversDesktop
    OBVIOUS
  <2>1. /\ prepared = NoTarget
        /\ target # NoTarget => /\ RenderOutput(Now) # NoOutput
                                /\ target = Extent(Boxes(Now)) /\ composition = Wanted(Now)
    BY NowTarget DEF CInv, Covered, Spare
  <2> QED
    BY <2>1, RenderIsLit DEF TargetCoversDesktop, Wanted
<1> QED
  BY <1>1, CoveredInvariant, PTL

(* To reconcile what is reconciled changes nothing.                         *)
LEMMA ReconcileAgain ==
  ASSUME NEW s, Typed(s), Reconciled(s), Covered(s), s.primary = NextPrimary(s),
         NEW t \in Reconcile(s)
  PROVE  /\ t.outputs = s.outputs /\ t.hw = s.hw /\ t.configured = s.configured
         /\ t.display_enabled = s.display_enabled /\ t.layout = s.layout
         /\ t.primary = s.primary /\ t.told = s.told
         /\ s.target # NoTarget => /\ t.target = s.target /\ t.composition = s.composition
                                   /\ t.replaced = s.replaced
<1> DEFINE u == [s EXCEPT !.primary = NextPrimary(s), !.layout = Placed(s),
                          !.told = Configuration(s)]
<1>1. /\ DOMAIN u = Fields /\ u.outputs = s.outputs /\ u.hw = s.hw
      /\ u.configured = s.configured /\ u.display_enabled = s.display_enabled
      /\ u.layout = s.layout /\ u.primary = s.primary /\ u.told = s.told
      /\ u.prepared = s.prepared /\ u.target = s.target /\ u.composition = s.composition
      /\ u.replaced = s.replaced
  BY ConfigurationIsRecord DEF Typed, Fields, Reconciled
<1>2. t \in EnsureCompositionTarget(u)
  BY DEF Reconcile
<1> HIDE DEF u
<1>3. /\ t.hw = u.hw /\ t.configured = u.configured
      /\ t.display_enabled = u.display_enabled /\ t.layout = u.layout /\ t.told = u.told
  BY <1>1, <1>2, TargetOnly
<1>4. Ready(u)
  BY <1>1, SameCovered, SpareIsReady DEF Covered
<1>5. t.outputs = u.outputs /\ t.primary = u.primary
  BY <1>1, <1>2, <1>4, EnsureCovers
<1>6. ASSUME s.target # NoTarget PROVE t = u
  <2>1. RenderOutput(u) = RenderOutput(s) /\ Wanted(u) = Wanted(s)
    BY <1>1, SameView
  <2> QED
    BY <1>1, <1>2, <1>6, <2>1, EnsureKeepsCovered DEF Covered
<1> QED
  BY <1>1, <1>3, <1>5, <1>6

Unchanged(s) ==
  /\ s.outputs = outputs /\ s.hw = hw /\ s.configured = configured
  /\ s.layout = layout /\ s.primary = primary /\ s.told = told
  /\ target # NoTarget => /\ s.target = target /\ s.composition = composition
                          /\ ~ s.replaced

Failed == {"tested", "rejected", "restored"}

(* A change that fails, also one that was to blank the desktop, ends where  *)
(* it began.                                                                *)
LEMMA FailureUnchanged ==
  ASSUME IInv, CInv, NEW e, NEW p, p \in [DOMAIN p -> Settings],
         NEW b, NEW r \in Configure([Now EXCEPT !.display_enabled = e], p, b),
         r.result \in Failed
  PROVE  Unchanged(r.state)
<1> DEFINE s == [Now EXCEPT !.display_enabled = e]
<1>1. /\ DOMAIN s = Fields /\ s.hw = hw /\ s.configured = configured /\ s.layout = layout
      /\ s.outputs = outputs /\ s.primary = primary /\ s.prepared = prepared
      /\ s.target = target /\ s.composition = composition /\ s.told = told
      /\ s.replaced = FALSE
  BY NowFields, NowTarget DEF Fields, Now
<1>2. r.state = s \/ r.state \in Reconcile(s)
  BY DEF Configure, Ended, Restored, Failed
<1> HIDE DEF s
<1>3. Typed(s) /\ Reconciled(s)
  BY <1>1, NowFields DEF IInv, Typed, Reconciled, Placed, Lit, Plugged
<1>4. Covered(s) /\ s.primary = NextPrimary(s)
  <2>1. Covered(Now) /\ Now.primary = NextPrimary(Now)
    BY NowTarget DEF CInv
  <2> QED
    BY <1>1, <2>1, NowFields, NowTarget, SameCovered
<1>5. CASE r.state = s
  BY <1>1, <1>5 DEF Unchanged
<1>6. CASE r.state \in Reconcile(s)
  BY <1>1, <1>3, <1>4, <1>6, ReconcileAgain DEF Unchanged
<1> QED
  BY <1>2, <1>5, <1>6

LEMMA SameDisplay ==
  ASSUME IInv
  PROVE  [Now EXCEPT !.display_enabled = display_enabled] = Now
<1>1. Now.display_enabled = display_enabled
  BY NowFields
<1> QED
  BY <1>1 DEF Now

ChangesNothing ==
  /\ UNCHANGED <<outputs, hw, configured, display_enabled, layout, primary, told>>
  /\ target # NoTarget => UNCHANGED <<target, composition>> /\ ~ outcome'.replaced

LEMMA ProposalFails ==
  ASSUME IInv, CInv, NEW p, p \in [DOMAIN p -> Settings],
         NEW b, NEW r \in Configure(Now, p, b), Become(r.state),
         Remember(r.result, r.state), outcome'.result \in Failed
  PROVE  ChangesNothing
<1>1. r.result \in Failed /\ outcome'.replaced = r.state.replaced
  BY DEF Remember
<1>2. Unchanged(r.state)
  BY <1>1, SameDisplay, FailureUnchanged
<1>3. r.state.display_enabled = display_enabled
  <2>1. Typed(Now)
    BY DEF IInv
  <2> QED
    BY <2>1, ConfigureWorks, NowFields
<1> QED
  BY <1>1, <1>2, <1>3 DEF Unchanged, Become, ChangesNothing

LEMMA RequestFails ==
  ASSUME IInv, CInv, NEW b \in BOOLEAN, Request(b), outcome'.result \in Failed
  PROVE  ChangesNothing
<1>1. PICK p \in UNION {[S -> UNION {Heads(o) : o \in S}] : S \in SUBSET Plugged(Now)} :
        /\ \A o \in DOMAIN p : p[o] \in Heads(o)
        /\ \E r \in Configure(Now, p, b) : Become(r.state) /\ Remember(r.result, r.state)
  BY DEF Request
<1>2. DOMAIN p \subseteq Plugged(Now) /\ p = [o \in DOMAIN p |-> p[o]]
  OBVIOUS
<1>3. p \in [DOMAIN p -> Settings]
  BY <1>1, <1>2, HeadsTyped
<1> QED
  BY <1>1, <1>3, ProposalFails

LEMMA RequestStateFails ==
  ASSUME IInv, CInv, NEW o \in Outputs, RequestState(o), outcome'.result \in Failed
  PROVE  ChangesNothing
<1> DEFINE q(e, m) == [Configuration(Now) EXCEPT
                         ![o].enabled = e, ![o].width = m.width, ![o].refresh = m.refresh]
<1>1. PICK e \in BOOLEAN, m \in Modes \cup {configured[o]} :
        \E r \in Configure(Now, q(e, m), FALSE) :
          Become(r.state) /\ Remember(r.result, r.state)
  BY DEF RequestState
<1>2. m.width \in Nat /\ m.refresh \in Nat /\ o \in Plugged(Now)
  BY NowSettings, ConfigurationAssumption DEF Settings, RequestState
<1>3. q(e, m) \in [DOMAIN q(e, m) -> Settings]
  BY <1>2, NowSettings DEF Settings
<1> HIDE DEF q
<1> QED
  BY <1>1, <1>3, ProposalFails

LEMMA SetDisplayEnabledFails ==
  ASSUME IInv, CInv, NEW e \in BOOLEAN, SetDisplayEnabled(e), outcome'.result \in Failed
  PROVE  ChangesNothing
<1> DEFINE s == [Now EXCEPT !.display_enabled = e]
<1>1. PICK r \in Configure(s, Configuration(Now), FALSE) :
        /\ Become(IF r.result = "applied" THEN r.state
                  ELSE [r.state EXCEPT !.display_enabled = display_enabled])
        /\ Remember(r.result, r.state)
  BY DEF SetDisplayEnabled
<1>2. r.result \in Failed /\ outcome'.replaced = r.state.replaced
  BY <1>1 DEF Remember
<1>3. r.result # "applied"
  BY <1>2 DEF Failed
<1>4. PICK b : r \in Configure(s, configured, b)
  BY <1>1, NowSettings
<1>5. Unchanged(r.state)
  BY <1>2, <1>4, NowSettings, FailureUnchanged
<1>6. DOMAIN r.state = Fields
  <2>1. Typed(s)
    <3>1. /\ DOMAIN s = Fields /\ s.hw = hw /\ s.configured = configured
          /\ s.layout = layout
      BY NowFields DEF Fields
    <3> HIDE DEF s
    <3> QED
      BY <3>1, NowFields DEF IInv, Typed
  <2> HIDE DEF s
  <2>2. Typed(r.state)
    BY <1>4, <2>1, NowSettings, ConfigureWorks
  <2> QED
    BY <2>2 DEF Typed
<1> DEFINE t == [r.state EXCEPT !.display_enabled = display_enabled]
<1>7. Unchanged(t) /\ t.replaced = r.state.replaced /\ t.display_enabled = display_enabled
  <2>1. /\ t.outputs = r.state.outputs /\ t.hw = r.state.hw
        /\ t.configured = r.state.configured /\ t.layout = r.state.layout
        /\ t.primary = r.state.primary /\ t.told = r.state.told
        /\ t.target = r.state.target /\ t.composition = r.state.composition
        /\ t.replaced = r.state.replaced /\ t.display_enabled = display_enabled
    BY <1>6 DEF Fields
  <2> HIDE DEF t
  <2> QED
    BY <1>5, <2>1 DEF Unchanged
<1>8. Become(t)
  BY <1>1, <1>3
<1> HIDE DEF t
<1> QED
  BY <1>2, <1>7, <1>8 DEF Unchanged, Become, ChangesNothing

(* A change that was only tested, that was refused, or that was rolled back *)
(* leaves outputs, record, layout and framebuffer as they were (configure,  *)
(* ConfigurationTransaction).                                               *)
THEOREM FailedChangesLeaveNoTrace == Spec => FailureChangesNothing
<1>1. IInv /\ CInv /\ [Next]_vars
        => [outcome'.result \in Failed => ChangesNothing]_vars
  <2> SUFFICES ASSUME IInv, CInv, Next, outcome'.result \in Failed
               PROVE  ChangesNothing
    OBVIOUS
  <2>1. ASSUME NEW o \in Outputs, PlugIn(o) PROVE FALSE
    <3>1. outcome'.result \in {"applied", "recovered", "unusable"}
      BY <2>1 DEF PlugIn, Remember
    <3> QED
      BY <3>1 DEF Failed
  <2>2. ASSUME NEW o \in Outputs, Unplug(o) PROVE FALSE
    <3>1. outcome'.result = "unplugged"
      BY <2>2 DEF Unplug, Remember
    <3> QED
      BY <3>1 DEF Failed
  <2> QED
    BY <2>1, <2>2, RequestFails, RequestStateFails, SetDisplayEnabledFails DEF Next
<1> QED
  BY <1>1, CoveredInvariant, PTL DEF Spec, FailureChangesNothing, Failed, ChangesNothing
=============================================================================
