------------------------- MODULE OutputFrameProofs -------------------------
(* Presentation, for a composition of any size, any journal capacity, any     *)
(* number of outputs and frames and any damage reports: what is on a screen   *)
(* is the picture of the frame the output accounts for.                       *)
(*                                                                            *)
(* Repainting only the damage is right because the journal's damage between   *)
(* two frames covers every pixel in which their pictures differ: by induction *)
(* over the frames in between, each covered by its own entry, and over the    *)
(* entries that are united.  Selection never goes back because what an output *)
(* accounts for is no newer than the newest frame handed out or than a        *)
(* complete frame it still holds.                                             *)
EXTENDS OutputFrame, SequenceTheorems, WellFoundedInduction, TLAPS

-----------------------------------------------------------------------------
(* Induction: a set of numbers has a least element                            *)

LEMMA Least ==
  ASSUME NEW S \in SUBSET Nat, S # {}
  PROVE  \E m \in S : \A n \in S : m <= n
<1> DEFINE R == OpToRel(<, Nat)
<1>1. IsWellFoundedOn(R, Nat)
  BY NatLessThanWellFounded
<1>2. \A x, y \in Nat : <<y, x>> \in R <=> y < x
  BY DEF OpToRel
<1> HIDE DEF R
<1>3. PICK x \in S : \A y \in S : ~ (<<y, x>> \in R)
  BY <1>1, WFMin
<1>4. \A y \in S : ~ (y < x)
  BY <1>2, <1>3
<1> QED
  BY <1>4

-----------------------------------------------------------------------------
(* Rectangles                                                                 *)

LEMMA RectTypes ==
  ASSUME NEW r \in Rects
  PROVE  r.left \in Nat /\ r.top \in Nat /\ r.right \in Nat /\ r.bottom \in Nat
<1>1. 0..Width \subseteq Nat /\ 0..Height \subseteq Nat
  BY DamageAssumption
<1>2. r.left \in 0..Width /\ r.right \in 0..Width /\ r.top \in 0..Height /\ r.bottom \in 0..Height
  BY DEF Rects
<1> QED
  BY <1>1, <1>2

(* A point is in a rectangle.                                                  *)
LEMMA InRect ==
  ASSUME NEW r \in Rects, NEW x \in Int, NEW y \in Int
  PROVE  <<x, y>> \in PixelsOf(r) <=> r.left <= x /\ x < r.right /\ r.top <= y /\ y < r.bottom
<1>1. r.left \in Nat /\ r.top \in Nat /\ r.right \in Nat /\ r.bottom \in Nat
  BY RectTypes
<1>2. <<x, y>> \in PixelsOf(r) <=> x \in r.left .. r.right - 1 /\ y \in r.top .. r.bottom - 1
  BY DEF PixelsOf
<1> QED
  BY <1>1, <1>2

(* Pixels are pairs of numbers.                                                *)
LEMMA PixelsArePairs ==
  ASSUME NEW r \in Rects, NEW p \in PixelsOf(r)
  PROVE  p[1] \in Int /\ p[2] \in Int /\ p = <<p[1], p[2]>>
<1>1. r.left \in Nat /\ r.top \in Nat /\ r.right \in Nat /\ r.bottom \in Nat
  BY RectTypes
<1>2. PICK x \in r.left .. r.right - 1, y \in r.top .. r.bottom - 1 : p = <<x, y>>
  BY DEF PixelsOf
<1> QED
  BY <1>1, <1>2

LEMMA NoDamageType == NoDamage \in Damages /\ PixelsOf(NoDamage.rect) = {}
<1>1. NoDamage \in Damages /\ NoDamage.rect \in Rects
  BY DamageAssumption DEF NoDamage, Damages, Rects, Reasons
<1>2. ASSUME NEW p \in PixelsOf(NoDamage.rect) PROVE FALSE
  <2>1. p[1] \in Int /\ p[2] \in Int /\ p = <<p[1], p[2]>>
    BY <1>1, PixelsArePairs
  <2>2. 0 <= p[1] /\ p[1] < 0
    BY <1>1, <2>1, InRect DEF NoDamage
  <2> QED
    BY <2>1, <2>2
<1> QED
  BY <1>1, <1>2

LEMMA FullIsAll ==
  ASSUME NEW reason \in Reasons
  PROVE  Full(reason) \in Damages /\ PixelsOf(Full(reason).rect) = Composition
<1>1. Full(reason) \in Damages
  BY DamageAssumption DEF Full, Damages, Rects
<1>2. PixelsOf(Full(reason).rect) = Composition
  BY DEF Full, PixelsOf, Composition
<1> QED
  BY <1>1, <1>2

(* Uniting two damages loses no pixel of either.                                *)
LEMMA UniteCovers ==
  ASSUME NEW a \in Damages, NEW b \in Damages
  PROVE  /\ Unite(a, b) \in Damages
         /\ PixelsOf(a.rect) \cup PixelsOf(b.rect) \subseteq PixelsOf(Unite(a, b).rect)
<1> DEFINE c == Unite(a, b)
<1>1. /\ a.rect \in Rects /\ b.rect \in Rects /\ a.reason \in Reasons /\ b.reason \in Reasons
      /\ 0..Width \subseteq Int /\ 0..Height \subseteq Int
  BY DEF Damages
<1>2. c.rect = IF IsEmpty(b) THEN a.rect ELSE IF IsEmpty(a) THEN b.rect
               ELSE [left |-> Smaller(a.rect.left, b.rect.left),
                     top |-> Smaller(a.rect.top, b.rect.top),
                     right |-> Larger(a.rect.right, b.rect.right),
                     bottom |-> Larger(a.rect.bottom, b.rect.bottom)]
  BY DEF Unite
<1>3. c.reason \in Reasons /\ c = [rect |-> c.rect, reason |-> c.reason]
  BY <1>1 DEF Unite
<1>4. c.rect \in Rects
  BY <1>1, <1>2 DEF Rects, Smaller, Larger
<1>5. c \in Damages
  BY <1>3, <1>4 DEF Damages
<1> HIDE DEF c
<1>6. ASSUME NEW x \in Int, NEW y \in Int, <<x, y>> \in PixelsOf(a.rect) \cup PixelsOf(b.rect)
      PROVE  <<x, y>> \in PixelsOf(c.rect)
  <2>1. /\ a.rect.left \in Int /\ a.rect.right \in Int /\ a.rect.top \in Int /\ a.rect.bottom \in Int
        /\ b.rect.left \in Int /\ b.rect.right \in Int /\ b.rect.top \in Int /\ b.rect.bottom \in Int
    BY <1>1, RectTypes
  <2>2. \/ a.rect.left <= x /\ x < a.rect.right /\ a.rect.top <= y /\ y < a.rect.bottom
        \/ b.rect.left <= x /\ x < b.rect.right /\ b.rect.top <= y /\ y < b.rect.bottom
    BY <1>1, <1>6, InRect
  <2>3. c.rect.left <= x /\ x < c.rect.right /\ c.rect.top <= y /\ y < c.rect.bottom
    BY <1>2, <2>1, <2>2 DEF IsEmpty, Smaller, Larger
  <2> QED
    BY <1>4, <2>3, InRect
<1>7. \A p \in PixelsOf(a.rect) \cup PixelsOf(b.rect) : p \in PixelsOf(c.rect)
  BY <1>1, <1>6, PixelsArePairs
<1> QED
  BY <1>5, <1>7 DEF c

(* The recursion of United is well-founded: it has a solution.                  *)
LEMMA UnitedExists ==
  ASSUME NEW damages, NEW N \in Nat
  PROVE  \E f : f = [n \in 0..N |-> IF n = 0 THEN NoDamage ELSE Unite(f[n - 1], damages[n])]
<1> DEFINE Solves(f, m) == f = [n \in 0..m |-> IF n = 0 THEN NoDamage ELSE Unite(f[n - 1], damages[n])]
           Bad == {m \in Nat : ~ \E f : Solves(f, m)}
<1>1. SUFFICES ASSUME Bad # {} PROVE FALSE
  OBVIOUS
<1>2. PICK m \in Bad : \A n \in Bad : m <= n
  <2>1. Bad \in SUBSET Nat
    OBVIOUS
  <2> HIDE DEF Bad
  <2> QED
    BY <1>1, <2>1, Least
<1>3. m \in Nat /\ ~ \E f : Solves(f, m)
  OBVIOUS
<1>4. CASE m = 0
  <2> DEFINE f == [n \in 0..0 |-> NoDamage]
  <2>1. Solves(f, 0)
    OBVIOUS
  <2> HIDE DEF Solves, f
  <2> QED
    BY <1>3, <1>4, <2>1
<1>5. CASE m # 0
  <2>1. m - 1 \in Nat /\ m - 1 \notin Bad
    <3>1. m - 1 \in Nat /\ ~ (m <= m - 1)
      BY <1>3, <1>5
    <3> HIDE DEF Bad
    <3> QED
      BY <1>2, <3>1
  <2>2. PICK f : Solves(f, m - 1)
    BY <2>1
  <2> DEFINE g == [n \in 0..m |-> IF n = m THEN Unite(f[m - 1], damages[m]) ELSE f[n]]
  <2>3. ASSUME NEW n \in 0..m
        PROVE  g[n] = IF n = 0 THEN NoDamage ELSE Unite(g[n - 1], damages[n])
    <3>1. CASE n = m
      <4>1. g[m] = Unite(f[m - 1], damages[m]) /\ g[m - 1] = f[m - 1]
        BY <1>3, <1>5
      <4> QED
        BY <1>5, <3>1, <4>1
    <3>2. CASE n = 0
      <4>1. g[0] = f[0] /\ f[0] = NoDamage
        BY <1>3, <1>5, <2>1, <2>2
      <4> QED
        BY <3>2, <4>1
    <3>3. CASE n # m /\ n # 0
      <4>1. /\ n \in 0..(m - 1) /\ n - 1 \in 0..(m - 1) /\ n - 1 \in 0..m /\ n - 1 # m
        BY <1>3, <3>3
      <4>2. g[n] = f[n] /\ g[n - 1] = f[n - 1] /\ f[n] = Unite(f[n - 1], damages[n])
        BY <2>2, <3>3, <4>1
      <4> QED
        BY <3>3, <4>2
    <3> QED
      BY <3>1, <3>2, <3>3
  <2>4. Solves(g, m)
    BY <2>3
  <2> HIDE DEF Solves, g
  <2> QED
    BY <1>3, <2>4
<1> QED
  BY <1>4, <1>5

(* What is united covers every damage of the list.                              *)
LEMMA UnitedCovers ==
  ASSUME NEW damages, NEW N \in Nat, Len(damages) = N, \A i \in 1..N : damages[i] \in Damages
  PROVE  /\ United(damages) \in Damages
         /\ \A i \in 1..N : PixelsOf(damages[i].rect) \subseteq PixelsOf(United(damages).rect)
<1> DEFINE Solves(f) == f = [n \in 0..N |-> IF n = 0 THEN NoDamage ELSE Unite(f[n - 1], damages[n])]
           united == CHOOSE f : Solves(f)
<1>1. Solves(united)
  <2>1. \E f : Solves(f)
    BY UnitedExists
  <2> HIDE DEF Solves
  <2> QED
    BY <2>1
<1>2. United(damages) = united[N]
  BY DEF United
<1> HIDE DEF united
<1>3. /\ united[0] = NoDamage
      /\ \A n \in 1..N : united[n] = Unite(united[n - 1], damages[n])
  BY <1>1
<1> DEFINE Good(n) == /\ united[n] \in Damages
                      /\ \A i \in 1..n : PixelsOf(damages[i].rect) \subseteq PixelsOf(united[n].rect)
           Bad == {n \in 0..N : ~Good(n)}
<1>4. SUFFICES ASSUME Bad # {} PROVE FALSE
  <2>1. N \in 0..N
    OBVIOUS
  <2> QED
    BY <1>2, <2>1
<1>5. PICK m \in Bad : \A n \in Bad : m <= n
  <2>1. Bad \in SUBSET Nat
    OBVIOUS
  <2> HIDE DEF Bad
  <2> QED
    BY <1>4, <2>1, Least
<1>6. m \in 0..N /\ ~Good(m)
  OBVIOUS
<1>7. m # 0
  <2>1. Good(0)
    BY <1>3, NoDamageType
  <2> HIDE DEF Good
  <2> QED
    BY <1>6, <2>1
<1>8. m - 1 \in 0..N /\ m \in 1..N
  BY <1>6, <1>7
<1>9. Good(m - 1)
  BY <1>5, <1>8
<1>10. /\ united[m] \in Damages
       /\ PixelsOf(united[m - 1].rect) \subseteq PixelsOf(united[m].rect)
       /\ PixelsOf(damages[m].rect) \subseteq PixelsOf(united[m].rect)
  BY <1>3, <1>8, <1>9, UniteCovers
<1>11. ASSUME NEW i \in 1..m PROVE PixelsOf(damages[i].rect) \subseteq PixelsOf(united[m].rect)
  <2>1. i = m \/ i \in 1..(m - 1)
    BY <1>8
  <2> QED
    BY <1>9, <1>10, <2>1
<1> QED
  BY <1>6, <1>10, <1>11

(* A damage that misses a box changes no pixel of it.                           *)
LEMMA MissesBox ==
  ASSUME NEW d \in Damages, NEW b \in Rects, ~Intersects(d, b), NEW p \in PixelsOf(b)
  PROVE  p \notin PixelsOf(d.rect)
<1>1. d.rect \in Rects
  BY DEF Damages
<1>2. p[1] \in Int /\ p[2] \in Int /\ p = <<p[1], p[2]>>
  BY PixelsArePairs
<1>3. /\ d.rect.left \in Int /\ d.rect.right \in Int /\ d.rect.top \in Int /\ d.rect.bottom \in Int
      /\ b.left \in Int /\ b.right \in Int /\ b.top \in Int /\ b.bottom \in Int
  BY <1>1, RectTypes
<1>4. b.left <= p[1] /\ p[1] < b.right /\ b.top <= p[2] /\ p[2] < b.bottom
  BY <1>2, InRect
<1> SUFFICES ASSUME p \in PixelsOf(d.rect) PROVE FALSE
  OBVIOUS
<1>5. d.rect.left <= p[1] /\ p[1] < d.rect.right /\ d.rect.top <= p[2] /\ p[2] < d.rect.bottom
  BY <1>1, <1>2, InRect
<1> QED
  BY <1>2, <1>3, <1>4, <1>5 DEF Intersects, IsEmpty

-----------------------------------------------------------------------------
(* Reports                                                                      *)

EngineRects == [finite : BOOLEAN, left : Int, top : Int, right : Int, bottom : Int]

LEMMA SnappedType ==
  ASSUME NEW r \in EngineRects
  PROVE  Snapped(r) \in Damages
<1>1. /\ FloorPixel(r.left) \in Int /\ FloorPixel(r.top) \in Int
      /\ CeilPixel(r.right) \in Int /\ CeilPixel(r.bottom) \in Int
  BY DEF EngineRects, FloorPixel, CeilPixel
<1>2. ASSUME NEW v \in Int, NEW high \in Nat PROVE Clamped(v, high) \in 0..high
  BY DEF Clamped, Smaller, Larger
<1>3. CASE r.right = r.left \/ r.bottom = r.top
  BY <1>3, NoDamageType DEF Snapped
<1>4. CASE ~(r.right = r.left \/ r.bottom = r.top)
  <2>1. Snapped(r) = [rect |-> [left |-> Clamped(FloorPixel(r.left), Width),
                                top |-> Clamped(FloorPixel(r.top), Height),
                                right |-> Clamped(CeilPixel(r.right), Width),
                                bottom |-> Clamped(CeilPixel(r.bottom), Height)],
                      reason |-> "None"]
    BY <1>4 DEF Snapped
  <2>2. /\ Clamped(FloorPixel(r.left), Width) \in 0..Width
        /\ Clamped(FloorPixel(r.top), Height) \in 0..Height
        /\ Clamped(CeilPixel(r.right), Width) \in 0..Width
        /\ Clamped(CeilPixel(r.bottom), Height) \in 0..Height
    BY <1>1, <1>2, DamageAssumption
  <2> QED
    BY <2>1, <2>2 DEF Damages, Rects, Reasons
<1> QED
  BY <1>3, <1>4

(* The normalized damage covers what the frame touched.                         *)
LEMMA NormalizeCovers ==
  ASSUME NEW report \in Reports
  PROVE  /\ Normalize(report) \in Damages
         /\ Touched(report) \cap Composition \subseteq PixelsOf(Normalize(report).rect)
<1>1. report \in Seq(EngineRects)
  BY ReportsAssumption DEF EngineRects
<1>2. CASE report = << >>
  <2>1. Normalize(report) = Full("Missing") /\ "Missing" \in Reasons
    BY <1>2 DEF Normalize, Reasons
  <2> QED
    BY <2>1, FullIsAll
<1>3. CASE report # << >> /\ \E i \in DOMAIN report : Malformed(report[i])
  <2>1. Normalize(report) = Full("Invalid") /\ "Invalid" \in Reasons
    BY <1>3 DEF Normalize, Reasons
  <2> QED
    BY <2>1, FullIsAll
<1>4. CASE report # << >> /\ ~ \E i \in DOMAIN report : Malformed(report[i])
  <2> DEFINE N == Len(report)
             damages == [i \in DOMAIN report |-> Snapped(report[i])]
  <2>1. Normalize(report) = United(damages)
    BY <1>4 DEF Normalize
  <2>2. N \in Nat /\ DOMAIN report = 1..N /\ Len(damages) = N
        /\ \A i \in 1..N : report[i] \in EngineRects /\ damages[i] = Snapped(report[i])
    BY <1>1
  <2>3. \A i \in 1..N : damages[i] \in Damages
    BY <2>2, SnappedType
  <2> HIDE DEF damages, N
  <2>4. /\ United(damages) \in Damages
        /\ \A i \in 1..N : PixelsOf(damages[i].rect) \subseteq PixelsOf(United(damages).rect)
    BY <2>2, <2>3, UnitedCovers
  <2>5. ASSUME NEW p \in Touched(report) PROVE p \in PixelsOf(United(damages).rect)
    <3>1. PICK i \in DOMAIN report : p \in PixelsOf(Snapped(report[i]).rect)
      BY <1>4 DEF Touched
    <3> QED
      BY <2>2, <2>4, <3>1
  <2> QED
    BY <2>1, <2>4, <2>5
<1> QED
  BY <1>2, <1>3, <1>4

-----------------------------------------------------------------------------
(* The journal                                                                  *)

Entries == [serial : Nat, damage : Damages]

(* What entry i says of frame f: outside of its damage the picture is the last. *)
Covers(e, f) ==
  \A p \in Composition :
    f > 1 /\ p \notin PixelsOf(e.damage.rect) => pictures[f][p] = pictures[f - 1][p]

(* The entries are those of the last frames, one for each.                      *)
JournalInv ==
  /\ damage_history \in [generation : Nat, latest : Nat, entries : Seq(Entries)]
  /\ damage_history.generation = generation /\ damage_history.latest = published
  /\ Len(damage_history.entries) <= published
  /\ \A i \in 1..Len(damage_history.entries) :
       /\ damage_history.entries[i].serial = published - Len(damage_history.entries) + i
       /\ Covers(damage_history.entries[i], damage_history.entries[i].serial)

(* Pixels outside of the damage since a frame are as they were in that frame.   *)
LEMMA SinceCovers ==
  ASSUME JournalInv, published \in Nat, NEW g, NEW after \in Nat, NEW through \in Nat
  PROVE  LET d == Since(damage_history, g, after, through) IN
         /\ d \in Damages
         /\ \A p \in Composition : p \notin PixelsOf(d.rect) =>
              /\ g = generation /\ 0 < after /\ after <= through /\ through <= published
              /\ pictures[through][p] = pictures[after][p]
<1> DEFINE d == Since(damage_history, g, after, through)
           es == damage_history.entries
           N == Len(es)
<1>1. \A reason \in Reasons : Full(reason) \in Damages /\ PixelsOf(Full(reason).rect) = Composition
  BY FullIsAll
<1>2. /\ "Generation" \in Reasons /\ "FirstUse" \in Reasons /\ "Invalid" \in Reasons
      /\ "HistoryLost" \in Reasons
  BY DEF Reasons
<1>3. CASE g # generation
  <2>1. d = Full("Generation")
    BY <1>3 DEF Since, JournalInv
  <2> QED
    BY <1>1, <1>2, <2>1
<1>4. CASE g = generation /\ after = 0
  <2>1. d = Full("FirstUse")
    BY <1>4 DEF Since, JournalInv
  <2> QED
    BY <1>1, <1>2, <2>1
<1>5. CASE g = generation /\ after # 0 /\ (through < after \/ through > published)
  <2>1. d = Full("Invalid")
    BY <1>5 DEF Since, JournalInv
  <2> QED
    BY <1>1, <1>2, <2>1
<1>6. CASE g = generation /\ after # 0 /\ ~(through < after \/ through > published) /\ through = after
  <2>1. d = NoDamage
    BY <1>6 DEF Since, JournalInv
  <2> QED
    BY <1>6, <2>1, NoDamageType
<1>7. CASE /\ g = generation /\ after # 0 /\ ~(through < after \/ through > published) /\ through # after
           /\ es = << >> \/ after < Head(es).serial - 1
  <2>1. d = Full("HistoryLost")
    BY <1>7 DEF Since, JournalInv
  <2> QED
    BY <1>1, <1>2, <2>1
<1>8. CASE /\ g = generation /\ after # 0 /\ ~(through < after \/ through > published) /\ through # after
           /\ ~(es = << >> \/ after < Head(es).serial - 1)
  <2> DEFINE damages == [i \in DOMAIN es |->
                           LET e == es[i]
                           IN IF after < e.serial /\ e.serial <= through THEN e.damage ELSE NoDamage]
  <2>1. d = United(damages)
    BY <1>8 DEF Since, JournalInv
  <2>2. /\ es \in Seq(Entries) /\ N \in Nat /\ N # 0 /\ N <= published /\ Head(es) = es[1]
        /\ DOMAIN es = 1..N /\ Len(damages) = N
    BY <1>8 DEF JournalInv
  <2>3. \A i \in 1..N : /\ es[i] \in Entries /\ es[i].serial = published - N + i
                        /\ Covers(es[i], published - N + i)
    <3> SUFFICES ASSUME NEW i \in 1..N
                 PROVE  /\ es[i] \in Entries /\ es[i].serial = published - N + i
                        /\ Covers(es[i], published - N + i)
      OBVIOUS
    <3>1. es[i] \in Entries
      BY <2>2
    <3>2. es[i].serial = published - N + i /\ Covers(es[i], es[i].serial)
      BY DEF JournalInv
    <3> HIDE DEF es, N
    <3>3. Covers(es[i], published - N + i)
      BY <3>2, Zenon
    <3> QED
      BY <3>1, <3>2, <3>3
  <2>4. \A i \in 1..N : damages[i] = IF after < es[i].serial /\ es[i].serial <= through
                                     THEN es[i].damage ELSE NoDamage
    BY <2>2
  <2> HIDE DEF damages, d, N
  <2>5. \A i \in 1..N : damages[i] \in Damages
    BY <2>3, <2>4, NoDamageType DEF Entries
  <2>6. /\ United(damages) \in Damages
        /\ \A i \in 1..N : PixelsOf(damages[i].rect) \subseteq PixelsOf(United(damages).rect)
    BY <2>2, <2>5, UnitedCovers
  <2>7. after >= published - N /\ 0 < after /\ after < through /\ through <= published
    BY <1>8, <2>2, <2>3
  <2>8. ASSUME NEW p \in Composition, p \notin PixelsOf(d.rect)
        PROVE  pictures[through][p] = pictures[after][p]
    <3>1. ASSUME NEW f \in (after + 1)..through
          PROVE  pictures[f][p] = pictures[f - 1][p]
      <4> DEFINE i == f - published + N
      <4>1. i \in 1..N /\ published - N + i = f /\ f > 1 /\ f \in Nat
        BY <2>2, <2>7
      <4> HIDE DEF i
      <4>2. es[i].serial = f /\ Covers(es[i], f)
        BY <2>3, <4>1
      <4>3. damages[i] = es[i].damage
        BY <2>4, <4>1, <4>2
      <4>4. p \notin PixelsOf(es[i].damage.rect)
        BY <2>1, <2>6, <2>8, <4>1, <4>3
      <4> QED
        BY <4>1, <4>2, <4>4 DEF Covers
    <3> DEFINE Bad == {f \in after..through : pictures[f][p] # pictures[after][p]}
    <3>2. SUFFICES ASSUME Bad # {} PROVE FALSE
      BY <2>7
    <3>3. PICK m \in Bad : \A n \in Bad : m <= n
      <4>1. Bad \in SUBSET Nat
        OBVIOUS
      <4> HIDE DEF Bad
      <4> QED
        BY <3>2, <4>1, Least
    <3>4. m \in after..through /\ pictures[m][p] # pictures[after][p]
      OBVIOUS
    <3>5. m \in (after + 1)..through /\ m - 1 \in after..through /\ ~(m <= m - 1)
      BY <3>4
    <3>6. m - 1 \notin Bad
      <4> HIDE DEF Bad
      <4> QED
        BY <3>3, <3>5
    <3>7. pictures[m - 1][p] = pictures[after][p]
      BY <3>5, <3>6
    <3>8. pictures[m][p] = pictures[m - 1][p]
      BY <3>1, <3>5
    <3> QED
      BY <3>4, <3>7, <3>8
  <2> QED
    BY <1>8, <2>1, <2>6, <2>7, <2>8 DEF d
<1> QED
  BY <1>3, <1>4, <1>5, <1>6, <1>7, <1>8

-----------------------------------------------------------------------------
(* The invariant                                                                *)

(* A pixel of the screen lies in the output's box, and in the composition.      *)
LEMMA InBox ==
  ASSUME NEW b \in Boxes, NEW p \in Screen(b)
  PROVE  At(b, p) \in PixelsOf(b) /\ At(b, p) \in Composition
<1>1. /\ b \in Rects /\ b.left \in 0..Width /\ b.right \in 0..Width
      /\ b.top \in 0..Height /\ b.bottom \in 0..Height
  BY BoxesAssumption DEF Rects
<1>2. At(b, p) \in PixelsOf(b)
  BY DEF Screen
<1>3. b.left .. b.right - 1 \subseteq 0 .. Width - 1 /\ b.top .. b.bottom - 1 \subseteq 0 .. Height - 1
  BY <1>1, DamageAssumption
<1> QED
  BY <1>2, <1>3 DEF PixelsOf, Composition

(* Every leased frame is complete.                                              *)
HeldInv ==
  \A o \in Outputs : /\ scene[o] # 0 => scene[o] \in complete
                     /\ presented[o] # 0 => presented[o] \in complete

(* The output shows the frame it accounts for, which is no newer than a frame   *)
(* that bounds what it is offered next.                                         *)
Accepted(o) ==
  /\ last_scene_buffer[o] /\ presented[o] # 0
  /\ last_presented_source_serial[o] \in 1..published
  /\ \/ last_presented_source_serial[o] <= newest_read
     \/ last_presented_source_serial[o] <= presented[o]
  /\ last_source_box[o] \in Boxes
  /\ \A p \in Screen(last_source_box[o]) :
       screen[o][p] =
         <<generation, pictures[last_presented_source_serial[o]][At(last_source_box[o], p)]>>

Inv ==
  /\ TypeOK /\ last_scene_buffer \in [Outputs -> BOOLEAN]
  /\ JournalInv /\ HeldInv
  /\ target => \A o \in Outputs : SameGeneration(o) => Accepted(o)

(* Arithmetic of the types.                                                     *)
LEMMA Numbers ==
  ASSUME TypeOK
  PROVE  /\ generation \in Nat /\ published \in Nat /\ newest_read \in Nat
         /\ newest_read <= published /\ published <= MaxFrames
         /\ complete \subseteq 1..published /\ 1..published \subseteq Nat
         /\ \A o \in Outputs :
              /\ scene[o] \in 0..published /\ presented[o] \in 0..published
              /\ box[o] \in Boxes /\ last_source_generation[o] \in 0..generation
              /\ last_presented_source_serial[o] \in Nat
<1>1. /\ generation \in Nat /\ published \in Nat /\ newest_read \in Nat
      /\ newest_read <= published /\ published <= MaxFrames
      /\ complete \subseteq 1..published
  BY BoundsAssumption DEF TypeOK
<1>2. 1..published \subseteq Nat
  BY <1>1
<1>3. ASSUME NEW o \in Outputs
      PROVE  /\ scene[o] \in 0..published /\ presented[o] \in 0..published
             /\ box[o] \in Boxes /\ last_source_generation[o] \in 0..generation
             /\ last_presented_source_serial[o] \in Nat
  BY <1>1, BoundsAssumption DEF TypeOK
<1> QED
  BY <1>1, <1>2, <1>3

LEMMA InitInv == Init => Inv
<1> SUFFICES ASSUME Init PROVE Inv
  OBVIOUS
<1>1. [o \in Outputs |-> BlankScreen]
         \in [Outputs -> [Composition -> (0..MaxGenerations) \X (0..MaxFrames)]]
  BY BoundsAssumption DEF Blank, BlankScreen
<1>2. pictures \in Seq([Composition -> 1..MaxFrames]) /\ Len(pictures) = 0
  BY DEF Init
<1>3. TypeOK /\ last_scene_buffer \in [Outputs -> BOOLEAN]
  <2>1. /\ generation = 0 /\ published = 0 /\ complete = {} /\ newest_read = 0 /\ target = FALSE
        /\ damage_history.latest = 0 /\ notified = FALSE /\ box \in [Outputs -> Boxes]
    BY DEF Init, NewJournal
  <2>2. /\ enabled \in [Outputs -> BOOLEAN] /\ last_scene_buffer \in [Outputs -> BOOLEAN]
        /\ last_source_box \in [Outputs -> Boxes \cup {NoBox}]
    BY DEF Init
  <2>3. /\ scene \in [Outputs -> 0..0] /\ presented \in [Outputs -> 0..0]
        /\ last_presented_source_serial \in [Outputs -> 0..MaxFrames]
        /\ last_source_generation \in [Outputs -> 0..0]
    BY BoundsAssumption DEF Init
  <2>4. screen \in [Outputs -> [Composition -> (0..MaxGenerations) \X (0..MaxFrames)]]
    BY <1>1 DEF Init
  <2>5. /\ generation \in 0..MaxGenerations /\ target \in BOOLEAN
        /\ published \in 0..MaxFrames /\ complete \subseteq 1..published
        /\ newest_read \in 0..published /\ damage_history.latest = published
        /\ notified \in BOOLEAN /\ Len(pictures) = published
    <3>1. 0 \in 0..MaxGenerations /\ 0 \in 0..MaxFrames /\ 0 \in 0..0
      BY BoundsAssumption
    <3> QED
      BY <1>2, <2>1, <3>1
  <2>6. /\ scene \in [Outputs -> 0..published] /\ presented \in [Outputs -> 0..published]
        /\ last_source_generation \in [Outputs -> 0..generation]
    BY <2>1, <2>3
  <2> QED
    BY <1>2, <2>1, <2>2, <2>3, <2>4, <2>5, <2>6 DEF TypeOK
<1>4. JournalInv
  <2>1. damage_history = [generation |-> 0, latest |-> 0, entries |-> << >>] /\ << >> \in Seq(Entries)
    BY DEF Init, NewJournal
  <2>2. /\ damage_history \in [generation : Nat, latest : Nat, entries : Seq(Entries)]
        /\ damage_history.generation = 0 /\ damage_history.latest = 0
        /\ damage_history.entries = << >>
    BY <2>1
  <2>3. Len(damage_history.entries) = 0 /\ 1..Len(damage_history.entries) = {}
    BY <2>2
  <2> QED
    BY <2>2, <2>3 DEF Init, JournalInv
<1> QED
  BY <1>3, <1>4 DEF Init, Inv, HeldInv

-----------------------------------------------------------------------------
(* Selection                                                                    *)

(* What may be selected is published; handed out as ready it is complete, and   *)
(* once a complete frame is held it is ready and no older than what is held.    *)
LEMMA SelectionIs ==
  ASSUME TypeOK, NEW sel \in Selections
  PROVE  /\ sel.frame \in 1..published /\ sel.ready \in BOOLEAN
         /\ \/ /\ sel.ready /\ sel.frame \in complete /\ sel.frame \in Chain!Selectable
               /\ newest_read <= sel.frame
               /\ \A o \in Outputs : presented[o] \in complete => presented[o] <= sel.frame
            \/ /\ sel.frame \notin Chain!Selectable
               /\ \A o \in Outputs : presented[o] \notin complete
<1>1. sel \in {[frame |-> f, ready |-> TRUE] : f \in Chain!Selectable}
      \/ sel \in {[frame |-> f, ready |-> r] : f \in Chain!SelectableIncomplete, r \in BOOLEAN}
  BY DEF Selections
<1>2. ASSUME NEW o \in Outputs
      PROVE  \E h \in Outputs \X {"scene", "presented"} :
               presented[o] = [g \in Outputs \X {"scene", "presented"} |->
                                 IF g[2] = "scene" THEN scene[g[1]] ELSE presented[g[1]]][h]
  <2>1. <<o, "presented">> \in Outputs \X {"scene", "presented"} /\ "presented" # "scene"
    OBVIOUS
  <2> QED
    BY <2>1
<1>3. CASE sel \in {[frame |-> f, ready |-> TRUE] : f \in Chain!Selectable}
  <2>1. PICK f \in Chain!Selectable : sel = [frame |-> f, ready |-> TRUE]
    BY <1>3
  <2>2. f \in complete /\ newest_read <= f
    BY <2>1, Numbers DEF Chain!Selectable
  <2>3. ASSUME NEW o \in Outputs, presented[o] \in complete PROVE presented[o] <= f
    <3>1. CASE published \in complete
      BY <3>1, <2>1, <2>3, Numbers DEF Chain!Selectable
    <3>2. CASE published \notin complete
      BY <1>2, <2>1, <2>3, <3>2 DEF Chain!Selectable
    <3> QED
      BY <3>1, <3>2
  <2> QED
    BY <2>1, <2>2, <2>3, Numbers
<1>4. CASE sel \in {[frame |-> f, ready |-> r] : f \in Chain!SelectableIncomplete, r \in BOOLEAN}
  <2>1. PICK f \in Chain!SelectableIncomplete, r \in BOOLEAN : sel = [frame |-> f, ready |-> r]
    BY <1>4
  <2>2. f = published /\ f > 0 /\ f \notin complete
    BY <2>1 DEF Chain!SelectableIncomplete
  <2>3. \A o \in Outputs : presented[o] \notin complete
    BY <1>2, <2>1 DEF Chain!SelectableIncomplete
  <2>4. f \notin Chain!Selectable
    BY <2>2 DEF Chain!Selectable
  <2> QED
    BY <2>1, <2>2, <2>3, <2>4, Numbers
<1> QED
  BY <1>1, <1>3, <1>4

(* Once an output of this generation has accepted a frame, what is selected is  *)
(* ready and no older.                                                          *)
LEMMA NeverOlder ==
  ASSUME Inv, target, NEW o \in Outputs, SameGeneration(o), NEW sel \in Selections
  PROVE  /\ sel.ready /\ sel.frame \in Chain!Selectable
         /\ last_presented_source_serial[o] <= sel.frame
         /\ presented[o] \in complete
<1>1. Accepted(o) /\ TypeOK /\ presented[o] \in complete
  BY DEF Inv, HeldInv, Accepted
<1>2. /\ sel.ready /\ sel.frame \in Chain!Selectable
      /\ newest_read <= sel.frame /\ presented[o] <= sel.frame
      /\ sel.frame \in 1..published
  BY <1>1, SelectionIs
<1>3. \/ last_presented_source_serial[o] <= newest_read
      \/ last_presented_source_serial[o] <= presented[o]
  BY <1>1 DEF Accepted
<1>4. /\ newest_read \in Nat /\ presented[o] \in 0..published
      /\ last_presented_source_serial[o] \in Nat /\ published \in Nat
  BY <1>1, Numbers
<1> QED
  BY <1>1, <1>2, <1>3, <1>4

(* What taking a selection does to the chain.                                   *)
LEMMA TakenIs ==
  ASSUME TypeOK, NEW sel \in Selections, SelectionTaken(sel)
  PROVE  /\ complete \subseteq complete' /\ complete' \subseteq 1..published
         /\ newest_read' \in newest_read..published
         /\ sel.ready => sel.frame \in complete'
         /\ sel.frame \in Chain!Selectable => newest_read' = sel.frame
<1>1. /\ sel.frame \in 1..published
      /\ sel.frame \in Chain!Selectable => newest_read <= sel.frame
  BY SelectionIs
<1>2. /\ complete' = IF sel.ready THEN complete \cup {sel.frame} ELSE complete
      /\ newest_read' = IF sel.frame \in Chain!Selectable THEN sel.frame ELSE newest_read
  BY DEF SelectionTaken
<1>3. /\ newest_read \in Nat /\ published \in Nat /\ newest_read <= published
      /\ complete \subseteq 1..published
  BY Numbers
<1>4. newest_read' \in newest_read..published
  <2>1. CASE sel.frame \in Chain!Selectable
    BY <1>1, <1>2, <1>3, <2>1
  <2>2. CASE sel.frame \notin Chain!Selectable
    BY <1>2, <1>3, <2>2
  <2> QED
    BY <2>1, <2>2
<1> QED
  BY <1>1, <1>2, <1>3, <1>4

-----------------------------------------------------------------------------
(* The invariant, step by step                                                  *)

(* Steps that leave the frames and what is shown as they are.                   *)
LEMMA SameFrames ==
  ASSUME Inv, notified' \in BOOLEAN, UNCHANGED <<chainVars, configVars, scene, presented, shownVars>>
  PROVE  Inv'
<1>1. TypeOK' /\ last_scene_buffer' \in [Outputs -> BOOLEAN]
  BY DEF Inv, TypeOK, chainVars, configVars, shownVars
<1>2. JournalInv'
  BY DEF Inv, JournalInv, Covers, chainVars
<1>3. HeldInv'
  BY DEF Inv, HeldInv, chainVars
<1>4. target' => \A o \in Outputs : SameGeneration(o)' => Accepted(o)'
  BY DEF Inv, SameGeneration, Accepted, chainVars, shownVars
<1> QED
  BY <1>1, <1>2, <1>3, <1>4 DEF Inv

(* A frame is added to the chain and to its journal.                            *)
LEMMA PublishFrameInv ==
  ASSUME Inv, NEW report \in Reports, PublishFrame(report)
  PROVE  Inv'
<1> DEFINE es == damage_history.entries
           e == [serial |-> published + 1, damage |-> Normalize(report)]
           longer == Append(es, e)
           picture == [p \in Composition |-> IF published = 0 \/ p \in Touched(report)
                                             THEN published + 1 ELSE pictures[published][p]]
<1>1. /\ generation \in Nat /\ published \in Nat /\ newest_read \in Nat
      /\ newest_read <= published /\ published + 1 <= MaxFrames
      /\ complete \subseteq 1..published
      /\ pictures \in Seq([Composition -> 1..MaxFrames]) /\ Len(pictures) = published
      /\ published' = published + 1 /\ target' = target /\ generation' = generation
      /\ newest_read' = newest_read /\ pictures' = Append(pictures, picture)
  BY Numbers, BoundsAssumption DEF Inv, PublishFrame, TypeOK
<1>2. complete \subseteq complete' /\ complete' \subseteq 1..published'
  <2>1. complete' \in {complete, complete \cup {published + 1}}
    BY DEF PublishFrame
  <2>2. 1..published \subseteq 1..(published + 1) /\ published + 1 \in 1..(published + 1)
    BY <1>1
  <2> QED
    BY <1>1, <2>1, <2>2
<1>3. picture \in [Composition -> 1..MaxFrames]
  <2>1. published + 1 \in 1..MaxFrames
    BY <1>1, BoundsAssumption
  <2>2. published # 0 => pictures[published] \in [Composition -> 1..MaxFrames]
    <3>1. published # 0 => published \in 1..Len(pictures)
      BY <1>1
    <3> QED
      BY <1>1, <3>1
  <2> QED
    BY <2>1, <2>2
<1> HIDE DEF picture
<1>4. /\ pictures' \in Seq([Composition -> 1..MaxFrames]) /\ Len(pictures') = published + 1
      /\ pictures'[published + 1] = picture
      /\ \A f \in 1..published : pictures'[f] = pictures[f]
  BY <1>1, <1>3
<1>5. /\ Normalize(report) \in Damages
      /\ Touched(report) \cap Composition \subseteq PixelsOf(Normalize(report).rect)
  BY NormalizeCovers
<1>6. /\ es \in Seq(Entries) /\ Len(es) <= published /\ Len(es) \in Nat
      /\ \A i \in 1..Len(es) : es[i].serial = published - Len(es) + i /\ Covers(es[i], es[i].serial)
      /\ damage_history.generation = generation
  BY DEF Inv, JournalInv
<1>7. /\ e \in Entries /\ e.serial = published + 1 /\ e.damage = Normalize(report)
  BY <1>1, <1>5 DEF Entries
<1> HIDE DEF e
<1>8. /\ longer \in Seq(Entries) /\ Len(longer) = Len(es) + 1
      /\ \A i \in 1..Len(es) : longer[i] = es[i]
      /\ longer[Len(es) + 1] = e
  BY <1>6, <1>7
<1>9. ASSUME NEW p \in Composition, p \notin PixelsOf(e.damage.rect), published + 1 > 1
      PROVE  pictures'[published + 1][p] = pictures'[published][p]
  <2>1. p \notin Touched(report)
    BY <1>5, <1>7, <1>9
  <2>2. picture[p] = pictures[published][p]
    BY <1>1, <1>9, <2>1 DEF picture
  <2> QED
    BY <1>1, <1>4, <1>9, <2>2
<1>10. \A i \in 1..Len(longer) :
         /\ longer[i].serial = published + 1 - Len(longer) + i
         /\ \A p \in Composition :
              longer[i].serial > 1 /\ p \notin PixelsOf(longer[i].damage.rect)
                => pictures'[longer[i].serial][p] = pictures'[longer[i].serial - 1][p]
  <2> SUFFICES ASSUME NEW i \in 1..Len(longer)
               PROVE  /\ longer[i].serial = published + 1 - Len(longer) + i
                      /\ \A p \in Composition :
                           longer[i].serial > 1 /\ p \notin PixelsOf(longer[i].damage.rect)
                             => pictures'[longer[i].serial][p] = pictures'[longer[i].serial - 1][p]
    OBVIOUS
  <2>1. CASE i \in 1..Len(es)
    <3>1. /\ longer[i] = es[i] /\ es[i].serial = published - Len(es) + i
          /\ \A p \in Composition :
               es[i].serial > 1 /\ p \notin PixelsOf(es[i].damage.rect)
                 => pictures[es[i].serial][p] = pictures[es[i].serial - 1][p]
      BY <1>6, <1>8, <2>1 DEF Covers
    <3> HIDE DEF longer, es
    <3>2. es[i].serial \in 1..published /\ (es[i].serial > 1 => es[i].serial - 1 \in 1..published)
      <4>1. Len(es) \in Nat /\ published \in Nat /\ Len(es) <= published /\ i \in 1..Len(es)
        BY <1>1, <1>6, <2>1
      <4> QED
        BY <3>1, <4>1
    <3>3. /\ pictures'[es[i].serial] = pictures[es[i].serial]
          /\ es[i].serial > 1 => pictures'[es[i].serial - 1] = pictures[es[i].serial - 1]
      BY <1>4, <3>2
    <3> QED
      BY <1>1, <1>6, <1>8, <3>1, <3>3
  <2>2. CASE i = Len(es) + 1
    <3> HIDE DEF longer, es
    <3>1. longer[i] = e
      BY <1>8, <2>2
    <3>2. published + 1 - Len(longer) + i = published + 1 /\ published + 1 - 1 = published
      BY <1>1, <1>6, <1>8, <2>2
    <3>3. longer[i].serial = published + 1 /\ longer[i].damage = e.damage
      BY <1>7, <3>1
    <3>4. longer[i].serial - 1 = published
      BY <1>1, <3>3
    <3>5. ASSUME NEW p \in Composition, longer[i].serial > 1,
                 p \notin PixelsOf(longer[i].damage.rect)
          PROVE  pictures'[longer[i].serial][p] = pictures'[longer[i].serial - 1][p]
      <4>1. pictures'[published + 1][p] = pictures'[published][p]
        BY <1>9, <3>3, <3>5
      <4> QED
        BY <3>3, <3>4, <4>1, Zenon
    <3>6. longer[i].serial = published + 1 - Len(longer) + i
      BY <3>2, <3>3
    <3> QED
      BY <3>5, <3>6
  <2> QED
    BY <1>6, <1>8, <2>1, <2>2
<1>11. /\ damage_history'.entries = (IF Len(longer) > Capacity THEN Tail(longer) ELSE longer)
       /\ damage_history'.latest = published + 1 /\ damage_history'.generation = generation
  <2>1. damage_history' = [damage_history EXCEPT
          !.entries = IF Len(longer) > Capacity THEN Tail(longer) ELSE longer,
          !.latest = published + 1]
    BY DEF PublishFrame, Publish, e
  <2> QED
    BY <2>1, <1>6
<1>12. \E k \in {0, 1} : /\ damage_history'.entries \in Seq(Entries)
                         /\ Len(damage_history'.entries) = Len(longer) - k
                         /\ \A i \in 1..(Len(longer) - k) : damage_history'.entries[i] = longer[i + k]
  <2> HIDE DEF longer
  <2>1. CASE Len(longer) > Capacity
    <3>1. Capacity \in Nat \ {0} /\ longer # << >>
      BY <1>8, <2>1, DamageAssumption
    <3>2. /\ Tail(longer) \in Seq(Entries) /\ Len(Tail(longer)) = Len(longer) - 1
          /\ \A i \in 1..(Len(longer) - 1) : Tail(longer)[i] = longer[i + 1]
      BY <1>8, <3>1
    <3> QED
      BY <1>11, <2>1, <3>2
  <2>2. CASE ~(Len(longer) > Capacity)
    <3>1. \A i \in 1..(Len(longer) - 0) : longer[i] = longer[i + 0]
      BY <1>6, <1>8
    <3> QED
      BY <1>6, <1>8, <1>11, <2>2, <3>1
  <2> QED
    BY <2>1, <2>2
<1> HIDE DEF longer, es
<1>13. PICK k \in {0, 1} : /\ damage_history'.entries \in Seq(Entries)
                           /\ Len(damage_history'.entries) = Len(longer) - k
                           /\ \A i \in 1..(Len(longer) - k) :
                                damage_history'.entries[i] = longer[i + k]
  BY <1>12
<1>14. \A i \in 1..Len(damage_history'.entries) :
         /\ damage_history'.entries[i].serial = published' - Len(damage_history'.entries) + i
         /\ \A p \in Composition :
              /\ damage_history'.entries[i].serial > 1
              /\ p \notin PixelsOf(damage_history'.entries[i].damage.rect)
              => pictures'[damage_history'.entries[i].serial][p]
                   = pictures'[damage_history'.entries[i].serial - 1][p]
  <2> DEFINE new == damage_history'.entries
  <2>1. Len(new) = Len(longer) - k /\ \A i \in 1..(Len(longer) - k) : new[i] = longer[i + k]
    BY <1>13
  <2> SUFFICES \A i \in 1..Len(new) :
                 /\ new[i].serial = published' - Len(new) + i
                 /\ \A p \in Composition :
                      new[i].serial > 1 /\ p \notin PixelsOf(new[i].damage.rect)
                      => pictures'[new[i].serial][p] = pictures'[new[i].serial - 1][p]
    OBVIOUS
  <2> HIDE DEF new
  <2> TAKE i \in 1..Len(new)
  <2>2. Len(longer) \in Nat /\ published \in Nat /\ published' = published + 1
    BY <1>1, <1>6, <1>8
  <2>3. i + k \in 1..Len(longer) /\ new[i] = longer[i + k]
    BY <2>1, <2>2
  <2>4. published + 1 - Len(longer) + (i + k) = published' - Len(new) + i
    BY <2>1, <2>2
  <2> QED
    BY <1>10, <2>3, <2>4
<1>15. JournalInv'
  <2>1. damage_history' \in [generation : Nat, latest : Nat, entries : Seq(Entries)]
    <3>1. damage_history' = [damage_history EXCEPT
            !.entries = IF Len(longer) > Capacity THEN Tail(longer) ELSE longer,
            !.latest = published + 1]
      BY DEF PublishFrame, Publish, longer, e, es
    <3>2. damage_history \in [generation : Nat, latest : Nat, entries : Seq(Entries)]
      BY DEF Inv, JournalInv
    <3>3. damage_history' = [generation |-> damage_history.generation, latest |-> published + 1,
                             entries |-> damage_history'.entries]
      BY <3>1, <3>2
    <3>4. damage_history.generation \in Nat /\ published + 1 \in Nat
          /\ damage_history'.entries \in Seq(Entries)
      BY <1>1, <1>13, <3>2
    <3> QED
      BY <3>3, <3>4
  <2>2. Len(damage_history'.entries) <= published'
    BY <1>1, <1>6, <1>8, <1>13
  <2>3. damage_history'.generation = generation' /\ damage_history'.latest = published'
        /\ published' = published + 1
    BY <1>1, <1>11
  <2> QED
    BY <1>14, <2>1, <2>2, <2>3 DEF JournalInv, Covers
<1>16. UNCHANGED <<configVars, scene, presented, shownVars>> /\ notified' = TRUE
  BY DEF PublishFrame, sceneVars
<1>17. TypeOK' /\ last_scene_buffer' \in [Outputs -> BOOLEAN]
  <2>1. /\ scene' \in [Outputs -> 0..published'] /\ presented' \in [Outputs -> 0..published']
    <3>1. 0..published \subseteq 0..published'
      BY <1>1
    <3> QED
      BY <1>16, <3>1 DEF Inv, TypeOK
  <2>2. newest_read' \in 0..published' /\ published' \in 0..MaxFrames
    BY <1>1
  <2> QED
    BY <1>1, <1>2, <1>4, <1>11, <1>16, <2>1, <2>2 DEF Inv, TypeOK, configVars, shownVars
<1>18. HeldInv'
  BY <1>2, <1>16 DEF Inv, HeldInv
<1>19. ASSUME target', NEW o \in Outputs, SameGeneration(o)' PROVE Accepted(o)'
  <2>1. Accepted(o)
    BY <1>1, <1>16, <1>19 DEF Inv, SameGeneration, shownVars
  <2>2. /\ last_presented_source_serial[o] \in 1..published
        /\ last_presented_source_serial[o] \in 1..published'
        /\ pictures'[last_presented_source_serial[o]] = pictures[last_presented_source_serial[o]]
    BY <1>1, <1>4, <2>1 DEF Accepted
  <2> QED
    BY <1>1, <1>16, <2>1, <2>2 DEF Accepted, shownVars
<1> QED
  BY <1>15, <1>17, <1>18, <1>19 DEF Inv

(* More frames complete, the newest one handed out moves forward, and outputs   *)
(* lease complete frames for their scene.                                       *)
LEMMA ChainAndSceneMove ==
  ASSUME Inv, complete \subseteq complete', complete' \subseteq 1..published,
         newest_read' \in newest_read..published, notified' \in BOOLEAN,
         scene' \in [Outputs -> 0..published],
         \A o \in Outputs : scene'[o] # 0 => scene'[o] \in complete',
         UNCHANGED <<generation, target, published, damage_history, pictures,
                     configVars, presented, shownVars>>
  PROVE  Inv'
<1>1. newest_read' \in 0..published /\ newest_read' \in Nat /\ newest_read \in Nat
      /\ newest_read <= newest_read'
  BY Numbers DEF Inv
<1>2. TypeOK' /\ last_scene_buffer' \in [Outputs -> BOOLEAN]
  BY <1>1 DEF Inv, TypeOK, configVars, shownVars
<1>3. JournalInv'
  BY DEF Inv, JournalInv, Covers
<1>4. HeldInv'
  BY DEF Inv, HeldInv
<1>5. ASSUME target', NEW o \in Outputs, SameGeneration(o)' PROVE Accepted(o)'
  <2>1. Accepted(o)
    BY <1>5 DEF Inv, SameGeneration, shownVars
  <2>2. last_presented_source_serial[o] \in Nat
    BY Numbers DEF Inv
  <2>3. last_presented_source_serial[o] <= newest_read => last_presented_source_serial[o] <= newest_read'
    BY <1>1, <2>2
  <2> QED
    BY <2>1, <2>3 DEF Accepted, shownVars
<1> QED
  BY <1>2, <1>3, <1>4, <1>5 DEF Inv

LEMMA ChainMoves ==
  ASSUME Inv, complete \subseteq complete', complete' \subseteq 1..published,
         newest_read' \in newest_read..published, notified' \in BOOLEAN,
         UNCHANGED <<generation, target, published, damage_history, pictures,
                     configVars, scene, presented, shownVars>>
  PROVE  Inv'
<1>1. /\ scene' \in [Outputs -> 0..published]
      /\ \A o \in Outputs : scene'[o] # 0 => scene'[o] \in complete'
  BY DEF Inv, TypeOK, HeldInv
<1> QED
  BY <1>1, ChainAndSceneMove

LEMMA CompleteFrameInv ==
  ASSUME Inv, NEW f \in 1..published, CompleteFrame(f)
  PROVE  Inv'
<1>1. /\ complete \subseteq 1..published /\ newest_read \in Nat /\ published \in Nat
      /\ newest_read <= published /\ notified \in BOOLEAN
  BY Numbers DEF Inv, TypeOK
<1>2. /\ complete \subseteq complete' /\ complete' \subseteq 1..published
      /\ newest_read' \in newest_read..published
      /\ UNCHANGED <<generation, target, published, damage_history, pictures, notified,
                     configVars, scene, presented, shownVars>>
  BY <1>1 DEF CompleteFrame, sceneVars
<1> QED
  BY <1>1, <1>2, ChainMoves

(* A new chain, or none: nothing accepted so far counts.                        *)
LEMMA EmptyChainInv ==
  ASSUME Inv, EmptyChain, DropLeases, NEW on \in SUBSET Outputs, Enable(on),
         generation' \in generation..MaxGenerations, target' => generation' > generation,
         target' \in BOOLEAN, box' \in [Outputs -> Boxes],
         last_scene_buffer' \in [Outputs -> BOOLEAN],
         last_source_box' \in [Outputs -> Boxes \cup {NoBox}],
         last_presented_source_serial' \in [Outputs -> 0..MaxFrames],
         last_source_generation' = last_source_generation
  PROVE  Inv'
<1>1. /\ published' = 0 /\ complete' = {} /\ newest_read' = 0 /\ pictures' = << >>
      /\ notified' = FALSE
      /\ damage_history' = [generation |-> generation', latest |-> 0, entries |-> << >>]
  BY DEF EmptyChain, NewJournal
<1>2. generation \in Nat /\ generation' \in Nat /\ generation <= generation' /\ generation' <= MaxGenerations
  BY Numbers, BoundsAssumption DEF Inv
<1>3. scene' \in [Outputs -> 0..0] /\ presented' \in [Outputs -> 0..0]
  BY DEF DropLeases
<1>4. enabled' \in [Outputs -> BOOLEAN]
  BY DEF Enable
<1>5. screen' \in [Outputs -> [Composition -> (0..MaxGenerations) \X (0..MaxFrames)]]
  <2>1. BlankScreen \in [Composition -> (0..MaxGenerations) \X (0..MaxFrames)]
    BY BoundsAssumption DEF Blank, BlankScreen
  <2>2. \A o \in Outputs : screen[o] \in [Composition -> (0..MaxGenerations) \X (0..MaxFrames)]
    BY DEF Inv, TypeOK
  <2> QED
    BY <2>1, <2>2 DEF Enable
<1>6. last_source_generation' \in [Outputs -> 0..generation']
  <2>1. 0..generation \subseteq 0..generation'
    BY <1>2
  <2> QED
    BY <2>1 DEF Inv, TypeOK
<1>7. TypeOK'
  <2>1. /\ generation' \in 0..MaxGenerations /\ published' \in 0..MaxFrames
        /\ complete' \subseteq 1..published' /\ newest_read' \in 0..published'
        /\ pictures' \in Seq([Composition -> 1..MaxFrames]) /\ Len(pictures') = published'
    BY <1>1, <1>2, BoundsAssumption
  <2> QED
    BY <1>1, <1>3, <1>4, <1>5, <1>6, <2>1 DEF TypeOK
<1>8. JournalInv'
  <2>1. << >> \in Seq(Entries)
    OBVIOUS
  <2> QED
    BY <1>1, <1>2, <2>1 DEF JournalInv
<1>9. HeldInv'
  BY <1>3 DEF HeldInv
<1>10. target' => \A o \in Outputs : ~SameGeneration(o)'
  <2>1. \A o \in Outputs : last_source_generation[o] \in 0..generation
    BY Numbers DEF Inv
  <2> QED
    BY <1>2, <2>1 DEF SameGeneration
<1> QED
  BY <1>7, <1>8, <1>9, <1>10 DEF Inv

LEMMA ReconfigureInv ==
  ASSUME Inv, NEW on \in SUBSET Outputs,
         ClearTarget(on) \/ \E boxes \in [Outputs -> Boxes] : NewTarget(on, boxes)
  PROVE  Inv'
<1>1. generation \in Nat /\ MaxGenerations \in Nat /\ generation <= MaxGenerations
  BY BoundsAssumption DEF Inv, TypeOK
<1>2. CASE ClearTarget(on)
  <2>1. /\ EmptyChain /\ DropLeases /\ Enable(on) /\ generation' = generation /\ target' = FALSE
        /\ UNCHANGED <<box, last_scene_buffer, last_source_box, last_presented_source_serial,
                       last_source_generation>>
    BY <1>2 DEF ClearTarget
  <2>2. /\ box' \in [Outputs -> Boxes] /\ last_scene_buffer' \in [Outputs -> BOOLEAN]
        /\ last_source_box' \in [Outputs -> Boxes \cup {NoBox}]
        /\ last_presented_source_serial' \in [Outputs -> 0..MaxFrames]
    BY <2>1 DEF Inv, TypeOK
  <2>3. generation' \in generation..MaxGenerations
    BY <1>1, <2>1
  <2> QED
    BY <2>1, <2>2, <2>3, EmptyChainInv
<1>3. CASE \E boxes \in [Outputs -> Boxes] : NewTarget(on, boxes)
  <2>1. PICK boxes \in [Outputs -> Boxes] : NewTarget(on, boxes)
    BY <1>3
  <2>2. /\ EmptyChain /\ DropLeases /\ Enable(on) /\ generation' = generation + 1 /\ target' = TRUE
        /\ generation < MaxGenerations /\ box' = boxes
        /\ last_source_generation' = last_source_generation
    BY <2>1 DEF NewTarget
  <2>3. /\ last_scene_buffer' \in [Outputs -> BOOLEAN]
        /\ last_source_box' \in [Outputs -> Boxes \cup {NoBox}]
        /\ last_presented_source_serial' \in [Outputs -> 0..MaxFrames]
    BY <2>1, BoundsAssumption DEF NewTarget
  <2>4. generation' \in generation..MaxGenerations /\ generation' > generation
    BY <1>1, <2>2
  <2> QED
    BY <2>2, <2>3, <2>4, EmptyChainInv
<1> QED
  BY <1>2, <1>3

-----------------------------------------------------------------------------
(* output_frame                                                                 *)

LEMMA FrameNotReadyInv ==
  ASSUME Inv, target, NEW o \in Outputs, NEW sel \in Selections, NEW cursor \in BOOLEAN,
         FrameNotReady(o, sel, cursor)
  PROVE  Inv'
<1>1. SelectionTaken(sel) /\ TypeOK /\ notified \in BOOLEAN
  BY DEF FrameNotReady, Inv, TypeOK
<1>2. /\ complete \subseteq complete' /\ complete' \subseteq 1..published
      /\ newest_read' \in newest_read..published
  BY <1>1, TakenIs
<1>3. UNCHANGED <<generation, target, published, damage_history, pictures, notified,
                  configVars, scene, presented, shownVars>>
  BY DEF FrameNotReady, SelectionTaken, Called, sceneVars
<1> QED
  BY <1>1, <1>2, <1>3, ChainMoves

(* The damage of an output covers what its screen lacks of the source.          *)
LEMMA OutputDamageCovers ==
  ASSUME Inv, NEW o \in Outputs, NEW source \in Nat
  PROVE  /\ OutputDamage(o, source) \in Damages
         /\ \A p \in Composition : p \notin PixelsOf(OutputDamage(o, source).rect) =>
              /\ SameGeneration(o) /\ ~MappingChanged(o)
              /\ pictures[source][p] = pictures[last_presented_source_serial[o]][p]
<1>1. /\ JournalInv /\ published \in Nat /\ last_presented_source_serial[o] \in Nat
      /\ "Generation" \in Reasons
  BY Numbers DEF Inv, Reasons
<1>2. CASE MappingChanged(o) \/ ~last_scene_buffer[o] \/ cursor_cleanup_pending[o]
  <2>1. OutputDamage(o, source) = Full("Generation")
    BY <1>2 DEF OutputDamage
  <2> QED
    BY <1>1, <2>1, FullIsAll
<1>3. CASE ~(MappingChanged(o) \/ ~last_scene_buffer[o] \/ cursor_cleanup_pending[o])
  <2>1. OutputDamage(o, source)
          = Since(damage_history, last_source_generation[o], last_presented_source_serial[o], source)
    BY <1>3 DEF OutputDamage
  <2> QED
    <3> DEFINE after == last_presented_source_serial[o]
               d == Since(damage_history, last_source_generation[o], after, source)
    <3>1. /\ d \in Damages
          /\ \A p \in Composition : p \notin PixelsOf(d.rect) =>
               /\ last_source_generation[o] = generation
               /\ pictures[source][p] = pictures[after][p]
      BY <1>1, SinceCovers
    <3> QED
      BY <1>3, <2>1, <3>1 DEF SameGeneration
<1> QED
  BY <1>2, <1>3

(* Nothing of the output's box changed since the frame it shows.                *)
LEMMA FrameUndamagedInv ==
  ASSUME Inv, target, NEW o \in Outputs, NEW sel \in Selections,
         NEW software_cursor \in BOOLEAN, FrameUndamaged(o, sel, software_cursor)
  PROVE  Inv'
<1> DEFINE last == last_presented_source_serial[o]
           source == SourceOf(o, sel)
<1>1. /\ SelectionTaken(sel) /\ TypeOK /\ SameGeneration(o) /\ last_scene_buffer[o]
      /\ ~MappingChanged(o) /\ ~Intersects(OutputDamage(o, source), box[o])
  BY DEF FrameUndamaged, ForcePresent, Inv
<1>2. /\ UNCHANGED <<generation, target, published, damage_history, pictures, notified,
                     configVars, scene, presented, last_scene_buffer, last_source_box, screen>>
      /\ last_presented_source_serial'
           = [last_presented_source_serial EXCEPT ![o] = Larger(@, source)]
      /\ last_source_generation' = [last_source_generation EXCEPT ![o] = generation]
  BY DEF FrameUndamaged, SelectionTaken, Called, sceneVars
<1>3. /\ sel.ready /\ sel.frame \in Chain!Selectable /\ last <= sel.frame
      /\ sel.frame \in 1..published
  BY <1>1, NeverOlder, SelectionIs
<1>4. /\ generation \in Nat /\ published \in Nat /\ published <= MaxFrames
      /\ last \in Nat /\ box[o] \in Boxes
      /\ last_source_generation[o] = generation /\ last_source_box[o] = box[o]
  BY <1>1, Numbers DEF SameGeneration, MappingChanged
<1>5. source = sel.frame /\ source \in Nat
  BY <1>3, <1>4 DEF SourceOf
<1>6. Accepted(o)
  BY <1>1 DEF Inv
<1> HIDE DEF source, last
<1>7. /\ last_presented_source_serial' = [last_presented_source_serial EXCEPT ![o] = source]
      /\ last_source_generation' = last_source_generation
  <2>1. Larger(last_presented_source_serial[o], source) = source
    BY <1>3, <1>4, <1>5 DEF Larger, last
  <2> QED
    BY <1>1, <1>2, <1>4, <2>1 DEF TypeOK
<1>8. /\ complete \subseteq complete' /\ complete' \subseteq 1..published
      /\ newest_read' \in newest_read..published /\ newest_read' = source
  BY <1>1, <1>3, <1>5, TakenIs
<1>9. ASSUME NEW p \in Screen(box[o])
      PROVE  pictures[source][At(box[o], p)] = pictures[last][At(box[o], p)]
  <2>1. OutputDamage(o, source) \in Damages /\ box[o] \in Rects
    BY <1>4, <1>5, OutputDamageCovers, BoxesAssumption
  <2>2. At(box[o], p) \in PixelsOf(box[o]) /\ At(box[o], p) \in Composition
    BY <1>4, InBox
  <2>3. At(box[o], p) \notin PixelsOf(OutputDamage(o, source).rect)
    BY <1>1, <2>1, <2>2, MissesBox DEF source
  <2> QED
    BY <1>5, <2>2, <2>3, OutputDamageCovers DEF last
<1>10. TypeOK' /\ last_scene_buffer' \in [Outputs -> BOOLEAN]
  <2>1. newest_read' \in 0..published
    BY <1>8, Numbers, <1>1
  <2>2. source \in 0..MaxFrames
    BY <1>3, <1>4, <1>5, BoundsAssumption
  <2>3. last_presented_source_serial' \in [Outputs -> 0..MaxFrames]
    BY <1>1, <1>7, <2>2 DEF TypeOK
  <2> QED
    BY <1>1, <1>2, <1>7, <1>8, <2>1, <2>3 DEF Inv, TypeOK, configVars
<1>11. JournalInv'
  BY <1>2 DEF Inv, JournalInv, Covers
<1>12. HeldInv'
  BY <1>2, <1>8 DEF Inv, HeldInv
<1>13. ASSUME NEW q \in Outputs, SameGeneration(q)' PROVE Accepted(q)'
  <2>1. Accepted(q)
    BY <1>2, <1>7, <1>13 DEF Inv, SameGeneration
  <2>2. CASE q = o
    <3>1. last_presented_source_serial'[o] = source /\ source <= newest_read'
      BY <1>1, <1>5, <1>7, <1>8 DEF TypeOK
    <3>2. last_presented_source_serial'[o] \in 1..published'
      BY <1>2, <1>3, <1>5, <3>1
    <3>3. last_source_box'[o] = box[o] /\ screen'[o] = screen[o]
      BY <1>2, <1>4
    <3>4. ASSUME NEW p \in Screen(last_source_box'[o])
          PROVE  screen'[o][p] = <<generation', pictures'[source][At(last_source_box'[o], p)]>>
      <4>1. screen[o][p] = <<generation, pictures[last][At(last_source_box[o], p)]>>
        BY <1>2, <1>6 DEF Accepted, last
      <4>2. p \in Screen(box[o])
        BY <3>3
      <4> QED
        BY <1>2, <1>4, <1>9, <3>3, <4>1, <4>2
    <3>5. last_scene_buffer'[o] /\ presented'[o] # 0 /\ last_source_box'[o] \in Boxes
      BY <1>2, <1>6 DEF Accepted
    <3> QED
      BY <2>2, <3>1, <3>2, <3>4, <3>5 DEF Accepted
  <2>3. CASE q # o
    <3>1. last_presented_source_serial'[q] = last_presented_source_serial[q]
      BY <1>1, <1>7, <2>3 DEF TypeOK
    <3>2. newest_read <= newest_read' /\ newest_read \in Nat /\ newest_read' \in Nat
          /\ last_presented_source_serial[q] \in Nat
      BY <1>1, <1>8, Numbers
    <3>3. \/ last_presented_source_serial'[q] <= newest_read'
          \/ last_presented_source_serial'[q] <= presented'[q]
      BY <1>2, <2>1, <3>1, <3>2 DEF Accepted
    <3> QED
      BY <1>2, <2>1, <3>1, <3>3 DEF Accepted
  <2> QED
    BY <2>2, <2>3
<1> QED
  BY <1>10, <1>11, <1>12, <1>13 DEF Inv

(* The source of a presentation is a complete frame, and for an output that     *)
(* accounts for a frame of this chain the selected one, which is no older.      *)
LEMMA SourceIs ==
  ASSUME Inv, target, NEW o \in Outputs, NEW sel \in Selections, NEW cursor \in BOOLEAN,
         sel.ready \/ Reusable(o, sel, cursor), SelectionTaken(sel)
  PROVE  /\ SourceOf(o, sel) \in complete' /\ SourceOf(o, sel) \in 1..published
         /\ SameGeneration(o) => last_presented_source_serial[o] <= SourceOf(o, sel)
<1>1. TypeOK /\ complete \subseteq complete' /\ complete' \subseteq 1..published
      /\ (sel.ready => sel.frame \in complete')
  BY TakenIs DEF Inv
<1>2. SourceOf(o, sel) \in complete'
  <2>1. CASE sel.ready
    BY <1>1, <2>1 DEF SourceOf
  <2>2. CASE ~sel.ready
    BY <1>1, <2>2 DEF SourceOf, Reusable
  <2> QED
    BY <2>1, <2>2
<1>3. SameGeneration(o) => last_presented_source_serial[o] <= SourceOf(o, sel)
  BY NeverOlder DEF SourceOf
<1> QED
  BY <1>1, <1>2, <1>3

(* After a commit the output shows the source: what was not redrawn was the     *)
(* same in the frame it showed before.                                          *)
LEMMA RepaintIsEnough ==
  ASSUME Inv, target, NEW o \in Outputs, NEW source \in Nat, NEW p \in Screen(box[o]),
         p \notin RepaintArea(o, source)
  PROVE  screen[o][p] = <<generation, pictures[source][At(box[o], p)]>>
<1>1. box[o] \in Boxes
  BY Numbers DEF Inv
<1>2. At(box[o], p) \in Composition
  BY <1>1, InBox
<1>3. At(box[o], p) \notin PixelsOf(OutputDamage(o, source).rect)
  BY DEF RepaintArea
<1>4. /\ SameGeneration(o) /\ ~MappingChanged(o)
      /\ pictures[source][At(box[o], p)]
           = pictures[last_presented_source_serial[o]][At(box[o], p)]
  BY <1>2, <1>3, OutputDamageCovers
<1>5. Accepted(o) /\ last_source_box[o] = box[o]
  BY <1>4 DEF Inv, MappingChanged
<1> QED
  BY <1>4, <1>5 DEF Accepted

LEMMA FrameDeferredInv ==
  ASSUME Inv, target, NEW o \in Outputs, NEW sel \in Selections,
         NEW software_cursor \in BOOLEAN, FramePresented(o, sel, software_cursor, FALSE)
  PROVE  Inv'
<1> DEFINE source == SourceOf(o, sel)
<1>1. /\ SelectionTaken(sel) /\ TypeOK /\ notified \in BOOLEAN
      /\ sel.ready \/ Reusable(o, sel, cursor_frame_pending[o] \/ software_cursor)
      /\ scene' = [scene EXCEPT ![o] = source]
  BY DEF FramePresented, Inv, TypeOK
<1>2. UNCHANGED <<generation, target, published, damage_history, pictures, notified,
                  configVars, presented, shownVars>>
  BY DEF FramePresented, SelectionTaken, Called
<1>3. /\ complete \subseteq complete' /\ complete' \subseteq 1..published
      /\ newest_read' \in newest_read..published
  BY <1>1, TakenIs
<1>4. source \in complete' /\ source \in 1..published
  <2>1. sel.ready \/ Reusable(o, sel, TRUE)
    BY <1>1 DEF Reusable
  <2> QED
    BY <1>1, <2>1, SourceIs
<1> HIDE DEF source
<1>5. scene' \in [Outputs -> 0..published]
  <2>1. source \in 0..published /\ scene \in [Outputs -> 0..published]
    BY <1>1, <1>4, Numbers DEF TypeOK
  <2> QED
    BY <1>1, <2>1
<1>6. ASSUME NEW q \in Outputs, scene'[q] # 0 PROVE scene'[q] \in complete'
  <2>1. scene'[q] = source \/ scene'[q] = scene[q]
    BY <1>1 DEF TypeOK
  <2> QED
    BY <1>3, <1>4, <1>6, <2>1 DEF Inv, HeldInv
<1> QED
  BY <1>1, <1>2, <1>3, <1>5, <1>6, ChainAndSceneMove

LEMMA FrameCommittedInv ==
  ASSUME Inv, target, NEW o \in Outputs, NEW sel \in Selections,
         NEW software_cursor \in BOOLEAN, FramePresented(o, sel, software_cursor, TRUE)
  PROVE  Inv'
<1> DEFINE source == SourceOf(o, sel)
           last == last_presented_source_serial[o]
           shown == [p \in Composition |-> IF p \in RepaintArea(o, source)
                                           THEN <<generation, pictures[source][At(box[o], p)]>>
                                           ELSE screen[o][p]]
<1>1. /\ SelectionTaken(sel) /\ TypeOK /\ last_scene_buffer \in [Outputs -> BOOLEAN]
      /\ sel.ready \/ Reusable(o, sel, cursor_frame_pending[o] \/ software_cursor)
  BY DEF FramePresented, Inv
<1>2. UNCHANGED <<generation, target, published, damage_history, pictures, notified, configVars>>
  BY DEF FramePresented, SelectionTaken, Called
<1>3. /\ scene' = [scene EXCEPT ![o] = source]
      /\ presented' = [presented EXCEPT ![o] = source]
      /\ screen' = [screen EXCEPT ![o] = shown]
      /\ last_scene_buffer' = [last_scene_buffer EXCEPT ![o] = TRUE]
      /\ last_presented_source_serial'
           = [last_presented_source_serial EXCEPT
                ![o] = IF SameGeneration(o) THEN Larger(@, source) ELSE source]
      /\ last_source_generation' = [last_source_generation EXCEPT ![o] = generation]
      /\ last_source_box' = [last_source_box EXCEPT ![o] = box[o]]
  BY DEF FramePresented
<1>4. /\ complete \subseteq complete' /\ complete' \subseteq 1..published
      /\ newest_read' \in newest_read..published
  BY <1>1, TakenIs
<1>5. source \in complete' /\ source \in 1..published /\ (SameGeneration(o) => last <= source)
  <2>1. sel.ready \/ Reusable(o, sel, TRUE)
    BY <1>1 DEF Reusable
  <2> QED
    BY <1>1, <2>1, SourceIs
<1>6. /\ generation \in Nat /\ published \in Nat /\ published <= MaxFrames /\ newest_read \in Nat
      /\ last \in Nat /\ box[o] \in Boxes /\ source \in Nat /\ source # 0
      /\ generation \in 0..MaxGenerations
  BY <1>1, <1>5, Numbers DEF TypeOK
<1>7. ASSUME NEW p \in Screen(box[o])
      PROVE  shown[p] = <<generation, pictures[source][At(box[o], p)]>>
  <2>1. p \in Composition
    BY DEF Screen
  <2> QED
    BY <1>6, <2>1, RepaintIsEnough
<1>8. shown \in [Composition -> (0..MaxGenerations) \X (0..MaxFrames)]
  <2>1. pictures[source] \in [Composition -> 1..MaxFrames]
    BY <1>1, <1>5 DEF TypeOK
  <2>2. ASSUME NEW p \in Composition
        PROVE  shown[p] \in (0..MaxGenerations) \X (0..MaxFrames)
    <3>1. CASE p \in Screen(box[o])
      <4>1. At(box[o], p) \in Composition
        BY <1>6, <3>1, InBox
      <4>2. pictures[source][At(box[o], p)] \in 0..MaxFrames
        BY <2>1, <4>1, BoundsAssumption
      <4> HIDE DEF shown
      <4> QED
        BY <1>6, <1>7, <3>1, <4>2
    <3>2. CASE p \notin Screen(box[o])
      <4>1. p \notin RepaintArea(o, source)
        BY <3>2 DEF RepaintArea
      <4> QED
        BY <1>1, <3>2, <4>1 DEF TypeOK
    <3> QED
      BY <3>1, <3>2
  <2> QED
    BY <2>2
<1> HIDE DEF source, last, shown
<1>9. last_presented_source_serial' = [last_presented_source_serial EXCEPT ![o] = source]
  <2>1. SameGeneration(o) => Larger(last_presented_source_serial[o], source) = source
    BY <1>5, <1>6 DEF Larger, last
  <2> QED
    BY <1>3, <2>1
<1>10. /\ scene'[o] = source /\ presented'[o] = source /\ screen'[o] = shown
       /\ last_scene_buffer'[o] = TRUE /\ last_presented_source_serial'[o] = source
       /\ last_source_box'[o] = box[o]
  BY <1>1, <1>3, <1>9 DEF TypeOK
<1>11. ASSUME NEW q \in Outputs, q # o
       PROVE  /\ scene'[q] = scene[q] /\ presented'[q] = presented[q] /\ screen'[q] = screen[q]
              /\ last_scene_buffer'[q] = last_scene_buffer[q]
              /\ last_presented_source_serial'[q] = last_presented_source_serial[q]
              /\ last_source_box'[q] = last_source_box[q]
              /\ last_source_generation'[q] = last_source_generation[q]
  BY <1>1, <1>3, <1>9, <1>11 DEF TypeOK
<1>12. TypeOK' /\ last_scene_buffer' \in [Outputs -> BOOLEAN]
  <2>1. /\ newest_read' \in 0..published /\ source \in 0..published /\ source \in 0..MaxFrames
        /\ generation \in 0..generation
    BY <1>4, <1>5, <1>6, BoundsAssumption
  <2>2. /\ scene' \in [Outputs -> 0..published] /\ presented' \in [Outputs -> 0..published]
        /\ last_presented_source_serial' \in [Outputs -> 0..MaxFrames]
        /\ last_source_generation' \in [Outputs -> 0..generation]
    BY <1>1, <1>3, <1>9, <2>1 DEF TypeOK
  <2>3. /\ last_source_box' \in [Outputs -> Boxes \cup {NoBox}]
        /\ last_scene_buffer' \in [Outputs -> BOOLEAN]
    BY <1>1, <1>3, <1>6 DEF TypeOK
  <2>4. screen' \in [Outputs -> [Composition -> (0..MaxGenerations) \X (0..MaxFrames)]]
    BY <1>1, <1>3, <1>8 DEF TypeOK
  <2> QED
    BY <1>1, <1>2, <1>4, <2>1, <2>2, <2>3, <2>4 DEF TypeOK, configVars
<1>13. JournalInv'
  BY <1>2 DEF Inv, JournalInv, Covers
<1>14. HeldInv'
  <2> SUFFICES ASSUME NEW q \in Outputs
               PROVE  /\ scene'[q] # 0 => scene'[q] \in complete'
                      /\ presented'[q] # 0 => presented'[q] \in complete'
    BY DEF HeldInv
  <2>1. CASE q = o
    BY <1>5, <1>10, <2>1
  <2>2. CASE q # o
    BY <1>4, <1>11, <2>2 DEF Inv, HeldInv
  <2> QED
    BY <2>1, <2>2
<1>15. ASSUME NEW q \in Outputs, SameGeneration(q)' PROVE Accepted(q)'
  <2>1. CASE q = o
    <3>1. /\ last_scene_buffer'[o] /\ presented'[o] # 0 /\ last_source_box'[o] \in Boxes
          /\ last_presented_source_serial'[o] \in 1..published'
          /\ last_presented_source_serial'[o] <= presented'[o]
      BY <1>2, <1>5, <1>6, <1>10
    <3>2. ASSUME NEW p \in Screen(last_source_box'[o])
          PROVE  screen'[o][p] = <<generation', pictures'[last_presented_source_serial'[o]]
                                                         [At(last_source_box'[o], p)]>>
      BY <1>2, <1>7, <1>10
    <3> QED
      BY <2>1, <3>1, <3>2 DEF Accepted
  <2>2. CASE q # o
    <3>1. Accepted(q)
      BY <1>2, <1>11, <1>15, <2>2 DEF Inv, SameGeneration
    <3>2. newest_read <= newest_read' /\ newest_read' \in Nat
          /\ last_presented_source_serial[q] \in Nat
      BY <1>1, <1>4, <1>6, Numbers
    <3>3. \/ last_presented_source_serial'[q] <= newest_read'
          \/ last_presented_source_serial'[q] <= presented'[q]
      BY <1>6, <1>11, <2>2, <3>1, <3>2 DEF Accepted
    <3> QED
      BY <1>2, <1>11, <2>2, <3>1, <3>3 DEF Accepted
  <2> QED
    BY <2>1, <2>2
<1> QED
  BY <1>12, <1>13, <1>14, <1>15 DEF Inv

LEMMA OutputFrameInv ==
  ASSUME Inv, NEW o \in Outputs, OutputFrame(o)
  PROVE  Inv'
<1>1. CASE FrameWithoutChain(o) \/ FrameBeforeFirst(o)
  <2>1. notified' \in BOOLEAN /\ UNCHANGED <<chainVars, configVars, scene, presented, shownVars>>
    BY <1>1 DEF FrameWithoutChain, FrameBeforeFirst, Called, sceneVars, Inv, TypeOK
  <2> QED
    BY <2>1, SameFrames
<1>2. CASE /\ target
           /\ \E sel \in Selections, software_cursor \in BOOLEAN :
                \/ FrameNotReady(o, sel, cursor_frame_pending[o] \/ software_cursor)
                \/ FrameUndamaged(o, sel, software_cursor)
                \/ \E committed \in BOOLEAN : FramePresented(o, sel, software_cursor, committed)
  <2>1. PICK sel \in Selections, software_cursor \in BOOLEAN :
          \/ FrameNotReady(o, sel, cursor_frame_pending[o] \/ software_cursor)
          \/ FrameUndamaged(o, sel, software_cursor)
          \/ \E committed \in BOOLEAN : FramePresented(o, sel, software_cursor, committed)
    BY <1>2
  <2>2. CASE FrameNotReady(o, sel, cursor_frame_pending[o] \/ software_cursor)
    <3> DEFINE cursor == cursor_frame_pending[o] \/ software_cursor
    <3>1. cursor \in BOOLEAN /\ FrameNotReady(o, sel, cursor)
      BY <2>2
    <3> HIDE DEF cursor
    <3> QED
      BY <1>2, <3>1, FrameNotReadyInv
  <2>3. CASE FrameUndamaged(o, sel, software_cursor)
    BY <1>2, <2>3, FrameUndamagedInv
  <2>4. CASE FramePresented(o, sel, software_cursor, TRUE)
    BY <1>2, <2>4, FrameCommittedInv
  <2>5. CASE FramePresented(o, sel, software_cursor, FALSE)
    BY <1>2, <2>5, FrameDeferredInv
  <2> QED
    BY <2>1, <2>2, <2>3, <2>4, <2>5
<1> QED
  BY <1>1, <1>2 DEF OutputFrame

LEMMA StepInv == Inv /\ [Next]_vars => Inv'
<1> SUFFICES ASSUME Inv, [Next]_vars PROVE Inv'
  OBVIOUS
<1>1. notified \in BOOLEAN
  BY DEF Inv, TypeOK
<1>2. CASE UNCHANGED vars
  BY <1>1, <1>2, SameFrames DEF vars, sceneVars
<1>3. CASE \E report \in Reports : PublishFrame(report)
  BY <1>3, PublishFrameInv
<1>4. CASE \E f \in 1..published : CompleteFrame(f)
  BY <1>4, CompleteFrameInv
<1>5. CASE RunFrameTask
  BY <1>5, SameFrames DEF RunFrameTask, sceneVars
<1>6. ASSUME NEW o \in Outputs,
             \/ RetryFires(o)
             \/ FlipFinishes(o)
             \/ \E cleanup \in BOOLEAN : ScheduleCursorFrame(o, cleanup)
      PROVE  Inv'
  BY <1>1, <1>6, SameFrames DEF RetryFires, FlipFinishes, ScheduleCursorFrame, sceneVars
<1>7. CASE \E o \in Outputs : OutputFrame(o)
  BY <1>7, OutputFrameInv
<1>8. CASE \E on \in SUBSET Outputs :
             \/ \E boxes \in [Outputs -> Boxes] : NewTarget(on, boxes)
             \/ ClearTarget(on)
  BY <1>8, ReconfigureInv
<1> QED
  BY <1>2, <1>3, <1>4, <1>5, <1>6, <1>7, <1>8 DEF Next

LEMMA Invariance == Spec => []Inv
BY InitInv, StepInv, PTL DEF Spec

-----------------------------------------------------------------------------
(* Theorems                                                                     *)

(* An output's screen shows its part of the frame it accounts for, whatever     *)
(* frames it skipped, repaints it put off or damage the journal has forgotten   *)
(* (output_frame, DamageHistory::since).                                        *)
THEOREM ScreenIsTheAcceptedFrame == Spec => []ScreenShowsAcceptedFrame
<1>1. Inv => ScreenShowsAcceptedFrame
  BY DEF Inv, ScreenShowsAcceptedFrame, Accepted
<1> QED
  BY <1>1, Invariance, PTL

(* An output is never offered a frame older than the one it accounts for, so    *)
(* output_frame never takes its branch for such a frame.                        *)
THEOREM FramesOnlyMoveForward == Spec => []SelectionNeverRegresses
<1>1. Inv => SelectionNeverRegresses
  <2> SUFFICES ASSUME Inv, NEW o \in Outputs, target, SameGeneration(o), NEW sel \in Selections
               PROVE  /\ sel.ready => sel.frame >= last_presented_source_serial[o]
                      /\ Reusable(o, sel, TRUE) => presented[o] >= last_presented_source_serial[o]
    BY DEF SelectionNeverRegresses
  <2>1. sel.ready /\ last_presented_source_serial[o] <= sel.frame
    BY NeverOlder
  <2>2. sel.frame \in Nat /\ last_presented_source_serial[o] \in Nat
    BY SelectionIs, Numbers DEF Inv
  <2> QED
    BY <2>1, <2>2 DEF Reusable
<1> QED
  BY <1>1, Invariance, PTL

=============================================================================
