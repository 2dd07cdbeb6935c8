------------------------------ MODULE LevelProofs ------------------------------
(***************************************************************************)
(* What is proved of those who walk on a level: doors (Doors), guards and  *)
(* their cylinders (Guards), the floors they stand on (Floors) and the     *)
(* surfaces that stop them (Faces); and of what a frame draws of it        *)
(* (Frame).                                                                *)
(***************************************************************************)
EXTENDS Doors, Guards, Floors, Faces, Frame, FiniteSetTheorems, SequenceTheorems, WellFoundedInduction, TLAPS

-------------------------------------------------------------------------------
(* Numbers.                                                                *)

(* A set of natural numbers has a least element: the least-number principle,*)
(* in the place of an induction.                                            *)
LEMMA NatMin == ASSUME NEW S \in SUBSET Nat, S # {} PROVE \E m \in S : \A x \in S : m <= x
<1> DEFINE R == OpToRel(<, Nat)
<1>1. IsWellFoundedOn(R, Nat) BY NatLessThanWellFounded
<1>2. \E m \in S : \A y \in S : ~ (<<y, m>> \in R)
  <2> HIDE DEF R
  <2> QED BY <1>1, WFMin
<1>3. \A x, y \in Nat : <<x, y>> \in R <=> x < y BY DEF OpToRel
<1> HIDE DEF R
<1> PICK m \in S : \A y \in S : ~ (<<y, m>> \in R) BY <1>2
<1>4. \A y \in S : m <= y
  <2> TAKE y \in S
  <2>1. ~ (<<y, m>> \in R) OBVIOUS
  <2>2. y \in Nat /\ m \in Nat OBVIOUS
  <2> QED BY <2>1, <2>2, <1>3
<1> QED BY <1>4

(* Min() of natural numbers. *)
LEMMA MinOfNats ==
  ASSUME NEW S \in SUBSET Nat, S # {}
  PROVE  Min(S) \in S /\ \A x \in S : Min(S) <= x
BY NatMin DEF Min

(* Min() and Max() of two numbers. *)
LEMMA MinOfTwo ==
  ASSUME NEW a \in Int, NEW b \in Int PROVE Min({a, b}) = IF a <= b THEN a ELSE b
<1>1. \E x \in {a, b} : \A y \in {a, b} : x <= y OBVIOUS
<1> QED BY <1>1 DEF Min

LEMMA MaxOfTwo ==
  ASSUME NEW a \in Int, NEW b \in Int PROVE Max({a, b}) = IF a <= b THEN b ELSE a
<1>1. \E x \in {a, b} : \A y \in {a, b} : x >= y OBVIOUS
<1> QED BY <1>1 DEF Max

(* AbsVal() and Sign() without a product of variables. *)
LEMMA AbsIs == ASSUME NEW x \in Int PROVE AbsVal(x) = IF x < 0 THEN -x ELSE x
BY DEF AbsVal, Sign

LEMMA InSlabIs ==
  ASSUME NEW x \in Int, NEW d \in Int
  PROVE  InSlab(x, d) <=> x - d < HalfT /\ d - x < HalfT
BY AbsIs, DoorsAssumption DEF InSlab

-------------------------------------------------------------------------------
(* Doors.                                                                  *)

(* Solid slabs of others are all ahead of x, or all behind it, by at least  *)
(* half a slab; the ray stops at the nearest of those ahead.                *)
LEMMA RayBlockStops ==
  ASSUME NEW x \in Passage, NEW s \in {-1, 1}, ~HitDoor(x)
  PROVE  /\ RayBlock(x, s) \in Nat
         /\ \A d \in Door : Solid(d) =>
              \/ (d - x) * s <= -HalfT
              \/ RayBlock(x, s) <= (d - x) * s - HalfT
         /\ Ahead(x, s) = {} => RayBlock(x, s) = PassageEnd + Skin
<1> DEFINE gaps == {(d - x) * s - HalfT : d \in Ahead(x, s)}
<1>1. /\ x \in Int /\ PassageEnd \in Nat /\ Skin \in Nat /\ HalfT \in Nat /\ HalfT > 0
      /\ Door \subseteq Int
  BY DoorsAssumption, DoorsApart DEF Passage
<1>2. \A d \in Ahead(x, s) : (d - x) * s - HalfT \in Nat
  <2> TAKE d \in Ahead(x, s)
  <2>1. d \in Door /\ Solid(d) /\ (d - x) * s > -HalfT BY DEF Ahead
  <2>2. ~InSlab(x, d) BY <2>1 DEF HitDoor
  <2>3. d \in Int /\ ~(x - d < HalfT /\ d - x < HalfT) BY <2>1, <2>2, <1>1, InSlabIs
  <2>4. CASE s = 1
    <3>1. (d - x) * s = d - x BY <2>3, <2>4, <1>1
    <3> QED BY <2>1, <2>3, <3>1, <1>1
  <2>5. CASE s = -1
    <3>1. (d - x) * s = x - d BY <2>3, <2>5, <1>1
    <3> QED BY <2>1, <2>3, <3>1, <1>1
  <2> QED BY <2>4, <2>5
<1>3. CASE Ahead(x, s) = {}
  <2>1. RayBlock(x, s) = PassageEnd + Skin BY <1>3 DEF RayBlock
  <2>2. \A d \in Door : Solid(d) => (d - x) * s <= -HalfT
    <3> TAKE d \in Door
    <3>1. Solid(d) => ~((d - x) * s > -HalfT) BY <1>3 DEF Ahead
    <3>2. (d - x) * s \in Int BY <1>1
    <3> QED BY <3>1, <3>2, <1>1
  <2> QED BY <2>1, <2>2, <1>1
<1>4. CASE Ahead(x, s) # {}
  <2>1. gaps \in SUBSET Nat /\ gaps # {} BY <1>2, <1>4
  <2> DEFINE m == Min(gaps)
  <2>2. m \in gaps /\ \A g \in gaps : m <= g
    <3> HIDE DEF gaps
    <3> QED BY <2>1, MinOfNats
  <2>3. m \in Nat BY <2>1, <2>2
  <2>4. RayBlock(x, s) = Max({0, m}) BY <1>4 DEF RayBlock
  <2> HIDE DEF m
  <2>5. RayBlock(x, s) = m BY <2>3, <2>4, MaxOfTwo
  <2>6. \A d \in Door : Solid(d) => (d - x) * s <= -HalfT \/ m <= (d - x) * s - HalfT
    <3> TAKE d \in Door
    <3>1. (d - x) * s \in Int BY <1>1
    <3>2. Solid(d) /\ (d - x) * s > -HalfT => d \in Ahead(x, s) BY DEF Ahead
    <3>3. d \in Ahead(x, s) => (d - x) * s - HalfT \in gaps OBVIOUS
    <3> QED BY <3>1, <3>2, <3>3, <2>2, <1>1
  <2> QED BY <2>3, <2>5, <2>6, <1>4
<1> QED BY <1>3, <1>4

(* A step ends in the passage, and beside each solid slab it began beside,  *)
(* on the side it began on.                                                 *)
LEMMA ClipHolds ==
  ASSUME NEW x \in Passage, NEW want \in Passage, AbsVal(want - x) <= Longest
  PROVE  /\ Clip(x, want) \in Passage
         /\ \A d \in Door : Solid(d) /\ ~InSlab(x, d) =>
              ~InSlab(Clip(x, want), d) /\ Sign(Clip(x, want) - d) = Sign(x - d)
<1> DEFINE y == Clip(x, want)
           s == Sign(want - x)
           gap == RayBlock(x, s)
<1>1. /\ x \in 0 .. PassageEnd /\ want \in 0 .. PassageEnd /\ PassageEnd \in Nat
      /\ Skin \in Nat /\ HalfT \in Nat /\ HalfT > 0 /\ Longest \in Nat /\ Door \subseteq Int
  BY DoorsAssumption, DoorsApart DEF Passage
<1>2. want - x <= Longest /\ x - want <= Longest BY AbsIs, <1>1
<1>3. CASE HitDoor(x)
  <2>1. y = want BY <1>3 DEF Clip
  <2>2. PICK e \in Door : Solid(e) /\ InSlab(x, e) BY <1>3 DEF HitDoor
  <2>3. x - e < HalfT /\ e - x < HalfT BY <2>2, <1>1, InSlabIs
  <2>4. ASSUME NEW d \in Door, ~InSlab(x, d)
        PROVE  ~InSlab(y, d) /\ Sign(y - d) = Sign(x - d)
    <3>1. d # e BY <2>2, <2>4
    <3>2. d - e >= Longest + 2 * HalfT \/ e - d >= Longest + 2 * HalfT BY <3>1, <1>1, DoorsApart
    <3>3. ~(want - d < HalfT /\ d - want < HalfT) /\ Sign(want - d) = Sign(x - d)
      BY <3>2, <2>3, <1>1, <1>2 DEF Sign
    <3>4. want \in Int /\ d \in Int BY <1>1
    <3> QED BY <3>3, <3>4, <2>1, InSlabIs
  <2> QED BY <2>1, <2>4
<1>4. CASE ~HitDoor(x) /\ (~Legal(want, HitDoor(x)) \/ want = x)
  <2>1. ~HitDoor(x) /\ want = x => s = 0 BY <1>1 DEF Sign
  <2>2. y = x BY <1>4, <2>1 DEF Clip
  <2> QED BY <2>2
<1>5. CASE ~HitDoor(x) /\ Legal(want, HitDoor(x)) /\ want # x
  <2>1. s \in {-1, 1} /\ s # 0 /\ AbsVal(want - x) = (want - x) * s /\ (want - x) * s > 0
    BY <1>5, <1>1 DEF Sign, AbsVal
  <2> HIDE DEF s
  <2>2. /\ gap \in Nat
        /\ \A d \in Door : Solid(d) => (d - x) * s <= -HalfT \/ gap <= (d - x) * s - HalfT
        /\ Ahead(x, s) = {} => gap = PassageEnd + Skin
    BY <2>1, <1>5, RayBlockStops
  <2>3. y = IF gap < AbsVal(want - x) + Skin THEN x + s * Max({0, gap - Skin}) ELSE want
    BY <1>5, <2>1 DEF Clip, s
  <2> HIDE DEF gap, y
  <2>4. Max({0, gap - Skin}) = IF gap >= Skin THEN gap - Skin ELSE 0
    BY <2>2, <1>1, MaxOfTwo
  <2>5. \A d \in Door : Solid(d) /\ ~InSlab(x, d) => d \in Int /\ ~(x - d < HalfT /\ d - x < HalfT)
    BY <1>1, InSlabIs
  <2>6. \A d \in Door : Solid(d) => ~InSlab(want, d) BY <1>5 DEF Legal, HitDoor
  <2>7. \A d \in Door : Solid(d) => ~(want - d < HalfT /\ d - want < HalfT)
    BY <2>6, <1>1, InSlabIs
  <2>8. CASE s = 1
    <3>1. \A d \in Door : Solid(d) => d - x <= -HalfT \/ gap <= d - x - HalfT
      BY <2>2, <2>8, <1>1
    <3>2. want - x > 0 /\ y = IF gap < want - x + Skin
                              THEN IF gap >= Skin THEN x + gap - Skin ELSE x ELSE want
      BY <2>1, <2>2, <2>3, <2>4, <2>8, <1>1
    <3>3. y \in 0 .. PassageEnd BY <3>2, <2>2, <1>1
    <3>4. \A d \in Door : Solid(d) /\ ~InSlab(x, d) =>
            ~(y - d < HalfT /\ d - y < HalfT) /\ Sign(y - d) = Sign(x - d)
      BY <3>1, <3>2, <2>2, <2>5, <1>1 DEF Sign
    <3>5. y \in Int BY <3>3
    <3> QED BY <3>3, <3>4, <3>5, <1>1, InSlabIs DEF y, Passage
  <2>9. CASE s = -1
    <3>1. \A d \in Door : Solid(d) => x - d <= -HalfT \/ gap <= x - d - HalfT
      BY <2>2, <2>9, <1>1
    <3>2. x - want > 0 /\ y = IF gap < x - want + Skin
                              THEN IF gap >= Skin THEN x - gap + Skin ELSE x ELSE want
      BY <2>1, <2>2, <2>3, <2>4, <2>9, <1>1
    <3>3. y \in 0 .. PassageEnd BY <3>2, <2>2, <1>1
    <3>4. \A d \in Door : Solid(d) /\ ~InSlab(x, d) =>
            ~(y - d < HalfT /\ d - y < HalfT) /\ Sign(y - d) = Sign(x - d)
      BY <3>1, <3>2, <2>2, <2>5, <1>1 DEF Sign
    <3>5. y \in Int BY <3>3
    <3> QED BY <3>3, <3>4, <3>5, <1>1, InSlabIs DEF y, Passage
  <2> QED BY <2>1, <2>8, <2>9
<1> QED BY <1>3, <1>4, <1>5
(* The tick of a leaf keeps it in its swing; one that is shut stays shut.   *)
LEMMA SwungIs ==
  ASSUME DoorsTypeOK, NEW d \in Door
  PROVE  /\ AfterSwing[d] \in 0 .. OpenTicks
         /\ Solid(d) => AfterSwing[d] = 0
<1>1. frac[d] \in 0 .. OpenTicks /\ OpenTicks \in Nat BY DoorsAssumption DEF DoorsTypeOK
<1>2. Min({frac[d] + 1, OpenTicks}) = IF frac[d] + 1 <= OpenTicks THEN frac[d] + 1 ELSE OpenTicks
  BY <1>1, MinOfTwo
<1>3. Max({frac[d] - 1, 0}) = IF frac[d] - 1 <= 0 THEN 0 ELSE frac[d] - 1
  BY <1>1, MaxOfTwo
<1> QED BY <1>1, <1>2, <1>3 DEF AfterSwing, Swung, Solid

(* What a use of a door leaves. *)
LEMMA UseKeepsTypes ==
  ASSUME DoorsTypeOK, NEW f \in [Door -> 0 .. OpenTicks], NEW d \in Door, NEW x, UseFrom(f, d, x)
  PROVE  /\ open' \in [Door -> BOOLEAN] /\ frac' \in [Door -> 0 .. OpenTicks]
         /\ side' \in [Door -> {-1, 0, 1}]
         /\ \A e \in Door : e # d => open'[e] = open[e]
         /\ open'[d] = ~open[d]
<1>1. 0 \in 0 .. OpenTicks BY DoorsAssumption
<1>2. frac' \in [Door -> 0 .. OpenTicks] BY <1>1 DEF UseFrom
<1>3. side' \in [Door -> {-1, 0, 1}] BY DEF UseFrom, DoorsTypeOK
<1> QED BY <1>2, <1>3 DEF UseFrom, DoorsTypeOK

(* Where the chaser steps to: at most a stride nearer the player. *)
ChasesTo == at[Guard] + ToPlayer * Min({Stride, Gap})

LEMMA ChasesToIs ==
  ASSUME DoorsTypeOK, Gap >= KeepAway
  PROVE  /\ at[Guard] \in 0 .. PassageEnd /\ ChasesTo \in 0 .. PassageEnd
         /\ \/ ToPlayer = 1 /\ ChasesTo - at[Guard] \in 1 .. Stride
            \/ ToPlayer = -1 /\ at[Guard] - ChasesTo \in 1 .. Stride
<1> DEFINE g == at[Guard]
           p == at[1]
           step == Min({Stride, Gap})
<1>1. g \in 0 .. PassageEnd /\ p \in 0 .. PassageEnd
  BY DoorsAssumption DEF DoorsTypeOK, Guard, Passage
<1>2. PassageEnd \in Nat /\ Stride \in Nat /\ Stride > 0 /\ KeepAway \in Nat /\ KeepAway > 0
  BY DoorsAssumption
<1> HIDE DEF g, p
<1>3. Gap = IF p - g < 0 THEN g - p ELSE p - g BY <1>1, AbsIs DEF Gap, g, p
<1>4. step = IF Stride <= Gap THEN Stride ELSE Gap
  <2>1. Gap \in Int BY <1>1, <1>3
  <2> QED BY <2>1, <1>2, MinOfTwo
<1>5. ToPlayer = IF p > g THEN 1 ELSE IF p < g THEN -1 ELSE 0
  BY <1>1 DEF ToPlayer, Sign, g, p
<1>6. ChasesTo = g + ToPlayer * step BY DEF ChasesTo, g
<1> HIDE DEF step
<1>7. CASE p > g
  <2>1. ToPlayer = 1 /\ step \in 1 .. Stride /\ step <= p - g BY <1>7, <1>1, <1>2, <1>3, <1>4, <1>5
  <2>2. ChasesTo = g + step BY <2>1, <1>1, <1>6
  <2> QED BY <2>1, <2>2, <1>1, <1>2 DEF g
<1>8. CASE p < g
  <2>1. ToPlayer = -1 /\ step \in 1 .. Stride /\ step <= g - p BY <1>8, <1>1, <1>2, <1>3, <1>4, <1>5
  <2>2. ChasesTo = g - step BY <2>1, <1>1, <1>6
  <2> QED BY <2>1, <2>2, <1>1, <1>2 DEF g
<1>9. CASE p = g BY <1>9, <1>1, <1>2, <1>3
<1> QED BY <1>1, <1>7, <1>8, <1>9

(* What the guard's tick can be. *)
LEMMA GuardDoes ==
  ASSUME DoorsTypeOK, DoorsAndGuard
  PROVE  \/ GuardStands
         \/ /\ Gap >= KeepAway
            /\ GuardMoves(ChasesTo) /\ frac' = AfterSwing /\ UNCHANGED <<open, side>>
            /\ ~Blocked(ChasesTo, AfterSwing)
         \/ /\ Gap >= KeepAway
            /\ \E d \in Door :
                 /\ ~open[d]
                 /\ UseFrom(AfterSwing, d, at[Guard])
                 /\ \/ UNCHANGED at
                    \/ /\ GuardMoves(ChasesTo)
                       /\ ~ \E e \in Door \ {d} :
                              ~open[e] /\ AfterSwing[e] = 0 /\ InSlab(ChasesTo, e)
<1>1. Gap \in Int /\ KeepAway \in Int
  <2>1. at[Guard] \in Int /\ at[1] \in Int
    BY DoorsAssumption DEF DoorsTypeOK, Guard, Passage
  <2> QED BY <2>1, AbsIs, DoorsAssumption DEF Gap
<1>2. CASE Sees(AfterSwing) \/ Gap < KeepAway BY <1>2 DEF DoorsAndGuard
<1>3. CASE ~(Sees(AfterSwing) \/ Gap < KeepAway)
  <2>1. Gap >= KeepAway BY <1>1, <1>3
  <2>2. ChaseStep(at[Guard], ChasesTo) BY <1>3 DEF DoorsAndGuard, ChasesTo
  <2>3. CASE ~Blocked(ChasesTo, AfterSwing) BY <2>1, <2>2, <2>3 DEF ChaseStep
  <2>4. CASE Blocked(ChasesTo, AfterSwing) /\ Unlatch(at[Guard], ToPlayer) = {}
    BY <2>2, <2>4 DEF ChaseStep
  <2>5. CASE Blocked(ChasesTo, AfterSwing) /\ Unlatch(at[Guard], ToPlayer) # {}
    <3>1. PICK d \in Unlatch(at[Guard], ToPlayer) :
            /\ UseFrom(AfterSwing, d, at[Guard])
            /\ IF \E e \in Door \ {d} : ~open[e] /\ AfterSwing[e] = 0 /\ InSlab(ChasesTo, e)
               THEN UNCHANGED at ELSE GuardMoves(ChasesTo)
      BY <2>2, <2>5 DEF ChaseStep
    <3>2. d \in Door /\ ~open[d] BY <3>1 DEF Unlatch, FindUseDoor
    <3>3. \/ UNCHANGED at
          \/ /\ GuardMoves(ChasesTo)
             /\ ~ \E e \in Door \ {d} : ~open[e] /\ AfterSwing[e] = 0 /\ InSlab(ChasesTo, e)
      BY <3>1
    <3> QED BY <2>1, <3>1, <3>2, <3>3
  <2> QED BY <2>3, <2>4, <2>5
<1> QED BY <1>2, <1>3

(* What a player's tick can be. *)
LEMMA UserDoes ==
  ASSUME DoorsTypeOK, NEW p \in Users, PlayerTick(p)
  PROVE  \E want \in Passage :
           /\ AbsVal(want - at[p]) <= Longest
           /\ at' = [at EXCEPT ![p] = Clip(at[p], want)]
           /\ \/ UNCHANGED <<open, frac, side>>
              \/ \E d \in Door : UseFrom(frac, d, Clip(at[p], want))
<1>1. PICK want \in Wants(p) : Walk(p, want) \/ \E look \in {-1, 1} : WalkAndUse(p, want, look)
  BY DEF PlayerTick
<1>2. want \in Passage /\ AbsVal(want - at[p]) <= Longest BY DEF Wants
<1>3. CASE Walk(p, want) BY <1>2, <1>3 DEF Walk
<1>4. ASSUME NEW look \in {-1, 1}, WalkAndUse(p, want, look)
      PROVE  /\ at' = [at EXCEPT ![p] = Clip(at[p], want)]
             /\ \E d \in Door : UseFrom(frac, d, Clip(at[p], want))
  BY <1>4 DEF WalkAndUse, FindUseDoor
<1> QED BY <1>1, <1>2, <1>3, <1>4

-------------------------------------------------------------------------------
(* The variables keep their types: actors stay in the passage and leaves in *)
(* their swing, over every step and use.                                    *)
THEOREM DoorsTypes == DoorsSpec => []DoorsTypeOK
<1>1. DoorsInit => DoorsTypeOK
  <2>1. 0 \in 0 .. OpenTicks BY DoorsAssumption
  <2> QED BY <2>1, DoorsAssumption DEF DoorsInit, DoorsTypeOK, Guard, Passage
<1>2. DoorsTypeOK /\ [DoorsNext]_doorVars => DoorsTypeOK'
  <2> SUFFICES ASSUME DoorsTypeOK, [DoorsNext]_doorVars PROVE DoorsTypeOK' OBVIOUS
  <2>1. AfterSwing \in [Door -> 0 .. OpenTicks] BY SwungIs DEF AfterSwing
  <2>2. CASE DoorsAndGuard
    <3>1. turn' \in Users \cup {0} BY <2>2, DoorsAssumption DEF DoorsAndGuard
    <3>2. CASE GuardStands BY <3>1, <3>2, <2>1 DEF GuardStands, DoorsTypeOK
    <3>3. CASE ~GuardStands
      <4>1. Gap >= KeepAway BY <2>2, <3>3, GuardDoes
      <4>2. GuardMoves(ChasesTo) \/ UNCHANGED at BY <2>2, <3>3, GuardDoes
      <4>3. at' \in [Users \cup {Guard} -> Passage]
        <5>1. ChasesTo \in Passage BY <4>1, ChasesToIs DEF Passage
        <5> QED BY <4>2, <5>1 DEF GuardMoves, DoorsTypeOK
      <4>4. \/ frac' = AfterSwing /\ UNCHANGED <<open, side>>
            \/ \E d \in Door : UseFrom(AfterSwing, d, at[Guard])
        BY <2>2, <3>3, GuardDoes
      <4>5. CASE frac' = AfterSwing /\ UNCHANGED <<open, side>>
        BY <3>1, <4>3, <4>5, <2>1 DEF DoorsTypeOK
      <4>6. ASSUME NEW d \in Door, UseFrom(AfterSwing, d, at[Guard]) PROVE DoorsTypeOK'
        BY <3>1, <4>3, <4>6, <2>1, UseKeepsTypes DEF DoorsTypeOK
      <4> QED BY <4>4, <4>5, <4>6
    <3> QED BY <3>2, <3>3
  <2>3. ASSUME NEW p \in Users, PlayerTick(p) PROVE DoorsTypeOK'
    <3>1. turn' \in Users \cup {0} BY <2>3 DEF PlayerTick, Walk, WalkAndUse, NextUser
    <3>2. PICK want \in Passage :
            /\ AbsVal(want - at[p]) <= Longest
            /\ at' = [at EXCEPT ![p] = Clip(at[p], want)]
            /\ \/ UNCHANGED <<open, frac, side>>
               \/ \E d \in Door : UseFrom(frac, d, Clip(at[p], want))
      BY <2>3, UserDoes
    <3>3. at[p] \in Passage BY DEF DoorsTypeOK
    <3>4. Clip(at[p], want) \in Passage BY <3>2, <3>3, ClipHolds
    <3>5. at' \in [Users \cup {Guard} -> Passage] BY <3>2, <3>4 DEF DoorsTypeOK
    <3>6. CASE UNCHANGED <<open, frac, side>> BY <3>1, <3>5, <3>6 DEF DoorsTypeOK
    <3>7. ASSUME NEW d \in Door, UseFrom(frac, d, Clip(at[p], want)) PROVE DoorsTypeOK'
      <4>1. frac \in [Door -> 0 .. OpenTicks] BY DEF DoorsTypeOK
      <4> QED BY <3>1, <3>5, <3>7, <4>1, UseKeepsTypes DEF DoorsTypeOK
    <3> QED BY <3>2, <3>6, <3>7
  <2>4. CASE UNCHANGED doorVars BY <2>4 DEF doorVars, DoorsTypeOK
  <2> QED BY <2>2, <2>3, <2>4 DEF DoorsNext
<1> QED BY <1>1, <1>2, PTL DEF DoorsSpec
-------------------------------------------------------------------------------
(* Nobody gets past a door that is shut, however long the step, nor into    *)
(* its slab.                                                                *)
LEMMA GuardHoldsShut ==
  ASSUME DoorsTypeOK, DoorsAndGuard, NEW d \in Door, Solid(d), ~open'[d],
         NEW a \in Users \cup {Guard}
  PROVE  ~Passes(a, d)
<1>1. CASE UNCHANGED at BY <1>1 DEF Passes
<1>2. CASE at' # at
  <2>1. AfterSwing[d] = 0 /\ ~open[d] BY SwungIs DEF Solid
  <2>2. /\ Gap >= KeepAway /\ GuardMoves(ChasesTo)
        /\ ~InSlab(ChasesTo, d)
    <3>1. ~GuardStands BY <1>2 DEF GuardStands
    <3>2. CASE /\ GuardMoves(ChasesTo) /\ Gap >= KeepAway
               /\ ~Blocked(ChasesTo, AfterSwing)
      BY <3>2, <2>1 DEF Blocked
    <3>3. ASSUME NEW e \in Door, ~open[e], UseFrom(AfterSwing, e, at[Guard]), Gap >= KeepAway,
                 GuardMoves(ChasesTo),
                 ~ \E i \in Door \ {e} : ~open[i] /\ AfterSwing[i] = 0 /\ InSlab(ChasesTo, i)
          PROVE  GuardMoves(ChasesTo) /\ Gap >= KeepAway /\ ~InSlab(ChasesTo, d)
      <4>1. AfterSwing \in [Door -> 0 .. OpenTicks] BY SwungIs DEF AfterSwing
      <4>2. open'[e] BY <3>3, <4>1, UseKeepsTypes
      <4> QED BY <3>3, <4>2, <2>1
    <3> QED BY <1>2, <3>1, <3>2, <3>3, GuardDoes
  <2>3. CASE a # Guard
    <3>1. at'[a] = at[a] BY <2>2, <2>3 DEF GuardMoves, DoorsTypeOK
    <3> QED BY <3>1 DEF Passes
  <2>4. CASE a = Guard
    <3>1. at'[a] = ChasesTo BY <2>2, <2>4 DEF GuardMoves, DoorsTypeOK
    <3>2. /\ at[a] \in 0 .. PassageEnd /\ ChasesTo \in 0 .. PassageEnd
          /\ \/ ChasesTo - at[a] \in 1 .. Stride
             \/ at[a] - ChasesTo \in 1 .. Stride
      BY <2>2, <2>4, ChasesToIs
    <3>3. /\ PassageEnd \in Nat /\ Stride \in Nat /\ HalfT \in Nat /\ Stride < 2 * HalfT /\ HalfT > 0
          /\ d \in Int
      BY DoorsAssumption, DoorsApart
    <3>4. ~(ChasesTo - d < HalfT /\ d - ChasesTo < HalfT) BY <2>2, <3>2, <3>3, InSlabIs
    <3>5. ~InSlab(at[a], d) => Sign(ChasesTo - d) = Sign(at[a] - d)
      <4>1. ASSUME ~InSlab(at[a], d) PROVE ~(at[a] - d < HalfT /\ d - at[a] < HalfT)
        BY <4>1, <3>2, <3>3, InSlabIs
      <4> QED BY <4>1, <3>2, <3>3, <3>4 DEF Sign
    <3> QED BY <2>2, <3>1, <3>5 DEF Passes
  <2> QED BY <2>3, <2>4
<1> QED BY <1>1, <1>2

LEMMA UserHoldsShut ==
  ASSUME DoorsTypeOK, NEW p \in Users, PlayerTick(p), NEW d \in Door, Solid(d),
         NEW a \in Users \cup {Guard}
  PROVE  ~Passes(a, d)
<1>1. PICK want \in Passage :
        AbsVal(want - at[p]) <= Longest /\ at' = [at EXCEPT ![p] = Clip(at[p], want)]
  BY UserDoes
<1>2. CASE a # p
  <2>1. at'[a] = at[a] BY <1>1, <1>2 DEF DoorsTypeOK
  <2> QED BY <2>1 DEF Passes
<1>3. CASE a = p
  <2>1. at'[a] = Clip(at[a], want) /\ at[a] \in Passage BY <1>1, <1>3 DEF DoorsTypeOK
  <2>2. ~InSlab(at[a], d) =>
          ~InSlab(Clip(at[a], want), d) /\ Sign(Clip(at[a], want) - d) = Sign(at[a] - d)
    BY <1>1, <1>3, <2>1, ClipHolds
  <2> QED BY <2>1, <2>2 DEF Passes
<1> QED BY <1>2, <1>3

(* A shut door keeps both sides apart, whoever steps, and however far.      *)
THEOREM ShutDoorsHold == DoorsSpec => NoPassShut
<1>1. DoorsTypeOK /\ [DoorsNext]_doorVars => [HoldsShut]_doorVars
  <2> SUFFICES ASSUME DoorsTypeOK, DoorsNext PROVE HoldsShut BY DEF doorVars
  <2> SUFFICES ASSUME NEW d \in Door, Solid(d), ~open'[d], NEW a \in Users \cup {Guard}
               PROVE  ~Passes(a, d)
    BY DEF HoldsShut
  <2>1. CASE DoorsAndGuard BY <2>1, GuardHoldsShut
  <2>2. ASSUME NEW p \in Users, PlayerTick(p) PROVE ~Passes(a, d) BY <2>2, UserHoldsShut
  <2> QED BY <2>1, <2>2 DEF DoorsNext
<1> QED BY <1>1, DoorsTypes, PTL DEF DoorsSpec, NoPassShut

-------------------------------------------------------------------------------
(* A chaser that no slab has shut on always moves.                          *)

(* The door in its way is the one, and the only one, its A button uses.     *)
LEMMA InWayIsUsed ==
  ASSUME DoorsTypeOK, Chased, ~Blocked(at[Guard], AfterSwing),
         NEW d \in Door, ~open[d], AfterSwing[d] = 0, InSlab(ChasesTo, d)
  PROVE  /\ Unlatch(at[Guard], ToPlayer) = {d}
         /\ ~ \E e \in Door \ {d} : ~open[e] /\ AfterSwing[e] = 0 /\ InSlab(ChasesTo, e)
<1> DEFINE g == at[Guard]
           to == ChasesTo
<1>1. /\ {PassageEnd, HalfT, Stride, UseRange, Longest} \subseteq Nat /\ Door \subseteq Int
      /\ HalfT > 0 /\ Stride <= Longest /\ Stride < 2 * HalfT /\ HalfT + Stride <= UseRange
  BY DoorsAssumption, DoorsApart
<1>2. /\ g \in 0 .. PassageEnd /\ to \in 0 .. PassageEnd
      /\ \/ ToPlayer = 1 /\ to - g \in 1 .. Stride
         \/ ToPlayer = -1 /\ g - to \in 1 .. Stride
  BY ChasesToIs DEF Chased
<1>3. ~InSlab(g, d) BY DEF Blocked
<1>4. ~(g - d < HalfT /\ d - g < HalfT) /\ to - d < HalfT /\ d - to < HalfT
  BY <1>1, <1>2, <1>3, InSlabIs
<1> HIDE DEF g, to
(* d is ahead, and its middle less than half a slab and a stride away. *)
<1>5. \/ ToPlayer = 1 /\ d - g >= HalfT /\ d - g < HalfT + Stride
      \/ ToPlayer = -1 /\ g - d >= HalfT /\ g - d < HalfT + Stride
  BY <1>1, <1>2, <1>4
<1>6. AbsVal(d - g) <= UseRange /\ (d - g) * ToPlayer >= 0
  <2>1. d - g \in Int BY <1>1, <1>2
  <2>2. AbsVal(d - g) = IF d - g < 0 THEN -(d - g) ELSE d - g BY <2>1, AbsIs
  <2> QED BY <1>1, <1>2, <1>5, <2>2
<1>7. ASSUME NEW e \in Door, e # d, (e - g) * ToPlayer >= 0
      PROVE  AbsVal(d - g) < AbsVal(e - g)
  <2>1. e \in Int /\ d \in Int BY <1>1
  <2>2. e - d >= Longest + 2 * HalfT \/ d - e >= Longest + 2 * HalfT BY <1>7, <2>1, DoorsApart
  <2>3. /\ AbsVal(d - g) = IF d - g < 0 THEN -(d - g) ELSE d - g
        /\ AbsVal(e - g) = IF e - g < 0 THEN -(e - g) ELSE e - g
    BY <1>1, <1>2, AbsIs
  <2>4. CASE ToPlayer = 1
    <3>1. e - g >= 0 BY <1>7, <2>1, <2>4, <1>2
    <3> QED BY <3>1, <2>1, <2>2, <2>3, <2>4, <1>1, <1>2, <1>5
  <2>5. CASE ToPlayer = -1
    <3>1. g - e >= 0 BY <1>7, <2>1, <2>5, <1>2
    <3> QED BY <3>1, <2>1, <2>2, <2>3, <2>5, <1>1, <1>2, <1>5
  <2> QED BY <1>5, <2>4, <2>5
<1>8. FindUseDoor(g, ToPlayer) = {d}
  <2> DEFINE near == {e \in Door : AbsVal(e - g) <= UseRange /\ (e - g) * ToPlayer >= 0}
  <2>1. d \in near BY <1>6
  <2>2. \A e \in near : e # d => AbsVal(d - g) < AbsVal(e - g) BY <1>7
  <2>3. \A e \in near : AbsVal(e - g) \in Int
    <3>1. \A e \in near : e - g \in Int BY <1>1, <1>2
    <3> QED BY <3>1, AbsIs
  <2>4. AbsVal(d - g) \in Int BY <2>1, <2>3
  <2>5. FindUseDoor(g, ToPlayer) = {e \in near : \A i \in near : AbsVal(e - g) <= AbsVal(i - g)}
    BY DEF FindUseDoor
  <2> HIDE DEF near
  <2> QED BY <2>1, <2>2, <2>3, <2>4, <2>5
<1>9. Unlatch(g, ToPlayer) = {d} BY <1>8 DEF Unlatch
<1>10. ASSUME NEW e \in Door \ {d}, InSlab(to, e) PROVE FALSE
  <2>1. to - e < HalfT /\ e - to < HalfT /\ e \in Int BY <1>10, <1>1, <1>2, InSlabIs
  <2>2. e - d >= Longest + 2 * HalfT \/ d - e >= Longest + 2 * HalfT BY <2>1, <1>1, DoorsApart
  <2> QED BY <2>1, <2>2, <1>1, <1>2, <1>4
<1> QED BY <1>9, <1>10 DEF g, to

LEMMA ChaserAdvances ==
  ASSUME DoorsTypeOK, DoorsAndGuard, Chased, ~Blocked(at[Guard], AfterSwing)
  PROVE  at'[Guard] # at[Guard]
<1>1. ChaseStep(at[Guard], ChasesTo)
  <2>1. ~(Sees(AfterSwing) \/ Gap < KeepAway)
    <3>1. at[Guard] \in Int /\ at[1] \in Int
      BY DoorsAssumption DEF DoorsTypeOK, Guard, Passage
    <3>2. Gap \in Int /\ KeepAway \in Int BY <3>1, AbsIs, DoorsAssumption DEF Gap
    <3> QED BY <3>2 DEF Chased
  <2> QED BY <2>1 DEF DoorsAndGuard, ChasesTo
<1>2. GuardMoves(ChasesTo)
  <2>1. CASE ~Blocked(ChasesTo, AfterSwing) BY <1>1, <2>1 DEF ChaseStep
  <2>2. CASE Blocked(ChasesTo, AfterSwing)
    <3>1. PICK d \in Door : ~open[d] /\ AfterSwing[d] = 0 /\ InSlab(ChasesTo, d)
      BY <2>2 DEF Blocked
    <3>2. /\ Unlatch(at[Guard], ToPlayer) = {d}
          /\ ~ \E e \in Door \ {d} : ~open[e] /\ AfterSwing[e] = 0 /\ InSlab(ChasesTo, e)
      BY <3>1, InWayIsUsed
    <3> QED BY <1>1, <2>2, <3>2 DEF ChaseStep
  <2> QED BY <2>1, <2>2
<1>3. at'[Guard] = ChasesTo BY <1>2 DEF GuardMoves, DoorsTypeOK
<1>4. ChasesTo # at[Guard] BY ChasesToIs, DoorsAssumption DEF Chased
<1> QED BY <1>3, <1>4

(* A door is never in the way of a chaser for more than the tick in which   *)
(* it is used: whoever chases and is in no shut slab moves.                 *)
THEOREM ChasersAdvance == DoorsSpec => ChaseAdvances
<1>1. DoorsTypeOK /\ [DoorsNext]_doorVars => [Advances]_doorVars
  <2> SUFFICES ASSUME DoorsTypeOK, DoorsNext, Chased, ~Blocked(at[Guard], AfterSwing)
               PROVE  at'[Guard] # at[Guard]
    BY DEF Advances
  <2>1. ASSUME NEW p \in Users, PlayerTick(p) PROVE FALSE
    BY <2>1, DoorsAssumption DEF PlayerTick, Walk, WalkAndUse, Chased
  <2> QED BY <2>1, ChaserAdvances DEF DoorsNext
<1> QED BY <1>1, DoorsTypes, PTL DEF DoorsSpec, ChaseAdvances
-------------------------------------------------------------------------------
(* Guards.                                                                 *)

(* Bodies are at places of their own, with their cylinders under them.      *)
OwnIn(bs, cs) ==
  /\ \A g, h \in Guards : g # h => bs[g].at # bs[h].at
  /\ \A g \in Guards : cs[g].at = bs[g].at

LEMMA CylAtIs ==
  ASSUME NEW cs \in [Guards -> Cylinder], NEW x
  PROVE  CylAt(cs, x) \in Guards \cup {0}
<1> DEFINE there == {g \in Guards : cs[g].at = x}
<1>1. there \in SUBSET Nat BY DEF Guards
<1>2. there # {} => Min(there) \in there
  <2> HIDE DEF there
  <2> QED BY <1>1, MinOfNats
<1> QED BY <1>2 DEF CylAt

LEMMA CylAtOwn ==
  ASSUME NEW bs, NEW cs, OwnIn(bs, cs), NEW g \in Guards
  PROVE  CylAt(cs, bs[g].at) = g /\ (DeadAt(cs, bs[g].at) <=> cs[g].hit)
<1> DEFINE there == {h \in Guards : cs[h].at = bs[g].at}
<1>1. there = {g} BY DEF OwnIn
<1>2. Min({g}) = g
  <2>1. {g} \in SUBSET Nat BY DEF Guards
  <2> QED BY <2>1, MinOfNats
<1>3. CylAt(cs, bs[g].at) = g BY <1>1, <1>2 DEF CylAt
<1>4. g # 0 BY DEF Guards
<1> QED BY <1>3, <1>4 DEF DeadAt

LEMMA CylsKeepTypes ==
  ASSUME NEW cs \in [Guards -> Cylinder], NEW x, NEW y \in Floor
  PROVE  MoveGuard(cs, x, y) \in [Guards -> Cylinder] /\ MarkAt(cs, x) \in [Guards -> Cylinder]
BY CylAtIs DEF MoveGuard, MarkAt, Cylinder

(* A body that steps where nobody is takes its own cylinder along.          *)
LEMMA MoveKeepsOwn ==
  ASSUME NEW bs \in [Guards -> Body], NEW cs \in [Guards -> Cylinder], OwnIn(bs, cs),
         NEW g \in Guards, NEW y \in Floor, ~Meets(bs, g, y)
  PROVE  /\ OwnIn([bs EXCEPT ![g].at = y], MoveGuard(cs, bs[g].at, y))
         /\ \A h \in Guards : MoveGuard(cs, bs[g].at, y)[h].hit = cs[h].hit
<1>1. CylAt(cs, bs[g].at) = g BY CylAtOwn
<1>2. g # 0 BY DEF Guards
<1>3. MoveGuard(cs, bs[g].at, y) = [cs EXCEPT ![g].at = y] BY <1>1, <1>2 DEF MoveGuard
<1> QED BY <1>3 DEF OwnIn, Meets, Body, Cylinder

(* A step to the player is one to a floor, and one of its conditions is the *)
(* guard's life.                                                            *)
State == [body : [Guards -> Body], cyl : [Guards -> Cylinder], met : BOOLEAN]

LEMMA ChaseKeeps ==
  ASSUME NEW s \in State, NEW g \in Guards, NEW p, NEW hidden
  PROVE  LET t == Chase(s, g, p, hidden)
         IN  /\ t \in State
             /\ \A h \in Guards : t.body[h] = [s.body[h] EXCEPT !.at = t.body[h].at]
             /\ s.met => t.met
             /\ OwnIn(s.body, s.cyl) /\ ~t.met =>
                  /\ OwnIn(t.body, t.cyl)
                  /\ \A h \in Guards : t.cyl[h].hit = s.cyl[h].hit
                  /\ \A h \in Guards : s.cyl[h].hit => t.body[h] = s.body[h]
<1> DEFINE t == Chase(s, g, p, hidden)
           b == s.body[g]
           y == ChaseTo(b, p)
<1>1. CASE t = s
  <2>1. \A h \in Guards : s.body[h] = [s.body[h] EXCEPT !.at = s.body[h].at] BY DEF State, Body
  <2> QED BY <1>1, <2>1
<1>2. CASE t # s
  <2>1. /\ t = [body |-> [s.body EXCEPT ![g].at = y], cyl |-> MoveGuard(s.cyl, b.at, y),
                met |-> s.met \/ Meets(s.body, g, y)]
        /\ ~DeadAt(s.cyl, b.at) /\ y \in Floor
    BY <1>2 DEF Chase, MayStep
  <2> HIDE DEF y
  <2>2. t \in State
    <3>1. [s.body EXCEPT ![g].at = y] \in [Guards -> Body] BY <2>1 DEF State, Body
    <3>2. MoveGuard(s.cyl, b.at, y) \in [Guards -> Cylinder] BY <2>1, CylsKeepTypes DEF State
    <3>3. Meets(s.body, g, y) \in BOOLEAN BY DEF Meets
    <3> QED BY <2>1, <3>1, <3>2, <3>3 DEF State
  <2>3. \A h \in Guards : t.body[h] = [s.body[h] EXCEPT !.at = t.body[h].at]
    BY <2>1 DEF State, Body
  <2>4. ASSUME OwnIn(s.body, s.cyl), ~t.met
        PROVE  /\ OwnIn(t.body, t.cyl)
               /\ \A h \in Guards : t.cyl[h].hit = s.cyl[h].hit
               /\ \A h \in Guards : s.cyl[h].hit => t.body[h] = s.body[h]
    <3>1. ~Meets(s.body, g, y)
      <4>1. t.met = (s.met \/ Meets(s.body, g, y)) BY <2>1
      <4> QED BY <2>4, <4>1
    <3>2. /\ OwnIn(t.body, t.cyl) /\ \A h \in Guards : t.cyl[h].hit = s.cyl[h].hit
      BY <2>1, <2>4, <3>1, MoveKeepsOwn DEF State
    <3>3. ~s.cyl[g].hit BY <2>1, <2>4, CylAtOwn DEF State
    <3>4. \A h \in Guards : h # g => t.body[h] = s.body[h] BY <2>1 DEF State
    <3> QED BY <3>2, <3>3, <3>4
  <2>5. s.met => t.met
    <3>1. t.met = (s.met \/ Meets(s.body, g, y)) BY <2>1
    <3> QED BY <3>1
  <2> QED BY <2>2, <2>3, <2>4, <2>5
<1> QED BY <1>1, <1>2
(* The guards chase one after the other: the function that ChaseAll() says  *)
(* so with exists, by a least counterexample.                               *)
Chased0(bs, cs) == [body |-> bs, cyl |-> cs, met |-> met]
IsChase(f, n, bs, cs, p, hidden) ==
  f = [g \in 0 .. n |-> IF g = 0 THEN Chased0(bs, cs) ELSE Chase(f[g - 1], g, p, hidden)]

LEMMA ChaseDefined ==
  ASSUME NEW bs, NEW cs, NEW p, NEW hidden, NEW n \in Nat
  PROVE  \E f : IsChase(f, n, bs, cs, p, hidden)
<1> DEFINE Bad == {k \in Nat : ~ \E f : IsChase(f, k, bs, cs, p, hidden)}
<1> SUFFICES ASSUME Bad # {} PROVE FALSE OBVIOUS
<1>1. PICK m \in Bad : \A k \in Bad : m <= k
  <2> HIDE DEF Bad
  <2>1. Bad \in SUBSET Nat BY DEF Bad
  <2> QED BY <2>1, NatMin
<1>2. CASE m = 0
  <2> DEFINE f == [g \in 0 .. 0 |-> Chased0(bs, cs)]
  <2>1. \A g \in 0 .. 0 : g = 0 OBVIOUS
  <2>2. IsChase(f, 0, bs, cs, p, hidden) BY <2>1 DEF IsChase
  <2> QED BY <1>2, <2>2
<1>3. CASE m # 0
  <2>1. m - 1 \in Nat /\ m - 1 \notin Bad BY <1>1, <1>3
  <2>2. PICK f : IsChase(f, m - 1, bs, cs, p, hidden) BY <2>1
  <2> DEFINE h == [g \in 0 .. m |-> IF g = m THEN Chase(f[m - 1], m, p, hidden) ELSE f[g]]
  <2>3. IsChase(h, m, bs, cs, p, hidden)
    <3>1. m \in Nat \ {0} BY <1>3
    <3>2. ASSUME NEW g \in 0 .. m
          PROVE  h[g] = IF g = 0 THEN Chased0(bs, cs) ELSE Chase(h[g - 1], g, p, hidden)
      <4>1. CASE g = m BY <3>1, <4>1
      <4>2. CASE g # m /\ g = 0
        <5>1. f[0] = Chased0(bs, cs) BY <2>2, <3>1 DEF IsChase
        <5> QED BY <5>1, <4>2
      <4>3. CASE g # m /\ g # 0
        <5>1. g \in 0 .. m - 1 /\ g - 1 \in 0 .. m /\ g - 1 # m BY <4>3, <3>1
        <5>2. f[g] = Chase(f[g - 1], g, p, hidden) BY <2>2, <5>1, <4>3 DEF IsChase
        <5> QED BY <5>1, <5>2, <4>3
      <4> QED BY <4>1, <4>2, <4>3
    <3>3. h = [g \in 0 .. m |-> IF g = 0 THEN Chased0(bs, cs) ELSE Chase(h[g - 1], g, p, hidden)]
      BY <3>2
    <3> QED BY <3>3 DEF IsChase
  <2> QED BY <2>3
<1> QED BY <1>2, <1>3

(* What a chase of all guards leaves as it was. *)
ChaseAllKeeps(s, t) ==
  /\ t \in State
  /\ \A h \in Guards : t.body[h] = [s.body[h] EXCEPT !.at = t.body[h].at]
  /\ s.met => t.met
  /\ OwnIn(s.body, s.cyl) /\ ~t.met =>
       /\ OwnIn(t.body, t.cyl)
       /\ \A h \in Guards : t.cyl[h].hit = s.cyl[h].hit
       /\ \A h \in Guards : s.cyl[h].hit => t.body[h] = s.body[h]

LEMMA ChaseKeepsMore ==
  ASSUME NEW s \in State, NEW t, ChaseAllKeeps(s, t), NEW g \in Guards, NEW p, NEW hidden
  PROVE  ChaseAllKeeps(s, Chase(t, g, p, hidden))
<1> DEFINE u == Chase(t, g, p, hidden)
<1>1. t \in State BY DEF ChaseAllKeeps
<1>2. /\ u \in State
      /\ \A h \in Guards : u.body[h] = [t.body[h] EXCEPT !.at = u.body[h].at]
      /\ t.met => u.met
      /\ OwnIn(t.body, t.cyl) /\ ~u.met =>
           /\ OwnIn(u.body, u.cyl)
           /\ \A h \in Guards : u.cyl[h].hit = t.cyl[h].hit
           /\ \A h \in Guards : t.cyl[h].hit => u.body[h] = t.body[h]
  BY <1>1, ChaseKeeps
<1> HIDE DEF u
<1>3. \A h \in Guards : u.body[h] = [s.body[h] EXCEPT !.at = u.body[h].at]
  <2> TAKE h \in Guards
  <2>1. u.body[h] = [t.body[h] EXCEPT !.at = u.body[h].at] BY <1>2
  <2>2. t.body[h] = [s.body[h] EXCEPT !.at = t.body[h].at] BY DEF ChaseAllKeeps
  <2>3. s.body[h] \in Body /\ t.body[h] \in Body /\ u.body[h] \in Body BY <1>1, <1>2 DEF State
  <2> QED BY <2>1, <2>2, <2>3 DEF Body
<1>4. s.met => u.met BY <1>2 DEF ChaseAllKeeps
<1>5. ASSUME OwnIn(s.body, s.cyl), ~u.met
      PROVE  /\ OwnIn(u.body, u.cyl)
             /\ \A h \in Guards : u.cyl[h].hit = s.cyl[h].hit
             /\ \A h \in Guards : s.cyl[h].hit => u.body[h] = s.body[h]
  <2>1. ~t.met BY <1>2, <1>5
  <2>2. /\ OwnIn(t.body, t.cyl)
        /\ \A h \in Guards : t.cyl[h].hit = s.cyl[h].hit
        /\ \A h \in Guards : s.cyl[h].hit => t.body[h] = s.body[h]
    BY <1>5, <2>1 DEF ChaseAllKeeps
  <2> QED BY <1>2, <1>5, <2>2
<1> QED BY <1>2, <1>3, <1>4, <1>5 DEF ChaseAllKeeps, u

LEMMA ChaseAllIs ==
  ASSUME NEW bs \in [Guards -> Body], NEW cs \in [Guards -> Cylinder], met \in BOOLEAN,
         NEW p, NEW hidden
  PROVE  ChaseAllKeeps(Chased0(bs, cs), ChaseAll(bs, cs, p, hidden))
<1> DEFINE f == CHOOSE f : IsChase(f, NGuards, bs, cs, p, hidden)
           s == Chased0(bs, cs)
<1>1. NGuards \in Nat BY GuardsAssumption
<1>2. IsChase(f, NGuards, bs, cs, p, hidden) BY <1>1, ChaseDefined
<1>3. ChaseAll(bs, cs, p, hidden) = f[NGuards] BY DEF ChaseAll, IsChase, Chased0
<1>4. s \in State /\ ChaseAllKeeps(s, s)
  <2>1. s \in State BY DEF State, Chased0
  <2>2. \A h \in Guards : s.body[h] = [s.body[h] EXCEPT !.at = s.body[h].at]
    BY <2>1 DEF State, Body
  <2> QED BY <2>1, <2>2 DEF ChaseAllKeeps
<1>5. /\ f[0] = s
      /\ \A g \in 1 .. NGuards : f[g] = Chase(f[g - 1], g, p, hidden)
  <2> HIDE DEF f
  <2>1. /\ DOMAIN f = 0 .. NGuards
        /\ \A g \in 0 .. NGuards : f[g] = IF g = 0 THEN Chased0(bs, cs) ELSE Chase(f[g - 1], g, p, hidden)
    BY <1>2 DEF IsChase
  <2> QED BY <1>1, <2>1
<1> HIDE DEF f, s
<1> DEFINE Bad == {k \in 0 .. NGuards : ~ChaseAllKeeps(s, f[k])}
<1>6. Bad = {}
  <2> SUFFICES ASSUME Bad # {} PROVE FALSE OBVIOUS
  <2>1. PICK m \in Bad : \A k \in Bad : m <= k
    <3>1. Bad \in SUBSET Nat BY <1>1
    <3> HIDE DEF Bad
    <3> QED BY <3>1, NatMin
  <2>2. m # 0 BY <1>4, <1>5
  <2>3. m - 1 \in 0 .. NGuards /\ m - 1 \notin Bad /\ m \in Guards BY <1>1, <2>1, <2>2 DEF Guards
  <2>4. ChaseAllKeeps(s, f[m - 1]) BY <2>3
  <2>5. f[m] = Chase(f[m - 1], m, p, hidden) BY <1>5, <2>3 DEF Guards
  <2>6. ChaseAllKeeps(s, f[m]) BY <1>4, <2>3, <2>4, <2>5, ChaseKeepsMore
  <2> QED BY <2>6
<1>7. ChaseAllKeeps(s, f[NGuards]) BY <1>1, <1>6
<1> QED BY <1>3, <1>7 DEF s
NoticeOK(bs) == \A g \in Guards : ~bs[g].alerted => bs[g].notice < NoticeTicks

LEMMA NoticedIs ==
  ASSUME NEW b \in Body, ~b.alerted => b.notice < NoticeTicks, NEW sees \in BOOLEAN
  PROVE  /\ Noticed(b, sees) \in Body /\ Noticed(b, sees).at = b.at
         /\ ~Noticed(b, sees).alerted => Noticed(b, sees).notice < NoticeTicks
         /\ ~sees => Noticed(b, sees).alerted = b.alerted
<1>1. NoticeTicks \in Nat /\ NoticeTicks > 0 BY GuardsAssumption
<1>2. CASE ~sees BY <1>1, <1>2 DEF Noticed, Body
<1>3. CASE sees /\ b.alerted BY <1>3 DEF Noticed
<1>4. CASE sees /\ ~b.alerted
  <2>1. b.notice + 1 \in 0 .. NoticeTicks BY <1>1, <1>4 DEF Body
  <2>2. Noticed(b, sees) = [b EXCEPT !.notice = b.notice + 1, !.alerted = b.notice + 1 >= NoticeTicks]
    BY <1>4 DEF Noticed
  <2>3. (b.notice + 1 >= NoticeTicks) \in BOOLEAN OBVIOUS
  <2>4. Noticed(b, sees) \in Body BY <2>1, <2>2, <2>3 DEF Body
  <2>5. /\ Noticed(b, sees).at = b.at
        /\ Noticed(b, sees).alerted = (b.notice + 1 >= NoticeTicks)
        /\ Noticed(b, sees).notice = b.notice + 1
    BY <2>2 DEF Body
  <2>6. ~(b.notice + 1 >= NoticeTicks) => b.notice + 1 < NoticeTicks BY <2>1, <1>1
  <2> QED BY <2>4, <2>5, <2>6, <1>4
<1> QED BY <1>2, <1>3, <1>4

LEMMA DropsIs ==
  ASSUME NEW b \in Body, NEW cs
  PROVE  /\ Drops(b, cs) \in Body /\ Drops(b, cs).at = b.at
         /\ Drops(b, cs).alerted = b.alerted /\ Drops(b, cs).notice = b.notice
BY DEF Drops, Body

LEMMA PatrolIs ==
  ASSUME NEW b \in Body, NEW toB \in BOOLEAN
  PROVE  Patrol(b, toB).at \in Floor /\ Patrol(b, toB).goingB \in BOOLEAN
<1> DEFINE turned == IF Abs(b.at - (IF toB THEN PathB ELSE PathA)) <= Arrive THEN ~toB ELSE toB
           to == Toward(b.at, IF turned THEN PathB ELSE PathA)
<1>1. turned \in BOOLEAN OBVIOUS
<1>2. b.at \in Floor BY DEF Body
<1> HIDE DEF turned
<1>3. Patrol(b, toB) = IF to \in Floor THEN [at |-> to, goingB |-> turned]
                       ELSE [at |-> b.at, goingB |-> ~turned]
  BY DEF Patrol, turned
<1> HIDE DEF to
<1>4. CASE to \in Floor BY <1>1, <1>3, <1>4
<1>5. CASE to \notin Floor BY <1>1, <1>2, <1>3, <1>5
<1> QED BY <1>4, <1>5

(* What a tick does to a body and to the cylinders. *)
TickKeeps(bs, cs) ==
  /\ body' \in [Guards -> Body] /\ NoticeOK(body') /\ cyl' \in [Guards -> Cylinder]
  /\ met' \in BOOLEAN /\ (met => met')
  /\ OwnIn(bs, cs) /\ ~met' =>
       /\ OwnIn(body', cyl')
       /\ \A h \in Guards : cyl'[h].hit = cs[h].hit
       /\ \A h \in Guards : cs[h].hit => body'[h].at = bs[h].at /\ body'[h].alerted = bs[h].alerted

LEMMA GuardTickKeeps ==
  ASSUME GuardsTypeOK, NEW bs \in [Guards -> Body], NoticeOK(bs), NEW cs \in [Guards -> Cylinder],
         NEW p, NEW hp \in 0 .. MaxHealth, GuardTick(bs, cs, p, hp)
  PROVE  /\ TickKeeps(bs, cs)
         /\ health' \in 0 .. MaxHealth /\ fireCd' \in 0 .. Cooldown /\ goingB' \in BOOLEAN
<1>1. PICK hidden \in SUBSET InRange(p) :
        LET cd == IF fireCd > 0 THEN fireCd - 1 ELSE 0
            sees == {g \in Guards : InLos(bs[g], cs, p) /\ g \notin hidden}
            noticed == [g \in Guards |-> Noticed(bs[g], g \in sees)]
            fires == {g \in sees : noticed[g].alerted /\ cd = 0}
            s == ChaseAll(noticed, cs, p, hidden)
            w == s.body[Walker]
            walks == sees = {} /\ ~w.alerted /\ ~DeadAt(s.cyl, w.at)
            step == Patrol(w, goingB)
            moved == IF walks THEN [s.body EXCEPT ![Walker].at = step.at] ELSE s.body
            cyls == IF walks THEN MoveGuard(s.cyl, w.at, step.at) ELSE s.cyl
        IN  IF hp = 0
            THEN /\ body' = [g \in Guards |-> Drops(bs[g], cs)]
                 /\ cyl' = cs /\ health' = hp
                 /\ UNCHANGED <<fireCd, goingB, met>>
            ELSE /\ body' = [g \in Guards |-> Drops(moved[g], cyls)]
                 /\ cyl' = cyls
                 /\ fireCd' = IF fires # {} THEN Cooldown ELSE cd
                 /\ goingB' = IF walks THEN step.goingB ELSE goingB
                 /\ met' = (s.met \/ (walks /\ Meets(s.body, Walker, step.at)))
                 /\ \E hits \in 0 .. Cardinality(fires) :
                      health' = IF hits >= hp THEN 0 ELSE hp - hits
  BY DEF GuardTick
<1> DEFINE cd == IF fireCd > 0 THEN fireCd - 1 ELSE 0
           sees == {g \in Guards : InLos(bs[g], cs, p) /\ g \notin hidden}
           noticed == [g \in Guards |-> Noticed(bs[g], g \in sees)]
           fires == {g \in sees : noticed[g].alerted /\ cd = 0}
           s == ChaseAll(noticed, cs, p, hidden)
           w == s.body[Walker]
           walks == sees = {} /\ ~w.alerted /\ ~DeadAt(s.cyl, w.at)
           step == Patrol(w, goingB)
           moved == IF walks THEN [s.body EXCEPT ![Walker].at = step.at] ELSE s.body
           cyls == IF walks THEN MoveGuard(s.cyl, w.at, step.at) ELSE s.cyl
<1>2. CASE hp = 0
  <2>1. /\ body' = [g \in Guards |-> Drops(bs[g], cs)]
        /\ cyl' = cs /\ health' = hp /\ fireCd' = fireCd /\ goingB' = goingB /\ met' = met
    BY <1>1, <1>2
  <2>2. \A g \in Guards : /\ Drops(bs[g], cs) \in Body /\ Drops(bs[g], cs).at = bs[g].at
                          /\ Drops(bs[g], cs).alerted = bs[g].alerted
                          /\ Drops(bs[g], cs).notice = bs[g].notice
    BY DropsIs
  <2>3. TickKeeps(bs, cs)
    BY <2>1, <2>2 DEF TickKeeps, OwnIn, NoticeOK, GuardsTypeOK
  <2> QED BY <2>1, <2>3 DEF GuardsTypeOK
<1>3. CASE hp # 0
  <2>1. /\ body' = [g \in Guards |-> Drops(moved[g], cyls)]
        /\ cyl' = cyls
        /\ fireCd' = IF fires # {} THEN Cooldown ELSE cd
        /\ goingB' = IF walks THEN step.goingB ELSE goingB
        /\ met' = (s.met \/ (walks /\ Meets(s.body, Walker, step.at)))
        /\ \E hits \in 0 .. Cardinality(fires) : health' = IF hits >= hp THEN 0 ELSE hp - hits
    BY <1>1, <1>3
  <2>2. \A g \in Guards : /\ noticed[g] \in Body /\ noticed[g].at = bs[g].at
                          /\ ~noticed[g].alerted => noticed[g].notice < NoticeTicks
                          /\ g \notin sees => noticed[g].alerted = bs[g].alerted
    <3> TAKE g \in Guards
    <3>1. noticed[g] = Noticed(bs[g], g \in sees) OBVIOUS
    <3>2. bs[g] \in Body /\ (~bs[g].alerted => bs[g].notice < NoticeTicks) BY DEF NoticeOK
    <3> HIDE DEF sees, noticed
    <3>3. (g \in sees) \in BOOLEAN OBVIOUS
    <3> QED BY <3>1, <3>2, <3>3, NoticedIs
  <2>3. OwnIn(bs, cs) => \A g \in Guards : cs[g].hit => g \notin sees BY CylAtOwn DEF InLos
  <2>4. cd \in 0 .. Cooldown /\ Cooldown \in 0 .. Cooldown
    BY GuardsAssumption DEF GuardsTypeOK
  <2>5. IsFiniteSet(fires)
    <3>1. fires \subseteq Guards OBVIOUS
    <3>2. IsFiniteSet(Guards)
      <4>1. 1 \in Int /\ NGuards \in Int BY GuardsAssumption
      <4> QED BY <4>1, FS_Interval DEF Guards
    <3> QED BY <3>1, <3>2, FS_Subset
  <2>6. health' \in 0 .. MaxHealth
    <3> HIDE DEF fires
    <3>1. Cardinality(fires) \in Nat BY <2>5, FS_CardinalityType
    <3>2. PICK hits \in 0 .. Cardinality(fires) : health' = IF hits >= hp THEN 0 ELSE hp - hits
      BY <2>1
    <3> QED BY <3>1, <3>2, GuardsAssumption
  <2>7. noticed \in [Guards -> Body] BY <2>2
  <2> HIDE DEF noticed, sees, cd
  <2>8. ChaseAllKeeps(Chased0(noticed, cs), s) BY <2>7, ChaseAllIs DEF GuardsTypeOK
  <2> HIDE DEF s
  <2>9. /\ s \in State /\ (met => s.met)
        /\ \A h \in Guards : s.body[h] = [noticed[h] EXCEPT !.at = s.body[h].at]
        /\ OwnIn(noticed, cs) /\ ~s.met =>
             /\ OwnIn(s.body, s.cyl)
             /\ \A h \in Guards : s.cyl[h].hit = cs[h].hit
             /\ \A h \in Guards : cs[h].hit => s.body[h] = noticed[h]
    BY <2>8 DEF ChaseAllKeeps, Chased0
  <2>10. Walker \in Guards /\ w \in Body BY <2>9, GuardsAssumption DEF State
  <2>11. step.at \in Floor /\ step.goingB \in BOOLEAN BY <2>10, PatrolIs DEF GuardsTypeOK
  <2> HIDE DEF step
  <2>12. /\ moved \in [Guards -> Body] /\ cyls \in [Guards -> Cylinder]
         /\ \A h \in Guards : /\ moved[h].alerted = s.body[h].alerted
                              /\ moved[h].notice = s.body[h].notice
    <3>1. /\ [s.body EXCEPT ![Walker].at = step.at] \in [Guards -> Body]
          /\ s.body \in [Guards -> Body]
      BY <2>9, <2>11 DEF State, Body
    <3>2. MoveGuard(s.cyl, w.at, step.at) \in [Guards -> Cylinder] /\ s.cyl \in [Guards -> Cylinder]
      BY <2>9, <2>11, CylsKeepTypes DEF State
    <3>3. \A h \in Guards : /\ moved[h].alerted = s.body[h].alerted
                            /\ moved[h].notice = s.body[h].notice
      BY <2>9, <2>10 DEF State, Body
    <3> QED BY <3>1, <3>2, <3>3
  <2>13. \A h \in Guards : s.body[h].alerted = noticed[h].alerted /\ s.body[h].notice = noticed[h].notice
    <3> TAKE h \in Guards
    <3>1. noticed[h] \in Body /\ s.body[h] \in Body BY <2>7, <2>9 DEF State
    <3>2. s.body[h] = [noticed[h] EXCEPT !.at = s.body[h].at] BY <2>9
    <3> QED BY <3>1, <3>2 DEF Body
  <2>14. /\ OwnIn(s.body, s.cyl) /\ ~(walks /\ Meets(s.body, Walker, step.at)) =>
              /\ OwnIn(moved, cyls)
              /\ \A h \in Guards : cyls[h].hit = s.cyl[h].hit
              /\ \A h \in Guards : s.cyl[h].hit => moved[h].at = s.body[h].at
    <3> SUFFICES ASSUME OwnIn(s.body, s.cyl), ~(walks /\ Meets(s.body, Walker, step.at))
                 PROVE  /\ OwnIn(moved, cyls)
                        /\ \A h \in Guards : cyls[h].hit = s.cyl[h].hit
                        /\ \A h \in Guards : s.cyl[h].hit => moved[h].at = s.body[h].at
      OBVIOUS
    <3>1. CASE ~walks BY <3>1
    <3>2. CASE walks
      <4>1. ~Meets(s.body, Walker, step.at) /\ ~DeadAt(s.cyl, w.at) BY <3>2
      <4>2. moved = [s.body EXCEPT ![Walker].at = step.at] /\ cyls = MoveGuard(s.cyl, w.at, step.at)
        BY <3>2
      <4>3. ~s.cyl[Walker].hit BY <4>1, <2>10, CylAtOwn
      <4>4. OwnIn(moved, cyls) /\ \A h \in Guards : cyls[h].hit = s.cyl[h].hit
        BY <4>1, <4>2, <2>9, <2>10, <2>11, MoveKeepsOwn DEF State
      <4>5. \A h \in Guards : h # Walker => moved[h].at = s.body[h].at BY <4>2, <2>9 DEF State
      <4> QED BY <4>3, <4>4, <4>5
    <3> QED BY <3>1, <3>2
  <2> DEFINE meets == walks /\ Meets(s.body, Walker, step.at)
  <2>15. met' = (s.met \/ meets) /\ s.met \in BOOLEAN BY <2>1, <2>9 DEF State
  <2>16. goingB' \in BOOLEAN BY <2>1, <2>11 DEF GuardsTypeOK
  <2>17. \A h \in Guards : /\ body'[h] \in Body /\ body'[h].at = moved[h].at
                           /\ body'[h].alerted = noticed[h].alerted
                           /\ body'[h].notice = noticed[h].notice
    <3> HIDE DEF moved, cyls
    <3>1. \A h \in Guards : /\ Drops(moved[h], cyls) \in Body /\ Drops(moved[h], cyls).at = moved[h].at
                            /\ Drops(moved[h], cyls).alerted = moved[h].alerted
                            /\ Drops(moved[h], cyls).notice = moved[h].notice
      BY <2>12, DropsIs
    <3> QED BY <2>1, <2>12, <2>13, <3>1
  <2>18. body' \in [Guards -> Body] /\ cyl' \in [Guards -> Cylinder] /\ NoticeOK(body')
    <3>1. body' = [h \in Guards |-> body'[h]] BY <2>1
    <3>2. NoticeOK(body') BY <2>2, <2>17 DEF NoticeOK
    <3> QED BY <2>1, <2>12, <2>17, <3>1, <3>2
  <2> HIDE DEF walks, moved, cyls, meets
  <2>19. ASSUME OwnIn(bs, cs), ~met'
         PROVE  /\ OwnIn(body', cyl')
                /\ \A h \in Guards : cyl'[h].hit = cs[h].hit
                /\ \A h \in Guards : cs[h].hit => body'[h].at = bs[h].at /\ body'[h].alerted = bs[h].alerted
    <3>1. ~s.met /\ ~meets BY <2>15, <2>19
    <3>2. OwnIn(noticed, cs) BY <2>2, <2>19 DEF OwnIn
    <3>3. /\ OwnIn(s.body, s.cyl)
          /\ \A h \in Guards : s.cyl[h].hit = cs[h].hit
          /\ \A h \in Guards : cs[h].hit => s.body[h] = noticed[h]
      BY <2>9, <3>1, <3>2
    <3>4. /\ OwnIn(moved, cyls)
          /\ \A h \in Guards : cyls[h].hit = s.cyl[h].hit
          /\ \A h \in Guards : s.cyl[h].hit => moved[h].at = s.body[h].at
      BY <2>14, <3>1, <3>3 DEF meets
    <3>5. OwnIn(body', cyl') BY <3>4, <2>1, <2>17 DEF OwnIn
    <3>6. \A h \in Guards : cyl'[h].hit = cs[h].hit BY <3>3, <3>4, <2>1
    <3>7. ASSUME NEW h \in Guards, cs[h].hit
          PROVE  body'[h].at = bs[h].at /\ body'[h].alerted = bs[h].alerted
      <4>1. s.cyl[h].hit /\ s.body[h] = noticed[h] BY <3>3, <3>7
      <4>2. moved[h].at = noticed[h].at BY <3>4, <4>1
      <4>3. h \notin sees BY <2>3, <2>19, <3>7
      <4> QED BY <4>2, <4>3, <2>2, <2>17
    <3> QED BY <3>5, <3>6, <3>7
  <2>20. TickKeeps(bs, cs) BY <2>9, <2>15, <2>18, <2>19 DEF TickKeeps, meets, walks, Meets
  <2> QED BY <2>1, <2>4, <2>6, <2>16, <2>20
<1> QED BY <1>2, <1>3
-------------------------------------------------------------------------------
(* The inductive invariant: as long as no two bodies were at one place,     *)
(* every cylinder is under its own body, and the hit ones are those of the  *)
(* bodies that were shot at.                                                *)
HitIfShot == \A g \in Guards : cyl[g].hit <=> g \in shot
GuardsInv == GuardsTypeOK /\ (~met => OwnIn(body, cyl) /\ HitIfShot)

LEMMA HeardIs ==
  ASSUME GuardsTypeOK, NEW cs \in [Guards -> Cylinder], NEW p
  PROVE  LET bs == AfterShot(body, cs, p)
         IN  /\ bs \in [Guards -> Body] /\ NoticeOK(bs)
             /\ \A g \in Guards : bs[g].at = body[g].at
             /\ OwnIn(body, cs) => \A g \in Guards : cs[g].hit => bs[g] = body[g]
<1> DEFINE bs == AfterShot(body, cs, p)
<1>1. \A g \in Guards : bs[g] = IF Hears(body[g], cs, p) THEN [body[g] EXCEPT !.alerted = TRUE] ELSE body[g]
  BY DEF AfterShot
<1>2. \A g \in Guards : /\ bs[g] \in Body /\ bs[g].at = body[g].at
                        /\ ~bs[g].alerted => bs[g].notice < NoticeTicks
  BY <1>1 DEF GuardsTypeOK, Body
<1>3. bs \in [Guards -> Body] BY <1>2 DEF AfterShot
<1>4. OwnIn(body, cs) => \A g \in Guards : cs[g].hit => bs[g] = body[g]
  BY <1>1, CylAtOwn DEF Hears
<1> QED BY <1>2, <1>3, <1>4 DEF NoticeOK

(* Every action is a tick of the guards, over the cylinders as a shot       *)
(* marked one of them or none did, the bodies as they heard it.             *)
LEMMA ActionIs ==
  ASSUME GuardsTypeOK, GuardsNext
  PROVE  \E bs \in [Guards -> Body], cs \in [Guards -> Cylinder] :
           /\ TickKeeps(bs, cs)
           /\ player' \in Corridor /\ shot' \subseteq Guards
           /\ health' \in 0 .. MaxHealth /\ fireCd' \in 0 .. Cooldown /\ goingB' \in BOOLEAN
           /\ \A g \in Guards : bs[g].at = body[g].at
           /\ ~met /\ OwnIn(body, cyl) /\ HitIfShot =>
                /\ OwnIn(bs, cs) /\ \A g \in Guards : cs[g].hit <=> g \in shot'
                /\ \A g \in Guards : cyl[g].hit => cs[g].hit /\ bs[g].alerted = body[g].alerted
<1>1. /\ body \in [Guards -> Body] /\ cyl \in [Guards -> Cylinder] /\ NoticeOK(body)
      /\ player \in Corridor /\ health \in 0 .. MaxHealth /\ shot \subseteq Guards
      /\ MaxHealth \in 0 .. MaxHealth /\ Spawn \in Corridor
  BY GuardsAssumption DEF GuardsTypeOK, NoticeOK
<1>2. CASE QuietTick
  <2>1. PICK p \in (IF health = 0 THEN {player} ELSE Stays) :
          player' = p /\ GuardTick(body, cyl, p, health) /\ shot' = shot
    BY <1>2 DEF QuietTick
  <2>2. player' \in Corridor BY <2>1, <1>1 DEF Stays
  <2>3. /\ TickKeeps(body, cyl)
        /\ health' \in 0 .. MaxHealth /\ fireCd' \in 0 .. Cooldown /\ goingB' \in BOOLEAN
    BY <2>1, <1>1, GuardTickKeeps
  <2>4. HitIfShot => \A g \in Guards : cyl[g].hit <=> g \in shot' BY <2>1 DEF HitIfShot
  <2> QED BY <2>1, <2>2, <2>3, <2>4, <1>1
<1>3. CASE RespawnTick
  <2>1. player' = Spawn /\ GuardTick(body, cyl, Spawn, MaxHealth) /\ shot' = shot
    BY <1>3 DEF RespawnTick
  <2>2. /\ TickKeeps(body, cyl)
        /\ health' \in 0 .. MaxHealth /\ fireCd' \in 0 .. Cooldown /\ goingB' \in BOOLEAN
    BY <2>1, <1>1, GuardTickKeeps
  <2>3. HitIfShot => \A g \in Guards : cyl[g].hit <=> g \in shot' BY <2>1 DEF HitIfShot
  <2> QED BY <2>1, <2>2, <2>3, <1>1
<1>4. CASE FireTick
  <2>1. PICK p \in Stays :
          /\ player' = p
          /\ \/ GuardTick(AfterShot(body, cyl, p), cyl, p, health) /\ shot' = shot
             \/ \E g \in Guards :
                  /\ ~DeadAt(cyl, body[g].at)
                  /\ shot' = shot \cup {g}
                  /\ GuardTick(AfterShot(body, MarkAt(cyl, body[g].at), p),
                               MarkAt(cyl, body[g].at), p, health)
    BY <1>4 DEF FireTick
  <2>2. player' \in Corridor BY <2>1 DEF Stays
  <2>3. CASE GuardTick(AfterShot(body, cyl, p), cyl, p, health) /\ shot' = shot
    <3> DEFINE bs == AfterShot(body, cyl, p)
    <3>1. /\ bs \in [Guards -> Body] /\ NoticeOK(bs)
          /\ \A g \in Guards : bs[g].at = body[g].at
          /\ OwnIn(body, cyl) => \A g \in Guards : cyl[g].hit => bs[g] = body[g]
      BY <1>1, HeardIs
    <3> HIDE DEF bs
    <3>2. /\ TickKeeps(bs, cyl)
          /\ health' \in 0 .. MaxHealth /\ fireCd' \in 0 .. Cooldown /\ goingB' \in BOOLEAN
      BY <2>3, <3>1, <1>1, GuardTickKeeps DEF bs
    <3>3. OwnIn(body, cyl) => OwnIn(bs, cyl) BY <3>1 DEF OwnIn
    <3>4. HitIfShot => \A g \in Guards : cyl[g].hit <=> g \in shot' BY <2>3 DEF HitIfShot
    <3> QED BY <2>2, <2>3, <3>1, <3>2, <3>3, <3>4, <1>1
  <2>4. ASSUME NEW g \in Guards, shot' = shot \cup {g},
               GuardTick(AfterShot(body, MarkAt(cyl, body[g].at), p), MarkAt(cyl, body[g].at), p, health)
        PROVE  \E bs \in [Guards -> Body], cs \in [Guards -> Cylinder] :
                 /\ TickKeeps(bs, cs)
                 /\ player' \in Corridor /\ shot' \subseteq Guards
                 /\ health' \in 0 .. MaxHealth /\ fireCd' \in 0 .. Cooldown /\ goingB' \in BOOLEAN
                 /\ \A h \in Guards : bs[h].at = body[h].at
                 /\ ~met /\ OwnIn(body, cyl) /\ HitIfShot =>
                      /\ OwnIn(bs, cs) /\ \A h \in Guards : cs[h].hit <=> h \in shot'
                      /\ \A h \in Guards : cyl[h].hit => cs[h].hit /\ bs[h].alerted = body[h].alerted
    <3> DEFINE cs == MarkAt(cyl, body[g].at)
               bs == AfterShot(body, cs, p)
    <3>1. cs \in [Guards -> Cylinder]
      <4>1. body[g].at \in Floor BY <1>1 DEF Body
      <4> QED BY <4>1, <1>1, CylsKeepTypes
    <3>2. OwnIn(body, cyl) => cs = [cyl EXCEPT ![g].hit = TRUE]
      <4>1. OwnIn(body, cyl) => CylAt(cyl, body[g].at) = g BY CylAtOwn
      <4>2. g # 0 BY DEF Guards
      <4> QED BY <4>1, <4>2 DEF MarkAt
    <3> HIDE DEF cs
    <3>3. /\ bs \in [Guards -> Body] /\ NoticeOK(bs)
          /\ \A h \in Guards : bs[h].at = body[h].at
          /\ OwnIn(body, cs) => \A h \in Guards : cs[h].hit => bs[h] = body[h]
      BY <3>1, HeardIs
    <3> HIDE DEF bs
    <3>4. /\ TickKeeps(bs, cs)
          /\ health' \in 0 .. MaxHealth /\ fireCd' \in 0 .. Cooldown /\ goingB' \in BOOLEAN
      BY <2>4, <3>1, <3>3, <1>1, GuardTickKeeps DEF bs, cs
    <3>5. OwnIn(body, cyl) => OwnIn(body, cs) /\ OwnIn(bs, cs)
      BY <3>2, <3>3, <1>1 DEF OwnIn, Cylinder
    <3>6. OwnIn(body, cyl) /\ HitIfShot => \A h \in Guards : cs[h].hit <=> h \in shot'
      BY <2>4, <3>2, <1>1 DEF HitIfShot, Cylinder
    <3>7. OwnIn(body, cyl) => \A h \in Guards : cyl[h].hit => cs[h].hit
      BY <3>2, <1>1 DEF Cylinder
    <3>8. shot' \subseteq Guards BY <2>4, <1>1
    <3> QED BY <2>2, <3>1, <3>3, <3>4, <3>5, <3>6, <3>7, <3>8
  <2> QED BY <2>1, <2>3, <2>4
<1> QED BY <1>2, <1>3, <1>4 DEF GuardsNext

LEMMA GuardsInvHolds == GuardsSpec => []GuardsInv
<1>1. GuardsInit => GuardsInv
  <2> SUFFICES ASSUME GuardsInit PROVE GuardsInv OBVIOUS
  <2>1. GuardsTypeOK
    <3>1. 0 \in 0 .. Cooldown /\ MaxHealth \in 0 .. MaxHealth /\ 0 \in 0 .. NoticeTicks /\ 0 < NoticeTicks
      BY GuardsAssumption
    <3>2. /\ body \in [Guards -> Body] /\ cyl \in [Guards -> Cylinder]
          /\ \A g \in Guards : body[g].notice = 0
      BY <3>1, GuardsAssumption DEF GuardsInit, Body, Cylinder
    <3> QED BY <3>1, <3>2, GuardsAssumption DEF GuardsInit, GuardsTypeOK
  <2>2. ~met => OwnIn(body, cyl)
    <3>1. \A g, h \in Guards : g # h => g < h \/ h < g BY DEF Guards
    <3>2. ~met => \A g, h \in Guards : g # h => Posts[g] # Posts[h] BY <3>1 DEF GuardsInit
    <3> QED BY <3>2 DEF GuardsInit, OwnIn
  <2>3. HitIfShot BY DEF GuardsInit, HitIfShot
  <2> QED BY <2>1, <2>2, <2>3 DEF GuardsInv
<1>2. GuardsInv /\ [GuardsNext]_guardVars => GuardsInv'
  <2> SUFFICES ASSUME GuardsInv, [GuardsNext]_guardVars PROVE GuardsInv' OBVIOUS
  <2>1. CASE GuardsNext
    <3>1. PICK bs \in [Guards -> Body], cs \in [Guards -> Cylinder] :
           /\ TickKeeps(bs, cs)
           /\ player' \in Corridor /\ shot' \subseteq Guards
           /\ health' \in 0 .. MaxHealth /\ fireCd' \in 0 .. Cooldown /\ goingB' \in BOOLEAN
           /\ ~met /\ OwnIn(body, cyl) /\ HitIfShot =>
                OwnIn(bs, cs) /\ \A g \in Guards : cs[g].hit <=> g \in shot'
      BY <2>1, ActionIs DEF GuardsInv
    <3>2. GuardsTypeOK' BY <3>1 DEF TickKeeps, NoticeOK, GuardsTypeOK
    <3>3. ASSUME ~met' PROVE (OwnIn(body, cyl) /\ HitIfShot)'
      <4>1. ~met BY <3>1, <3>3 DEF TickKeeps
      <4>2. OwnIn(bs, cs) /\ \A g \in Guards : cs[g].hit <=> g \in shot'
        BY <3>1, <4>1 DEF GuardsInv
      <4>3. OwnIn(body', cyl') /\ \A g \in Guards : cyl'[g].hit = cs[g].hit
        BY <3>1, <3>3, <4>2 DEF TickKeeps
      <4> QED BY <4>2, <4>3 DEF OwnIn, HitIfShot
    <3> QED BY <3>2, <3>3 DEF GuardsInv
  <2>2. CASE UNCHANGED guardVars
    BY <2>2 DEF guardVars, GuardsInv, GuardsTypeOK, OwnIn, HitIfShot
  <2> QED BY <2>1, <2>2
<1> QED BY <1>1, <1>2, PTL DEF GuardsSpec

(* As long as no two bodies were at one place, the walk mesh knows the      *)
(* right ones for dead.                                                     *)
THEOREM CylindersAreOwn == GuardsSpec => []OwnCylinder
<1>1. GuardsInv => OwnCylinder
  <2> SUFFICES ASSUME GuardsInv, ~met, NEW g \in Guards
               PROVE  cyl[g].at = body[g].at /\ (Dead(g) <=> g \in shot)
    BY DEF OwnCylinder
  <2>1. OwnIn(body, cyl) /\ HitIfShot BY DEF GuardsInv
  <2>2. Dead(g) <=> cyl[g].hit BY <2>1, CylAtOwn DEF Dead
  <2> QED BY <2>1, <2>2 DEF OwnIn, HitIfShot
<1> QED BY <1>1, GuardsInvHolds, PTL

(* And they lie still: nothing moves a dead body or alerts it.              *)
THEOREM TheDeadLieStill == GuardsSpec => DeadStay
<1>1. GuardsInv /\ [GuardsNext]_guardVars => [LieStill]_guardVars
  <2> SUFFICES ASSUME GuardsInv, GuardsNext, ~met', NEW g \in Guards, Dead(g)
               PROVE  body'[g].at = body[g].at /\ body'[g].alerted = body[g].alerted
    BY DEF LieStill
  <2>1. PICK bs \in [Guards -> Body], cs \in [Guards -> Cylinder] :
           /\ TickKeeps(bs, cs)
           /\ \A h \in Guards : bs[h].at = body[h].at
           /\ ~met /\ OwnIn(body, cyl) /\ HitIfShot =>
                /\ OwnIn(bs, cs)
                /\ \A h \in Guards : cyl[h].hit => cs[h].hit /\ bs[h].alerted = body[h].alerted
    BY ActionIs DEF GuardsInv
  <2>2. ~met BY <2>1 DEF TickKeeps
  <2>3. OwnIn(body, cyl) /\ HitIfShot BY <2>2 DEF GuardsInv
  <2>4. cyl[g].hit BY <2>3, CylAtOwn DEF Dead
  <2>5. OwnIn(bs, cs) /\ cs[g].hit /\ bs[g].alerted = body[g].alerted BY <2>1, <2>2, <2>3, <2>4
  <2>6. body'[g].at = bs[g].at /\ body'[g].alerted = bs[g].alerted
    BY <2>1, <2>5 DEF TickKeeps
  <2> QED BY <2>1, <2>5, <2>6
<1> QED BY <1>1, GuardsInvHolds, PTL DEF GuardsSpec, DeadStay
-------------------------------------------------------------------------------
(* Floors.                                                                 *)

Entry == [at : Places, tile : Tile]

LEMMA LowestIs ==
  ASSUME NEW ts \in SUBSET Tile, ts # {}
  PROVE  Lowest(ts) \in ts
<1>0. PICK v \in Tile : \A t \in Tile : Eye[v] <= Eye[t] BY FloorsAssumption
<1> DEFINE low == Eye[v]
<1>1. low \in Int /\ \A t \in Tile : low <= Eye[t] BY <1>0, FloorsAssumption
<1> DEFINE above == {Eye[t] - low : t \in ts}
<1>2. above \in SUBSET Nat /\ above # {}
  <2>1. \A t \in ts : Eye[t] - low \in Nat BY <1>1, FloorsAssumption
  <2> QED BY <2>1
<1>3. PICK m \in above : \A x \in above : m <= x
  <2> HIDE DEF above
  <2> QED BY <1>2, NatMin
<1>4. PICK t \in ts : m = Eye[t] - low OBVIOUS
<1>5. \A u \in ts : Eye[t] <= Eye[u]
  <2> TAKE u \in ts
  <2>1. Eye[u] - low \in above OBVIOUS
  <2>2. Eye[t] \in Int /\ Eye[u] \in Int /\ low \in Int BY FloorsAssumption
  <2> HIDE DEF above
  <2>3. Eye[t] - low <= Eye[u] - low BY <2>1, <1>3, <1>4
  <2> QED BY <2>2, <2>3
<1> QED BY <1>5 DEF Lowest

(* The floor that is walked on at a place is a floor at that place.         *)
LEMMA TileAtIs == ASSUME NEW c \in Places PROVE TileAt(c) \in Covering(c)
<1>1. Covering(c) \in SUBSET Tile /\ Covering(c) # {} BY DEF Covering, Places
<1> QED BY <1>1, LowestIs DEF TileAt

LEMMA TileForWalkIs ==
  ASSUME NEW c \in Places, NEW cache \in Seq(Entry)
  PROVE  TileForWalk(cache, c) \in Covering(c)
<1> DEFINE hits == {i \in DOMAIN cache : cache[i].at = c /\ c \in Tiles[cache[i].tile]}
<1>1. CASE hits = {}
  <2>1. CurAt(cache, c) = NoTile BY <1>1 DEF CurAt
  <2> QED BY <2>1, TileAtIs DEF TileForWalk
<1>2. CASE hits # {}
  <2>1. hits \in SUBSET Nat OBVIOUS
  <2> DEFINE i == CHOOSE i \in hits : \A j \in hits : i <= j
  <2>2. i \in hits
    <3> HIDE DEF hits
    <3> QED BY <1>2, <2>1, NatMin
  <2>3. CurAt(cache, c) = cache[i].tile BY <1>2 DEF CurAt
  <2> HIDE DEF i
  <2>4. cache[i] \in Entry /\ c \in Tiles[cache[i].tile] BY <2>2
  <2>5. cache[i].tile \in Covering(c) BY <2>4 DEF Entry, Covering
  <2>6. cache[i].tile # NoTile BY <2>4, FloorsAssumption DEF Entry
  <2> QED BY <2>3, <2>5, <2>6 DEF TileForWalk
<1> QED BY <1>1, <1>2

LEMMA CurPutIs ==
  ASSUME NEW cache \in Seq(Entry), Len(cache) <= CurCache, NEW c \in Places, NEW t \in Tile
  PROVE  CurPut(cache, c, t) \in Seq(Entry) /\ Len(CurPut(cache, c, t)) <= CurCache
<1> DEFINE i == SelectInSeq(cache, LAMBDA e : e.at = c)
           new == [at |-> c, tile |-> t]
<1>1. new \in Entry BY DEF Entry
<1>2. i \in DOMAIN cache \cup {0}
  <2> DEFINE I == {k \in 1 .. Len(cache) : cache[k].at = c}
  <2>1. i = IF I # {} THEN Min(I) ELSE 0 BY DEF SelectInSeq
  <2>2. I \in SUBSET Nat OBVIOUS
  <2>3. I # {} => Min(I) \in I
    <3> HIDE DEF I
    <3> QED BY <2>2, MinOfNats
  <2> QED BY <2>1, <2>3
<1>3. CurPut(cache, c, t) =
        IF i # 0 THEN [cache EXCEPT ![i] = new]
        ELSE IF Len(cache) < CurCache THEN Append(cache, new)
        ELSE Append(Tail(cache), new)
  BY DEF CurPut
<1> HIDE DEF i, new
<1>4. CurCache \in Nat \ {0} BY FloorsAssumption
<1>5. CASE i # 0
  <2>1. CurPut(cache, c, t) = [cache EXCEPT ![i] = new] BY <1>3, <1>5
  <2> QED BY <2>1, <1>1, <1>2, <1>5
<1>6. CASE i = 0 /\ Len(cache) < CurCache
  <2>1. CurPut(cache, c, t) = Append(cache, new) BY <1>3, <1>6
  <2> QED BY <2>1, <1>1, <1>4, <1>6
<1>7. CASE i = 0 /\ ~(Len(cache) < CurCache)
  <2>1. CurPut(cache, c, t) = Append(Tail(cache), new) BY <1>3, <1>7
  <2>2. cache # << >> /\ Len(cache) = CurCache BY <1>4, <1>7
  <2>3. Tail(cache) \in Seq(Entry) /\ Len(Tail(cache)) = CurCache - 1 BY <2>2, <1>4
  <2> QED BY <2>1, <2>3, <1>1, <1>4
<1> QED BY <1>5, <1>6, <1>7

LEMMA SlideIs ==
  ASSUME NEW t, NEW c \in Places, NEW d PROVE Slide(t, c, d) \in Places
BY DEF Slide, LegalStep

LEMMA WalkTilesIs ==
  ASSUME NEW t \in Tile, NEW c, NEW d \in Places
  PROVE  WalkTiles(t, c, d) # NoTile => WalkTiles(t, c, d) \in Covering(d)
BY FloorsAssumption DEF WalkTiles, Linked, Covering

(* A step ends at a place, at the eye height of a floor there.              *)
LEMMA ClipStepIs ==
  ASSUME NEW cache \in Seq(Entry), Len(cache) <= CurCache, NEW c \in Places, NEW d,
         NEW y, \E t \in Covering(c) : Eye[t] = y
  PROVE  LET r == ClipStep(cache, c, y, d)
         IN  /\ r.at \in Places /\ \E t \in Covering(r.at) : Eye[t] = r.eye
             /\ r.cur \in Seq(Entry) /\ Len(r.cur) <= CurCache
<1> DEFINE e == Slide(TileForWalk(cache, c), c, d)
           from == StartTile(cache, c, y)
           rise == RiseTiles(from, c, e)
           dest == IF rise = {} THEN [at |-> e, tile |-> WalkTiles(from, c, e)]
                   ELSE IF SnapOk(c, e, LandsAt[Lowest(rise)].at) THEN LandsAt[Lowest(rise)]
                   ELSE [at |-> e, tile |-> NoTile]
           to == Eye[IF dest.tile # NoTile THEN dest.tile ELSE TileForWalk(cache, e)]
           r == ClipStep(cache, c, y, d)
<1>1. r = IF ~ClimbOk(c, y, to) THEN [at |-> c, eye |-> y, cur |-> cache]
          ELSE [at |-> dest.at, eye |-> to,
                cur |-> IF dest.tile # NoTile THEN CurPut(cache, dest.at, dest.tile) ELSE cache]
  BY DEF ClipStep
<1>2. e \in Places BY SlideIs
<1>3. from \in Tile BY TileForWalkIs, TileAtIs DEF StartTile, Covering
<1> HIDE DEF e, from
<1>4. /\ dest.at \in Places
      /\ dest.tile # NoTile => dest.tile \in Covering(dest.at)
      /\ dest.tile = NoTile => dest.at = e
  <2>1. CASE rise = {}
    <3>1. dest = [at |-> e, tile |-> WalkTiles(from, c, e)] BY <2>1
    <3> QED BY <3>1, <1>2, <1>3, WalkTilesIs
  <2>2. CASE rise # {} /\ SnapOk(c, e, LandsAt[Lowest(rise)].at)
    <3>1. rise \in SUBSET Tile BY DEF RiseTiles
    <3>2. Lowest(rise) \in rise
      <4> HIDE DEF rise
      <4> QED BY <2>2, <3>1, LowestIs
    <3>3. dest = LandsAt[Lowest(rise)] BY <2>2
    <3>4. dest.tile \in Tile /\ dest.at \in Tiles[dest.tile]
      BY <3>2, <3>3, <1>2, <1>3, LandingsInside
    <3>5. dest.tile # NoTile BY <3>4, FloorsAssumption
    <3> HIDE DEF dest
    <3> QED BY <3>4, <3>5 DEF Covering, Places
  <2>3. CASE rise # {} /\ ~SnapOk(c, e, LandsAt[Lowest(rise)].at)
    <3>1. dest = [at |-> e, tile |-> NoTile] BY <2>3
    <3> QED BY <3>1, <1>2
  <2> QED BY <2>1, <2>2, <2>3
<1> HIDE DEF dest
<1>5. \E t \in Covering(dest.at) : Eye[t] = to
  <2>1. CASE dest.tile # NoTile BY <2>1, <1>4
  <2>2. CASE dest.tile = NoTile BY <2>2, <1>2, <1>4, TileForWalkIs
  <2> QED BY <2>1, <2>2
<1>6. dest.tile # NoTile =>
        /\ CurPut(cache, dest.at, dest.tile) \in Seq(Entry)
        /\ Len(CurPut(cache, dest.at, dest.tile)) <= CurCache
  <2> SUFFICES ASSUME dest.tile # NoTile
               PROVE  /\ CurPut(cache, dest.at, dest.tile) \in Seq(Entry)
                      /\ Len(CurPut(cache, dest.at, dest.tile)) <= CurCache
    OBVIOUS
  <2>1. dest.tile \in Tile BY <1>4 DEF Covering
  <2> QED BY <2>1, <1>4, CurPutIs
<1> HIDE DEF to, r
<1> SUFFICES /\ r.at \in Places /\ \E t \in Covering(r.at) : Eye[t] = r.eye
             /\ r.cur \in Seq(Entry) /\ Len(r.cur) <= CurCache
  BY DEF r
<1>7. CASE ~ClimbOk(c, y, to) BY <1>1, <1>7
<1>8. CASE ClimbOk(c, y, to) BY <1>1, <1>4, <1>5, <1>6, <1>8
<1> QED BY <1>7, <1>8

FloorsInv ==
  /\ FloorsTypeOK /\ DOMAIN eye = Players
  /\ OnFloor

LEMMA FloorsInvHolds == FloorsSpec => []FloorsInv
<1>1. FloorsInit => FloorsInv
  <2> SUFFICES ASSUME FloorsInit PROVE FloorsInv OBVIOUS
  <2>1. \A p \in Players : Seat[p] \in Places /\ TileAt(Seat[p]) \in Covering(Seat[p])
    BY TileAtIs, FloorsAssumption
  <2>2. OnFloor BY <2>1 DEF FloorsInit, OnFloor
  <2>3. eye \in [Players -> {Eye[t] : t \in Tile}] BY <2>1 DEF FloorsInit, Covering
  <2>4. cur \in Seq(Entry) /\ Len(cur) <= CurCache BY FloorsAssumption DEF FloorsInit
  <2> QED BY <2>1, <2>2, <2>3, <2>4, FloorsAssumption DEF FloorsInit, FloorsInv, FloorsTypeOK, Entry
<1>2. FloorsInv /\ [FloorsNext]_floorVars => FloorsInv'
  <2> SUFFICES ASSUME FloorsInv, [FloorsNext]_floorVars PROVE FloorsInv' OBVIOUS
  <2>1. /\ pos \in [Players -> Places] /\ gpos \in [Walkers -> Places]
        /\ cur \in Seq(Entry) /\ Len(cur) <= CurCache
        /\ eye \in [Players -> {Eye[t] : t \in Tile}]
        /\ \A p \in Players : \E t \in Covering(pos[p]) : Eye[t] = eye[p]
    BY DEF FloorsInv, FloorsTypeOK, OnFloor, Entry
  <2>2. ASSUME NEW p \in Players, NEW c \in Places, NEW y, \E t \in Covering(c) : Eye[t] = y,
               pos' = [pos EXCEPT ![p] = c], eye' = [eye EXCEPT ![p] = y],
               cur' \in Seq(Entry), Len(cur') <= CurCache, gpos' = gpos, stepper' = NextStepper(p)
        PROVE  FloorsInv'
    <3>1. stepper' \in Players BY <2>2, FloorsAssumption DEF NextStepper
    <3>2. y \in {Eye[t] : t \in Tile} BY <2>2 DEF Covering
    <3>3. OnFloor' BY <2>1, <2>2 DEF OnFloor
    <3> QED BY <2>1, <2>2, <3>1, <3>2, <3>3 DEF FloorsInv, FloorsTypeOK, Entry
  <2>3. ASSUME NEW p \in Players, PlayerStep(p) PROVE FloorsInv'
    <3>1. PICK d : LET s == ClipStep(cur, pos[p], eye[p], d)
                   IN  /\ pos' = [pos EXCEPT ![p] = s.at]
                       /\ eye' = [eye EXCEPT ![p] = s.eye]
                       /\ cur' = s.cur
      BY <2>3 DEF PlayerStep
    <3>2. gpos' = gpos /\ stepper' = NextStepper(p) BY <2>3 DEF PlayerStep
    <3> DEFINE s == ClipStep(cur, pos[p], eye[p], d)
    <3>3. /\ s.at \in Places /\ \E t \in Covering(s.at) : Eye[t] = s.eye
          /\ s.cur \in Seq(Entry) /\ Len(s.cur) <= CurCache
      BY <2>1, ClipStepIs
    <3>4. pos' = [pos EXCEPT ![p] = s.at] /\ eye' = [eye EXCEPT ![p] = s.eye] /\ cur' = s.cur
      BY <3>1
    <3> HIDE DEF s
    <3> QED BY <2>2, <3>2, <3>3, <3>4
  <2>4. ASSUME NEW p \in Players, RespawnStep(p) PROVE FloorsInv'
    <3>1. Seat[p] \in Places /\ TileAt(Seat[p]) \in Covering(Seat[p])
      BY TileAtIs, FloorsAssumption
    <3> QED BY <2>1, <2>2, <2>4, <3>1 DEF RespawnStep
  <2>5. ASSUME NEW g \in Walkers, WalkerStep(g) PROVE FloorsInv'
    <3>1. PICK d : LET c == gpos[g]
                       e == Slide(TileAt(c), c, d)
                       to == Eye[TileForWalk(cur, e)]
                   IN gpos' = [gpos EXCEPT ![g] = IF ClimbOk(c, 0, to) /\ Sits(to) THEN e ELSE c]
      BY <2>5 DEF WalkerStep
    <3>2. UNCHANGED <<pos, eye, cur, stepper>> BY <2>5 DEF WalkerStep
    <3>3. gpos[g] \in Places /\ Slide(TileAt(gpos[g]), gpos[g], d) \in Places BY <2>1, SlideIs
    <3>4. gpos' \in [Walkers -> Places] BY <2>1, <3>1, <3>3
    <3> QED BY <3>2, <3>4 DEF FloorsInv, FloorsTypeOK, OnFloor
  <2>6. CASE UNCHANGED floorVars BY <2>6 DEF floorVars, FloorsInv, FloorsTypeOK, OnFloor
  <2> QED BY <2>3, <2>4, <2>5, <2>6 DEF FloorsNext
<1> QED BY <1>1, <1>2, PTL DEF FloorsSpec

(* Nobody stands in the air, whatever the cache has kept or lost.           *)
THEOREM NobodyInTheAir == FloorsSpec => []OnFloor
<1>1. FloorsInv => OnFloor BY DEF FloorsInv
<1> QED BY <1>1, FloorsInvHolds, PTL

-------------------------------------------------------------------------------
(* Surfaces.                                                               *)

LEMMA LeastIs ==
  ASSUME NEW a \in Nat, NEW b \in Nat
  PROVE  Least(a, b) \in Nat /\ Least(a, b) <= a /\ Least(a, b) <= b /\ Least(a, b) \in {a, b}
BY DEF Least

LEMMA SliceIs ==
  ASSUME NEW s \in Seq(Int), NEW a \in Nat, NEW n \in Nat, a + n <= Len(s)
  PROVE  /\ SubSeq(s, a + 1, a + n) \in Seq(Int) /\ Len(SubSeq(s, a + 1, a + n)) = n
         /\ \A i \in 1 .. n : SubSeq(s, a + 1, a + n)[i] = s[a + i]
<1>1. PICK lo, hi : lo = a + 1 /\ hi = a + n OBVIOUS
<1>2. /\ lo \in Int /\ hi \in Int /\ \A i \in lo .. hi : s[i] \in Int BY <1>1
<1>3. /\ SubSeq(s, lo, hi) \in Seq(Int)
      /\ Len(SubSeq(s, lo, hi)) = IF lo <= hi THEN hi - lo + 1 ELSE 0
      /\ \A i \in 1 .. hi - lo + 1 : SubSeq(s, lo, hi)[i] = s[lo + i - 1]
  BY <1>2, SubSeqProperties
<1>4. hi - lo + 1 = n /\ \A i \in 1 .. n : lo + i - 1 = a + i BY <1>1
<1>5. Len(SubSeq(s, lo, hi)) = n BY <1>1, <1>3
<1>6. \A i \in 1 .. n : SubSeq(s, lo, hi)[i] = s[a + i] BY <1>3, <1>4
<1> QED BY <1>1, <1>3, <1>5, <1>6

LEMMA BeginningIs ==
  ASSUME NEW s \in Seq(Int), NEW n \in Nat, n <= Len(s)
  PROVE  /\ SubSeq(s, 1, n) \in Seq(Int) /\ Len(SubSeq(s, 1, n)) = n
         /\ \A i \in 1 .. n : SubSeq(s, 1, n)[i] = s[i]
<1>1. 0 + n <= Len(s) /\ 0 + 1 = 1 /\ 0 + n = n /\ \A i \in 1 .. n : 0 + i = i OBVIOUS
<1> QED BY <1>1, SliceIs

(* The surfaces of a room of stage l. *)
FacesOf(l, r) == Levels[l].faces[r]

(* A room that was looked at has a slice of the table, which holds the      *)
(* beginning of its surfaces; a limit is where it ends.                     *)
OwnSlice(k, l, r) ==
  /\ k.first[r] + k.count[r] <= Len(k.table)
  /\ k.count[r] <= Len(FacesOf(l, r))
  /\ \A i \in 1 .. k.count[r] : k.table[k.first[r] + i] = FacesOf(l, r)[i]
  /\ k.count[r] \in {Least(Len(FacesOf(l, r)), MaxPerRoom), MaxFaces - k.first[r]}

Tables(l) ==
  LET rooms == DOMAIN Levels[l].faces
  IN  [table : Seq(Int), first : [rooms -> Nat], count : [rooms -> Nat], looked : SUBSET rooms]

TableOK(k, l) ==
  /\ k \in Tables(l)
  /\ Len(k.table) <= MaxFaces
  /\ \A r \in k.looked : OwnSlice(k, l, r)

FacesInv ==
  /\ level \in DOMAIN Levels
  /\ known \in [Tabs -> Tables(level)]
  /\ \A e \in Tabs : TableOK(known[e], level)

LEMMA NoFacesIs ==
  ASSUME NEW l \in DOMAIN Levels PROVE TableOK(NoFaces(DOMAIN Levels[l].faces), l)
BY FacesAssumption DEF NoFaces, TableOK, Tables

(* Looking at a room adds its slice, and moves no other. *)
LEMMA CollectedIs ==
  ASSUME level \in DOMAIN Levels, NEW k, TableOK(k, level), NEW r
  PROVE  TableOK(Collected(k, r), level)
<1>1. CASE r \notin FaceRooms \/ r \in k.looked BY <1>1 DEF Collected
<1>2. CASE r \in FaceRooms /\ r \notin k.looked
  <2> DEFINE own == FacesOf(level, r)
             room == MaxFaces - Len(k.table)
             n == Least(Len(own), Least(MaxPerRoom, room))
             part == SubSeq(own, 1, n)
             t == k.table \o part
             c == Collected(k, r)
  <2>1. /\ MaxFaces \in Nat /\ MaxPerRoom \in Nat /\ own \in Seq(Int)
        /\ k.table \in Seq(Int) /\ Len(k.table) <= MaxFaces
        /\ k.first \in [FaceRooms -> Nat] /\ k.count \in [FaceRooms -> Nat]
        /\ k.looked \subseteq FaceRooms
    BY <1>2, FacesAssumption DEF TableOK, Tables, FacesOf, FaceRooms, Level
  <2>2. c = [table |-> t, first |-> [k.first EXCEPT ![r] = Len(k.table)],
             count |-> [k.count EXCEPT ![r] = n], looked |-> k.looked \cup {r}]
    BY <1>2 DEF Collected, FacesOf, Level
  <2>3. Len(own) \in Nat /\ Len(k.table) \in Nat /\ room \in Nat BY <2>1
  <2>4. /\ n \in Nat /\ n <= Len(own) /\ n <= room /\ n \in {Least(Len(own), MaxPerRoom), room}
    <3> HIDE DEF own, room
    <3>1. Least(MaxPerRoom, room) \in Nat BY <2>1, <2>3, LeastIs
    <3> QED BY <2>1, <2>3, <3>1 DEF Least
  <2>5. part \in Seq(Int) /\ Len(part) = n /\ \A i \in 1 .. n : part[i] = own[i]
    <3> HIDE DEF own, n
    <3> QED BY <2>1, <2>4, BeginningIs
  <2> HIDE DEF own, room, n, part, c
  <2>6. /\ t \in Seq(Int) /\ Len(t) = Len(k.table) + n
        /\ \A i \in 1 .. Len(k.table) : t[i] = k.table[i]
        /\ \A i \in 1 .. n : t[Len(k.table) + i] = own[i]
    <3>1. /\ k.table \o part \in Seq(Int)
          /\ Len(k.table \o part) = Len(k.table) + Len(part)
          /\ \A i \in 1 .. Len(k.table) + Len(part) :
               (k.table \o part)[i] = IF i <= Len(k.table) THEN k.table[i] ELSE part[i - Len(k.table)]
      BY <2>1, <2>5, ConcatProperties
    <3> QED BY <2>3, <2>4, <2>5, <3>1
  <2> HIDE DEF t
  <2>7. Len(t) <= MaxFaces BY <2>1, <2>3, <2>4, <2>6 DEF room
  <2>8. c \in Tables(level) BY <1>2, <2>1, <2>2, <2>3, <2>4, <2>6 DEF Tables, FaceRooms, Level
  <2>9. OwnSlice(c, level, r)
    <3>1. c.first[r] = Len(k.table) /\ c.count[r] = n /\ c.table = t BY <1>2, <2>1, <2>2
    <3> QED BY <2>3, <2>4, <2>6, <3>1 DEF OwnSlice, own, room
  <2>10. ASSUME NEW s \in k.looked PROVE OwnSlice(c, level, s)
    <3>1. OwnSlice(k, level, s) /\ s \in FaceRooms /\ s # r BY <1>2, <2>1, <2>10 DEF TableOK
    <3>2. c.first[s] = k.first[s] /\ c.count[s] = k.count[s] /\ c.table = t
      BY <2>1, <2>2, <3>1
    <3>3. k.first[s] \in Nat /\ k.count[s] \in Nat /\ k.first[s] + k.count[s] <= Len(k.table)
      BY <2>1, <3>1 DEF OwnSlice
    <3>4. \A i \in 1 .. k.count[s] : t[k.first[s] + i] = k.table[k.first[s] + i]
      <4>1. \A i \in 1 .. k.count[s] : k.first[s] + i \in 1 .. Len(k.table) BY <2>3, <3>3
      <4> QED BY <2>6, <4>1
    <3> QED BY <2>3, <2>4, <2>6, <3>1, <3>2, <3>3, <3>4 DEF OwnSlice
  <2>11. c.table = t /\ c.looked = k.looked \cup {r} BY <2>2
  <2> QED BY <2>7, <2>8, <2>9, <2>10, <2>11 DEF TableOK, c
<1> QED BY <1>1, <1>2

(* The function of LookedAt() exists, by a least counterexample. *)
IsLook(f, n, k, rooms) ==
  f = [i \in 0 .. n |-> IF i = 0 THEN k
                        ELSE IF i \in DOMAIN rooms THEN Collected(f[i - 1], rooms[i]) ELSE f[i - 1]]

LEMMA LookDefined ==
  ASSUME NEW k, NEW rooms, NEW n \in Nat PROVE \E f : IsLook(f, n, k, rooms)
<1> DEFINE Next1(g, i) == IF i \in DOMAIN rooms THEN Collected(g, rooms[i]) ELSE g
           Bad == {m \in Nat : ~ \E f : IsLook(f, m, k, rooms)}
<1> SUFFICES ASSUME Bad # {} PROVE FALSE OBVIOUS
<1>1. PICK m \in Bad : \A x \in Bad : m <= x
  <2> HIDE DEF Bad
  <2>1. Bad \in SUBSET Nat BY DEF Bad
  <2> QED BY <2>1, NatMin
<1>2. CASE m = 0
  <2> DEFINE f == [i \in 0 .. 0 |-> k]
  <2>1. \A i \in 0 .. 0 : i = 0 OBVIOUS
  <2>2. IsLook(f, 0, k, rooms) BY <2>1 DEF IsLook
  <2> QED BY <1>2, <2>2
<1>3. CASE m # 0
  <2>1. m - 1 \in Nat /\ m - 1 \notin Bad BY <1>1, <1>3
  <2>2. PICK f : IsLook(f, m - 1, k, rooms) BY <2>1
  <2> DEFINE h == [i \in 0 .. m |-> IF i = m THEN Next1(f[m - 1], m) ELSE f[i]]
  <2>3. IsLook(h, m, k, rooms)
    <3>1. m \in Nat \ {0} BY <1>3
    <3>2. ASSUME NEW i \in 0 .. m PROVE h[i] = IF i = 0 THEN k ELSE Next1(h[i - 1], i)
      <4>1. CASE i = m BY <3>1, <4>1
      <4>2. CASE i # m /\ i = 0
        <5>1. f[0] = k BY <2>2, <3>1 DEF IsLook
        <5> QED BY <5>1, <4>2
      <4>3. CASE i # m /\ i # 0
        <5>1. i \in 0 .. m - 1 /\ i - 1 \in 0 .. m /\ i - 1 # m BY <4>3, <3>1
        <5>2. f[i] = Next1(f[i - 1], i) BY <2>2, <5>1, <4>3 DEF IsLook
        <5> QED BY <5>1, <5>2, <4>3
      <4> QED BY <4>1, <4>2, <4>3
    <3>3. h = [i \in 0 .. m |-> IF i = 0 THEN k ELSE Next1(h[i - 1], i)] BY <3>2
    <3> QED BY <3>3 DEF IsLook
  <2> QED BY <2>3
<1> QED BY <1>2, <1>3

LEMMA LookedAtIs ==
  ASSUME level \in DOMAIN Levels, NEW k, TableOK(k, level), NEW rooms
  PROVE  TableOK(LookedAt(k, rooms), level)
<1> DEFINE f == CHOOSE f : IsLook(f, MaxLooked, k, rooms)
<1>1. MaxLooked \in Nat BY FacesAssumption
<1>2. IsLook(f, MaxLooked, k, rooms) BY <1>1, LookDefined
<1>3. LookedAt(k, rooms) = f[MaxLooked] BY DEF LookedAt, IsLook
<1>4. /\ f[0] = k
      /\ \A i \in 1 .. MaxLooked :
           f[i] = IF i \in DOMAIN rooms THEN Collected(f[i - 1], rooms[i]) ELSE f[i - 1]
  <2> HIDE DEF f
  <2>1. /\ DOMAIN f = 0 .. MaxLooked
        /\ \A i \in 0 .. MaxLooked :
             f[i] = IF i = 0 THEN k
                    ELSE IF i \in DOMAIN rooms THEN Collected(f[i - 1], rooms[i]) ELSE f[i - 1]
    BY <1>2 DEF IsLook
  <2> QED BY <1>1, <2>1
<1> HIDE DEF f
<1> DEFINE Bad == {m \in 0 .. MaxLooked : ~TableOK(f[m], level)}
<1>5. Bad = {}
  <2> SUFFICES ASSUME Bad # {} PROVE FALSE OBVIOUS
  <2>1. PICK m \in Bad : \A x \in Bad : m <= x
    <3>1. Bad \in SUBSET Nat BY <1>1
    <3> HIDE DEF Bad
    <3> QED BY <3>1, NatMin
  <2>2. m # 0 BY <1>4
  <2>3. m - 1 \in 0 .. MaxLooked /\ m - 1 \notin Bad /\ m \in 1 .. MaxLooked BY <1>1, <2>1, <2>2
  <2>4. TableOK(f[m - 1], level) BY <2>3
  <2>5. TableOK(f[m], level) BY <1>4, <2>3, <2>4, CollectedIs
  <2> QED BY <2>5
<1> QED BY <1>1, <1>3, <1>5

(* Steps and frames look at rooms; a load begins anew. *)
LEMMA FacesInvHolds == FacesSpec => []FacesInv
<1>1. FacesInit => FacesInv
  <2> SUFFICES ASSUME FacesInit PROVE FacesInv OBVIOUS
  <2>1. TableOK(NoFaces(DOMAIN Levels[1].faces), 1) BY FacesAssumption, NoFacesIs
  <2>2. level = 1 /\ known = [e \in Tabs |-> NoFaces(DOMAIN Levels[1].faces)] BY DEF FacesInit
  <2> QED BY <2>1, <2>2, FacesAssumption DEF FacesInv, TableOK
<1>2. FacesInv /\ [FacesNext]_faceVars => FacesInv'
  <2> SUFFICES ASSUME FacesInv, [FacesNext]_faceVars PROVE FacesInv' OBVIOUS
  <2>1. level \in DOMAIN Levels /\ known \in [Tabs -> Tables(level)]
        /\ \A e \in Tabs : TableOK(known[e], level)
    BY DEF FacesInv
  <2>2. ASSUME level' \in DOMAIN Levels, NEW k, known' = [e \in Tabs |-> k[e]],
               \A e \in Tabs : TableOK(k[e], level')
        PROVE  FacesInv'
    <3>1. \A e \in Tabs : known'[e] = k[e] /\ k[e] \in Tables(level') BY <2>2 DEF TableOK
    <3>2. known' \in [Tabs -> Tables(level')] BY <2>2, <3>1
    <3> QED BY <2>2, <3>1, <3>2 DEF FacesInv
  <2>3. ASSUME NEW p \in Tabs, NEW d, StepOf(p, d) PROVE FacesInv'
    <3> DEFINE k == [e \in Tabs |-> Stepped(e, spot[e][p], spot[e][p] + d).known]
    <3>1. known' = k /\ level' = level BY <2>3 DEF StepOf
    <3>2. ASSUME NEW e \in Tabs PROVE TableOK(k[e], level)
      <4>1. TableOK(known[e], level) BY <2>1
      <4>2. ASSUME NEW x, NEW want PROVE TableOK(Stepped(e, x, want).known, level)
        BY <2>1, <4>1, LookedAtIs DEF Stepped
      <4> QED BY <4>2
    <3> HIDE DEF k
    <3>3. known' = [e \in Tabs |-> k[e]] BY <3>1 DEF k
    <3> QED BY <2>1, <2>2, <3>1, <3>2, <3>3
  <2>4. ASSUME NEW e \in Tabs, DrawFrame(e) PROVE FacesInv'
    <3>1. PICK rooms : known' = [known EXCEPT ![e] = LookedAt(@, rooms)] BY <2>4 DEF DrawFrame, CameraLooks
    <3>2. level' = level BY <2>4 DEF DrawFrame
    <3> DEFINE k == [known EXCEPT ![e] = LookedAt(@, rooms)]
    <3>3. known' = [f \in Tabs |-> k[f]] BY <2>1, <3>1
    <3>4. TableOK(LookedAt(known[e], rooms), level) BY <2>1, LookedAtIs
    <3>5. \A f \in Tabs : TableOK(k[f], level) BY <2>1, <3>4
    <3> HIDE DEF k
    <3> QED BY <2>1, <2>2, <3>2, <3>3, <3>5
  <2>5. ASSUME NEW l \in DOMAIN Levels, LoadLevelOf(l) PROVE FacesInv'
    <3> DEFINE k == [e \in Tabs |-> NoFaces(DOMAIN Levels[l].faces)]
    <3>1. level' = l /\ known' = k BY <2>5 DEF LoadLevelOf
    <3>2. \A e \in Tabs : TableOK(k[e], l) BY NoFacesIs
    <3>3. known' = [e \in Tabs |-> k[e]] BY <3>1
    <3> HIDE DEF k
    <3> QED BY <2>2, <3>1, <3>2, <3>3
  <2>6. CASE UNCHANGED <<level, known>> BY <2>1, <2>6 DEF FacesInv
  <2>7. UseGate => UNCHANGED <<level, known>> BY DEF UseGate
  <2>8. UNCHANGED faceVars => UNCHANGED <<level, known>> BY DEF faceVars
  <2> QED BY <2>3, <2>4, <2>5, <2>6, <2>7, <2>8 DEF FacesNext, TakeStep, DrawSome, LoadSome
<1> QED BY <1>1, <1>2, PTL DEF FacesSpec

(* The surfaces that stop a body in a room are the room's own, in whatever  *)
(* order steps, frames and loads have looked at rooms.                      *)
THEOREM SurfacesAreOwn == FacesSpec => []OwnFaces
<1>1. FacesInv => OwnFaces
  <2> SUFFICES ASSUME FacesInv, NEW e \in Tabs
               PROVE  /\ Len(known[e].table) <= MaxFaces
                      /\ \A r \in known[e].looked :
                           LET own == Level.faces[r]
                               slice == SliceOf(known[e], r)
                           IN  /\ slice = SubSeq(own, 1, Len(slice))
                               /\ Len(slice) \in {Least(Len(own), MaxPerRoom), MaxFaces - known[e].first[r]}
    BY DEF OwnFaces
  <2>1. PICK k : k = known[e] OBVIOUS
  <2>2. TableOK(k, level) /\ level \in DOMAIN Levels BY <2>1 DEF FacesInv
  <2>3. ASSUME NEW r \in k.looked
        PROVE  /\ SliceOf(k, r) = SubSeq(Level.faces[r], 1, Len(SliceOf(k, r)))
               /\ Len(SliceOf(k, r)) \in {Least(Len(Level.faces[r]), MaxPerRoom), MaxFaces - k.first[r]}
    <3> DEFINE own == FacesOf(level, r)
               a == k.first[r]
               n == k.count[r]
    <3>1. /\ a \in Nat /\ n \in Nat /\ k.table \in Seq(Int) /\ own \in Seq(Int)
          /\ a + n <= Len(k.table) /\ n <= Len(own)
          /\ \A i \in 1 .. n : k.table[a + i] = own[i]
          /\ n \in {Least(Len(own), MaxPerRoom), MaxFaces - a}
      BY <2>2, FacesAssumption DEF TableOK, Tables, OwnSlice, FacesOf
    <3> HIDE DEF own, a, n
    <3>2. /\ SubSeq(k.table, a + 1, a + n) \in Seq(Int)
          /\ Len(SubSeq(k.table, a + 1, a + n)) = n
          /\ \A i \in 1 .. n : SubSeq(k.table, a + 1, a + n)[i] = own[i]
      BY <3>1, SliceIs
    <3>3. /\ SubSeq(own, 1, n) \in Seq(Int)
          /\ Len(SubSeq(own, 1, n)) = n
          /\ \A i \in 1 .. n : SubSeq(own, 1, n)[i] = own[i]
      BY <3>1, BeginningIs
    <3>4. SubSeq(k.table, a + 1, a + n) = SubSeq(own, 1, n) BY <3>2, <3>3, SeqEqual
    <3>5. SliceOf(k, r) = SubSeq(k.table, a + 1, a + n) BY DEF SliceOf, a, n
    <3>6. Level.faces[r] = own BY DEF Level, FacesOf, own
    <3> QED BY <3>1, <3>2, <3>4, <3>5, <3>6 DEF a
  <2>4. Len(k.table) <= MaxFaces BY <2>2 DEF TableOK
  <2> QED BY <2>1, <2>3, <2>4
<1> QED BY <1>1, FacesInvHolds, PTL

-------------------------------------------------------------------------------
(* What a frame draws.                                                     *)

(* The slots of textures: stamps tell loaded slots apart, and what is bound *)
(* in this frame, or was when a triangle was emitted, is in a slot that was *)
(* bound in it.                                                             *)
TexInv ==
  /\ tex \in [Slots -> [id : Textures \cup {"-"}, stamp : Nat]]
  /\ bind \in [cur : Slots \cup {0}, use : Nat, base : Nat]
  /\ bind.base <= bind.use
  /\ \A s \in Slots : tex[s].stamp <= bind.use
  /\ \A s, u \in Slots : tex[s].id # "-" /\ tex[s].stamp = tex[u].stamp => s = u
  /\ bind.cur # 0 => tex[bind.cur].id # "-" /\ tex[bind.cur].stamp > bind.base
  /\ \A t \in tris : t.slot # 0 =>
       /\ t.slot \in Slots
       /\ t.id # "-" /\ tex[t.slot].id = t.id /\ tex[t.slot].stamp > bind.base

(* The memory that segments point into. *)
Banks == {"-", "bg"} \cup {p.vtx : p \in Parts} \cup {p.seg4 : p \in Parts} \cup {p.seg5 : p \in Parts}

(* What is counted. *)
Books == [commands : Nat, frame : Nat, open : BOOLEAN, parts : SUBSET Parts]

(* A part that is drawn by itself has loaded what it sees itself, and a     *)
(* character reaches its own file only.                                     *)
OwnInv ==
  /\ progress \in Books
  /\ drawing \in Parts \cup {NoPart}
  /\ ~progress.open => drawing = NoPart
  /\ seg \in [Segments -> Banks] /\ saved \in [Segments -> Banks]
  /\ walk \in Seq(Banks) /\ Len(walk) <= Depth + 1
  /\ drawing = NoPart => walk = <<>>
  /\ Isolated(drawing) => \A v \in Verts : vert[v] # DeadVert => vert[v].part = drawing
  /\ IsChr(drawing) =>
       /\ \A v \in Verts : vert[v] # DeadVert => vert[v].bank \in {drawing.seg4, drawing.seg5}
       /\ \A g \in Segments : seg[g] \in {"-", drawing.seg4, drawing.seg5}
       /\ \A i \in 1 .. Len(walk) : walk[i] = drawing.seg5

(* The slot that is given to a texture is free, or was last bound in an     *)
(* earlier frame.                                                           *)
LEMMA AllocIs ==
  ASSUME TexInv
  PROVE  Alloc \in Slots \cup {0} /\ (Alloc # 0 => Alloc \in Slots /\ (tex[Alloc].id = "-" \/ tex[Alloc].stamp <= bind.base))
<1>. DEFINE old == {s \in Slots : tex[s].stamp <= bind.base}
<1>1. Slots \subseteq Nat \ {0}
  BY FrameAssumption
<1>2. CASE Free # {}
  <2>1. Free \subseteq Nat /\ Free \subseteq Slots
    BY <1>1 DEF Free
  <2>2. First(Free) \in Free
    BY <1>2, <2>1, NatMin DEF First
  <2>. QED  BY <1>2, <2>1, <2>2 DEF Alloc, Free
<1>3. CASE Free = {} /\ old # {}
  <2>. DEFINE stamps == {tex[s].stamp : s \in old}
  <2>1. stamps \in SUBSET Nat /\ stamps # {}
    <3>1. \A s \in old : tex[s].stamp \in Nat
      BY DEF TexInv
    <3>. QED  BY <3>1, <1>3
  <2>2. PICK m \in stamps : \A x \in stamps : m <= x
    BY <2>1, NatMin
  <2>3. PICK s \in old : m = tex[s].stamp
    BY <2>2
  <2>4. ASSUME NEW u \in old PROVE tex[s].stamp < tex[u].stamp \/ s = u
    <3>1. tex[s].stamp <= tex[u].stamp /\ tex[s].stamp \in Nat /\ tex[u].stamp \in Nat
      BY <2>1, <2>2, <2>3
    <3>2. tex[s].id # "-"
      BY <1>3 DEF Free
    <3>3. tex[s].stamp = tex[u].stamp => s = u
      BY <3>2 DEF TexInv
    <3>. QED  BY <3>1, <3>3
  <2>5. Oldest(old) \in old
    BY <2>4 DEF Oldest
  <2>. QED  BY <1>3, <2>5 DEF Alloc
<1>4. CASE Free = {} /\ old = {}
  BY <1>4 DEF Alloc
<1>. QED  BY <1>2, <1>3, <1>4

(* Binding a texture disturbs no triangle of the frame. *)
LEMMA BindKeeps == ASSUME TexInv, Bind PROVE TexInv'
<1>1. PICK id \in Textures : SetTex(id)
  BY DEF Bind
<1>2. tris' = tris
  BY DEF Bind
<1>. DEFINE held == Holding(id)
            n == bind.use + (IF held # {} THEN 1 ELSE 2)
<1>. PICK s : s = IF held # {} THEN First(held) ELSE IF id \in Absent THEN 0 ELSE Alloc
  OBVIOUS
<1>3. s \in Slots \cup {0} /\ (s # 0 => s \in Slots /\ (tex[s].id \in {"-", id} \/ tex[s].stamp <= bind.base))
  <2>1. CASE held # {}
    <3>1. held \in SUBSET Nat /\ held \subseteq Slots
      BY FrameAssumption DEF Holding
    <3>2. First(held) \in held
      BY <2>1, <3>1, NatMin DEF First
    <3>. QED  BY <2>1, <3>1, <3>2 DEF Holding
  <2>2. CASE held = {}
    BY <2>2, AllocIs
  <2>. QED  BY <2>1, <2>2
<1>4. PICK use \in Nat : use = n /\ use > bind.use
  BY DEF TexInv
<1>5. IF s = 0 THEN bind' = [bind EXCEPT !.cur = 0] /\ tex' = tex
      ELSE /\ tex' = [tex EXCEPT ![s] = [id |-> id, stamp |-> use]]
           /\ bind' = [bind EXCEPT !.cur = s, !.use = use]
  BY <1>1, <1>4 DEF SetTex
<1>. HIDE DEF held, n
<1>6. CASE s = 0
  BY <1>2, <1>5, <1>6 DEF TexInv
<1>7. CASE s # 0
  <2>1. s \in Slots /\ id # "-" /\ 0 \notin Slots
    BY <1>3, <1>7, FrameAssumption
  <2>2. /\ tex' = [tex EXCEPT ![s] = [id |-> id, stamp |-> use]]
        /\ bind' = [bind EXCEPT !.cur = s, !.use = use]
    BY <1>5, <1>7
  <2>3. /\ tex' \in [Slots -> [id : Textures \cup {"-"}, stamp : Nat]]
        /\ bind' \in [cur : Slots \cup {0}, use : Nat, base : Nat]
        /\ bind'.cur = s /\ bind'.use = use /\ bind'.base = bind.base
        /\ \A u \in Slots : tex'[u] = IF u = s THEN [id |-> id, stamp |-> use] ELSE tex[u]
    BY <2>1, <2>2 DEF TexInv
  <2>4. /\ bind.base \in Nat /\ bind.use \in Nat /\ bind.base <= bind.use
        /\ \A u \in Slots : tex[u].stamp \in Nat /\ tex[u].stamp <= bind.use
        /\ \A u, v \in Slots : tex[u].id # "-" /\ tex[u].stamp = tex[v].stamp => u = v
    BY DEF TexInv
  <2>5. \A u \in Slots : tex'[u].stamp <= use
    BY <1>4, <2>3, <2>4
  <2>6. \A u, v \in Slots : tex'[u].id # "-" /\ tex'[u].stamp = tex'[v].stamp => u = v
    BY <1>4, <2>3, <2>4
  <2>7. ASSUME NEW t \in tris, t.slot # 0
        PROVE  /\ t.slot \in Slots
               /\ t.id # "-" /\ tex'[t.slot].id = t.id /\ tex'[t.slot].stamp > bind'.base
    <3>1. t.slot \in Slots /\ t.id # "-" /\ tex[t.slot].id = t.id /\ tex[t.slot].stamp > bind.base
      BY <2>7 DEF TexInv
    <3>2. t.slot = s => t.id = id
      BY <3>1, <1>3, <1>7, <2>4
    <3>. QED  BY <3>1, <3>2, <1>4, <2>3, <2>4
  <2>. QED  BY <1>2, <1>4, <2>1, <2>3, <2>4, <2>5, <2>6, <2>7 DEF TexInv
<1>. QED  BY <1>6, <1>7

(* A triangle is emitted with what is bound. *)
LEMMA EmitKeepsTex == ASSUME TexInv, Emit PROVE TexInv'
<1>1. tex' = tex /\ bind' = bind
  BY DEF Emit
<1>2. PICK vs \in SUBSET Verts : tris' = tris \union
            {[slot |-> bind.cur, part |-> drawing, list |-> Last(walk),
              id |-> IF bind.cur = 0 THEN "-" ELSE tex[bind.cur].id,
              from |-> {vert[v] : v \in vs}]}
  BY DEF Emit
<1>. PICK one : one = [slot |-> bind.cur, part |-> drawing, list |-> Last(walk),
              id |-> IF bind.cur = 0 THEN "-" ELSE tex[bind.cur].id,
              from |-> {vert[v] : v \in vs}]
  OBVIOUS
<1>3. one.slot = bind.cur /\ (bind.cur # 0 => one.id = tex[bind.cur].id)
  OBVIOUS
<1>4. tris' = tris \cup {one}
  BY <1>2
<1>5. \A t \in tris' : t \in tris \/ t = one
  BY <1>4
<1>6. ASSUME NEW t \in tris', t.slot # 0
      PROVE  t.slot \in Slots /\ t.id # "-" /\ tex[t.slot].id = t.id /\ tex[t.slot].stamp > bind.base
  BY <1>3, <1>5, <1>6 DEF TexInv
<1>. QED  BY <1>1, <1>6 DEF TexInv

(* The other steps bind and load nothing, and only a frame that begins      *)
(* forgets what is bound.                                                   *)
LEMMA TexKept ==
  ASSUME TexInv, BeginFrame \/ (\E p \in Parts : BeginPart(p)) \/ EndPart \/ EndFrame
                 \/ LoadVerts \/ Branch \/ Return \/ UNCHANGED frameVars
  PROVE  TexInv'
<1>1. CASE BeginFrame
  <2>1. bind' = [bind EXCEPT !.base = bind.use, !.cur = 0] /\ tris' = {} /\ tex' = tex
    BY <1>1 DEF BeginFrame
  <2>2. /\ bind' \in [cur : Slots \cup {0}, use : Nat, base : Nat]
        /\ bind'.cur = 0 /\ bind'.use = bind.use /\ bind'.base = bind.use /\ bind.use \in Nat
    BY <2>1 DEF TexInv
  <2>. QED  BY <2>1, <2>2 DEF TexInv
<1>2. CASE ~BeginFrame
  <2>1. tex' = tex /\ bind' = bind /\ tris' = tris
    BY <1>2 DEF BeginPart, EndPart, EndFrame, LoadVerts, Branch, Return, frameVars
  <2>. QED  BY <2>1 DEF TexInv
<1>. QED  BY <1>1, <1>2

THEOREM TexInvHolds == FrameSpec => []TexInv
<1>1. FrameInit => TexInv
  BY FrameAssumption DEF FrameInit, TexInv, NoTexture
<1>2. TexInv /\ [FrameNext]_frameVars => TexInv'
  BY BindKeeps, EmitKeepsTex, TexKept DEF FrameNext
<1>. QED  BY <1>1, <1>2, PTL DEF FrameSpec

(* After a command, and as a frame begins. *)
LEMMA BooksKept ==
  ASSUME NEW b \in Books
  PROVE  /\ [b EXCEPT !.commands = @ + 1] \in Books
         /\ [b EXCEPT !.commands = @ + 1].open = b.open
         /\ [b EXCEPT !.frame = @ + 1, !.open = TRUE, !.parts = {}] \in Books
         /\ [b EXCEPT !.frame = @ + 1, !.open = TRUE, !.parts = {}].open = TRUE
<1>1. b.commands + 1 \in Nat /\ b.frame + 1 \in Nat /\ {} \in SUBSET Parts /\ TRUE \in BOOLEAN
  BY DEF Books
<1>2. [b EXCEPT !.commands = b.commands + 1] \in Books
  BY <1>1 DEF Books
<1>3. [b EXCEPT !.frame = b.frame + 1, !.open = TRUE, !.parts = {}] \in Books
  BY <1>1 DEF Books
<1>. QED  BY <1>2, <1>3 DEF Books

(* A part begins with what it brings. *)
LEMMA BeginPartKeeps == ASSUME OwnInv, NEW p \in Parts, BeginPart(p) PROVE OwnInv'
<1>1. /\ progress.open /\ drawing' = p /\ saved' = BoundSegs(p)
      /\ seg' = IsolatedSegs(p, BoundSegs(p)) /\ vert' = OwnVerts(p)
      /\ walk' = <<IF p.kind = "room" THEN "bg" ELSE p.seg5>>
      /\ progress' = [progress EXCEPT !.parts = @ \union {p}]
  BY DEF BeginPart
<1>2. /\ p.vtx \in Banks /\ p.seg4 \in Banks /\ p.seg5 \in Banks
      /\ "-" \in Banks /\ "bg" \in Banks
  BY DEF Banks
<1>3. BoundSegs(p) \in [Segments -> Banks]
  BY <1>2 DEF BoundSegs, OwnInv, Segments
<1>4. seg' \in [Segments -> Banks]
  BY <1>1, <1>2, <1>3 DEF IsolatedSegs, Segments
<1>5. walk' \in Seq(Banks) /\ Len(walk') = 1 /\ walk'[1] = IF p.kind = "room" THEN "bg" ELSE p.seg5
  BY <1>1, <1>2
<1>6. Len(walk') <= Depth + 1 /\ p # NoPart
  BY <1>5, FrameAssumption DEF NoPart
<1>7. progress' \in Books /\ progress'.open
  BY <1>1 DEF OwnInv, Books
<1>8. Isolated(p) => \A v \in Verts : vert'[v] = DeadVert
  BY <1>1 DEF OwnVerts
<1>9. IsChr(p) => /\ \A g \in Segments : seg'[g] \in {"-", p.seg4, p.seg5}
                  /\ \A i \in 1 .. Len(walk') : walk'[i] = p.seg5
  <2>. SUFFICES ASSUME IsChr(p)
                 PROVE  /\ \A g \in Segments : seg'[g] \in {"-", p.seg4, p.seg5}
                        /\ \A i \in 1 .. Len(walk') : walk'[i] = p.seg5
    OBVIOUS
  <2>1. Isolated(p)
    BY DEF Isolated
  <2>2. seg' = [g \in Segments |-> CASE g = 4 -> p.seg4 [] g = 5 -> p.seg5 [] OTHER -> "-"]
    BY <1>1, <2>1 DEF IsolatedSegs
  <2>3. \A g \in Segments : seg'[g] \in {"-", p.seg4, p.seg5}
    BY <2>2
  <2>. QED  BY <2>3, <1>5 DEF IsChr
<1>10. IsChr(p) => Isolated(p)
  BY DEF Isolated
<1>11. Isolated(p) => \A v \in Verts : vert'[v] # DeadVert => vert'[v].part = p
  BY <1>8
<1>12. IsChr(p) =>
        /\ \A v \in Verts : vert'[v] # DeadVert => vert'[v].bank \in {p.seg4, p.seg5}
        /\ \A g \in Segments : seg'[g] \in {"-", p.seg4, p.seg5}
        /\ \A i \in 1 .. Len(walk') : walk'[i] = p.seg5
  BY <1>8, <1>9, <1>10
<1>13. saved' \in [Segments -> Banks] /\ drawing' = p /\ p \in Parts \cup {NoPart}
  BY <1>1, <1>3
<1>. QED  BY <1>4, <1>5, <1>6, <1>7, <1>11, <1>12, <1>13 DEF OwnInv

(* What a list may branch to is a bank, for a character its own file. *)
LEMMA BranchKeeps == ASSUME OwnInv, Branch PROVE OwnInv'
<1>1. /\ drawing' = drawing /\ seg' = seg /\ saved' = saved /\ vert' = vert
      /\ progress' = [progress EXCEPT !.commands = @ + 1]
      /\ walk # <<>>
  BY DEF Branch, Command
<1>2. PICK g \in Segments, past \in BOOLEAN, nopush \in BOOLEAN :
        /\ ChildOk(seg[g])
        /\ walk' = IF past /\ (nopush \/ Len(walk) <= Depth) THEN << >>
                   ELSE IF nopush THEN [walk EXCEPT ![Len(walk)] = seg[g]]
                   ELSE IF Len(walk) <= Depth THEN Append(walk, seg[g]) ELSE walk
  BY DEF Branch
<1>. PICK bank : bank = seg[g]
  OBVIOUS
<1>3. bank \in Banks /\ (IsChr(drawing) => bank = drawing.seg5)
  BY <1>2 DEF ChildOk, OwnInv
<1>4. walk \in Seq(Banks) /\ Len(walk) \in Nat /\ Len(walk) <= Depth + 1 /\ Depth \in Nat
  BY FrameAssumption DEF OwnInv
<1>5. /\ walk' \in Seq(Banks) /\ Len(walk') <= Depth + 1
      /\ \A i \in 1 .. Len(walk') : walk'[i] = bank \/ (i \in 1 .. Len(walk) /\ walk'[i] = walk[i])
  <2>1. CASE walk' = <<>>
    BY <2>1, <1>4
  <2>2. CASE walk' = [walk EXCEPT ![Len(walk)] = bank]
    <3>. Len(walk) \in 1 .. Len(walk)
      BY <1>1, <1>4
    <3>1. walk' \in Seq(Banks) /\ Len(walk') = Len(walk)
      BY <2>2, <1>3, <1>4, ExceptSeq
    <3>2. \A i \in 1 .. Len(walk) : walk'[i] = IF i = Len(walk) THEN bank ELSE walk[i]
      BY <2>2, <1>4
    <3>. QED  BY <3>1, <3>2, <1>4
  <2>3. CASE Len(walk) <= Depth /\ walk' = Append(walk, bank)
    BY <2>3, <1>3, <1>4
  <2>4. CASE walk' = walk
    BY <2>4, <1>4
  <2>. QED  BY <2>1, <2>2, <2>3, <2>4, <1>2
<1>6. progress' \in Books /\ progress'.open = progress.open
  BY <1>1, BooksKept DEF OwnInv
<1>7. drawing # NoPart
  BY <1>1 DEF OwnInv
<1>. QED  BY <1>1, <1>3, <1>5, <1>6, <1>7 DEF OwnInv

LEMMA ReturnKeeps == ASSUME OwnInv, Return PROVE OwnInv'
<1>1. /\ drawing' = drawing /\ seg' = seg /\ saved' = saved /\ vert' = vert
      /\ progress' = [progress EXCEPT !.commands = @ + 1]
      /\ walk # <<>> /\ walk' = SubSeq(walk, 1, Len(walk) - 1)
  BY DEF Return, Command, Front
<1>2. walk \in Seq(Banks) /\ Len(walk) \in Nat /\ Len(walk) <= Depth + 1 /\ Depth \in Nat /\ Len(walk) # 0
  BY <1>1, FrameAssumption DEF OwnInv
<1>3. /\ walk' \in Seq(Banks) /\ Len(walk') = Len(walk) - 1
      /\ \A i \in 1 .. Len(walk') : walk'[i] = walk[i]
  <2>. PICK n : n = Len(walk) - 1
    OBVIOUS
  <2>1. n \in Nat /\ n <= Len(walk) /\ n - 1 + 1 = n /\ walk' = SubSeq(walk, 1, n)
    BY <1>1, <1>2
  <2>2. \A i \in 1 .. n : walk[i] \in Banks /\ 1 + i - 1 = i
    BY <1>2, <2>1
  <2>3. /\ SubSeq(walk, 1, n) \in Seq(Banks)
        /\ Len(SubSeq(walk, 1, n)) = IF 1 <= n THEN n - 1 + 1 ELSE 0
        /\ \A i \in 1 .. n - 1 + 1 : SubSeq(walk, 1, n)[i] = walk[1 + i - 1]
    BY <2>1, <2>2, SubSeqProperties
  <2>4. Len(walk') = n
    BY <2>1, <2>3
  <2>5. \A i \in 1 .. n : walk'[i] = walk[i]
    BY <2>1, <2>2, <2>3
  <2>. QED  BY <2>1, <2>3, <2>4, <2>5
<1>4. progress' \in Books /\ progress'.open = progress.open
  BY <1>1, BooksKept DEF OwnInv
<1>5. drawing # NoPart
  BY <1>1 DEF OwnInv
<1>. QED  BY <1>1, <1>2, <1>3, <1>4, <1>5 DEF OwnInv

(* A load of vertices reads through the segments as they are. *)
LEMMA LoadKeeps == ASSUME OwnInv, LoadVerts PROVE OwnInv'
<1>1. /\ drawing' = drawing /\ seg' = seg /\ saved' = saved /\ walk' = walk
      /\ progress' = [progress EXCEPT !.commands = @ + 1]
  BY DEF LoadVerts, Command
<1>2. PICK g \in Segments, vs \in SUBSET Verts :
        /\ seg[g] # "-"
        /\ vert' = [v \in Verts |-> IF v \in vs THEN [bank |-> seg[g], part |-> drawing] ELSE vert[v]]
  BY DEF LoadVerts
<1>3. progress' \in Books /\ progress'.open = progress.open
  BY <1>1, BooksKept DEF OwnInv
<1>4. \A v \in Verts : vert'[v] = vert[v] \/ (vert'[v].part = drawing /\ vert'[v].bank = seg[g])
  BY <1>2
<1>5. Isolated(drawing) => \A v \in Verts : vert'[v] # DeadVert => vert'[v].part = drawing
  BY <1>4 DEF OwnInv
<1>6. IsChr(drawing) => \A v \in Verts : vert'[v] # DeadVert => vert'[v].bank \in {drawing.seg4, drawing.seg5}
  BY <1>2, <1>4 DEF OwnInv
<1>. QED  BY <1>1, <1>3, <1>5, <1>6 DEF OwnInv

(* Steps that begin or end a frame or a part, bind or emit. *)
LEMMA OwnKept ==
  ASSUME OwnInv, BeginFrame \/ EndPart \/ EndFrame \/ Bind \/ Emit \/ UNCHANGED frameVars
  PROVE  OwnInv'
<1>1. CASE BeginFrame
  <2>1. /\ drawing' = drawing /\ saved' = saved /\ walk' = walk /\ ~progress.open
        /\ progress' = [progress EXCEPT !.frame = @ + 1, !.open = TRUE, !.parts = {}]
    BY <1>1 DEF BeginFrame
  <2>2. PICK room \in {p.vtx : p \in {q \in Parts : q.kind = "room"}} :
          seg' = [seg EXCEPT ![15] = "bg", ![14] = IF room = "-" THEN @ ELSE room]
    BY <1>1 DEF BeginFrame
  <2>3. room \in Banks /\ "bg" \in Banks
    BY DEF Banks
  <2>4. seg' \in [Segments -> Banks]
    BY <2>2, <2>3 DEF OwnInv, Segments
  <2>5. progress' \in Books /\ progress'.open
    BY <2>1, BooksKept DEF OwnInv
  <2>6. drawing = NoPart /\ ~Isolated(drawing) /\ ~IsChr(drawing)
    BY <2>1 DEF OwnInv, Isolated, IsChr, NoPart
  <2>. QED  BY <2>1, <2>4, <2>5, <2>6 DEF OwnInv
<1>2. CASE EndPart
  <2>1. /\ drawing' = NoPart /\ walk' = <<>> /\ seg' = IF Isolated(drawing) THEN saved ELSE seg
        /\ saved' = saved /\ progress' = progress
    BY <1>2 DEF EndPart
  <2>2. ~Isolated(NoPart) /\ ~IsChr(NoPart)
    BY DEF Isolated, IsChr, NoPart
  <2>3. walk' \in Seq(Banks) /\ Len(walk') <= Depth + 1
    BY <2>1, FrameAssumption
  <2>. QED  BY <2>1, <2>2, <2>3 DEF OwnInv
<1>3. CASE EndFrame
  <2>1. /\ UNCHANGED <<vert, seg, saved, drawing, walk>> /\ drawing = NoPart
        /\ progress' = [progress EXCEPT !.open = FALSE]
    BY <1>3 DEF EndFrame
  <2>2. progress' \in Books
    BY <2>1 DEF OwnInv, Books
  <2>. QED  BY <2>1, <2>2 DEF OwnInv
<1>4. CASE Bind \/ Emit
  <2>1. /\ UNCHANGED <<vert, seg, saved, drawing, walk>>
        /\ progress' = [progress EXCEPT !.commands = @ + 1]
    BY <1>4 DEF Bind, Emit, Command
  <2>2. progress' \in Books /\ progress'.open = progress.open
    BY <2>1, BooksKept DEF OwnInv
  <2>. QED  BY <2>1, <2>2 DEF OwnInv
<1>5. CASE UNCHANGED frameVars
  BY <1>5 DEF OwnInv, frameVars
<1>. QED  BY <1>1, <1>2, <1>3, <1>4, <1>5

THEOREM OwnInvHolds == FrameSpec => []OwnInv
<1>1. FrameInit => OwnInv
  <2>1. ~Isolated(NoPart) /\ ~IsChr(NoPart) /\ "-" \in Banks
    BY DEF Isolated, IsChr, NoPart, Banks
  <2>2. FrameInit => walk \in Seq(Banks) /\ Len(walk) <= Depth + 1
    BY FrameAssumption DEF FrameInit
  <2>. QED  BY <2>1, <2>2 DEF FrameInit, OwnInv, Books
<1>2. OwnInv /\ [FrameNext]_frameVars => OwnInv'
  BY BeginPartKeeps, BranchKeeps, ReturnKeeps, LoadKeeps, OwnKept DEF FrameNext
<1>. QED  BY <1>1, <1>2, PTL DEF FrameSpec

(* A triangle is emitted from vertices of the part that is drawn. *)
LEMMA EmitsOwn == ASSUME OwnInv, OwnVertices, Emit PROVE OwnVertices'
<1>1. walk # <<>>
  BY DEF Emit, Command
<1>2. PICK vs \in SUBSET Verts :
        /\ \A v \in vs : vert[v] # DeadVert
        /\ tris' = tris \union
            {[slot |-> bind.cur, part |-> drawing, list |-> Last(walk),
              id |-> IF bind.cur = 0 THEN "-" ELSE tex[bind.cur].id,
              from |-> {vert[v] : v \in vs}]}
  BY DEF Emit
<1>. PICK one : one = [slot |-> bind.cur, part |-> drawing, list |-> Last(walk),
              id |-> IF bind.cur = 0 THEN "-" ELSE tex[bind.cur].id,
              from |-> {vert[v] : v \in vs}]
  OBVIOUS
<1>3. one.part = drawing /\ one.list = Last(walk) /\ one.from = {vert[v] : v \in vs}
  OBVIOUS
<1>4. \A t \in tris' : t \in tris \/ t = one
  BY <1>2
<1>5. Isolated(drawing) => \A v \in one.from : v.part = drawing
  BY <1>2, <1>3 DEF OwnInv
<1>6. IsChr(drawing) => \A v \in one.from : v.bank \in {drawing.seg4, drawing.seg5}
  BY <1>2, <1>3 DEF OwnInv
<1>7. IsChr(drawing) => one.list = drawing.seg5
  <2>1. walk \in Seq(Banks) /\ Len(walk) \in 1 .. Len(walk) /\ Last(walk) = walk[Len(walk)]
    BY <1>1 DEF OwnInv, Last
  <2>. QED  BY <2>1, <1>3 DEF OwnInv
<1>. QED  BY <1>3, <1>4, <1>5, <1>6, <1>7 DEF OwnVertices

(* Texels and vertices are those of the moment a triangle was emitted. *)
THEOREM AsEmittedHolds == FrameSpec => []AsEmitted
<1>1. TexInv => KeepsTexels
  BY DEF TexInv, KeepsTexels
<1>2. FrameInit => OwnVertices
  BY DEF FrameInit, OwnVertices
<1>3. OwnInv /\ OwnVertices /\ [FrameNext]_frameVars => OwnVertices'
  <2>. SUFFICES ASSUME OwnInv, OwnVertices, [FrameNext]_frameVars PROVE OwnVertices'
    OBVIOUS
  <2>1. CASE BeginFrame
    BY <2>1 DEF BeginFrame, OwnVertices
  <2>2. CASE ~BeginFrame /\ ~Emit
    <3>1. tris' = tris
      BY <2>2 DEF FrameNext, BeginPart, EndPart, EndFrame, Bind, LoadVerts, Branch, Return, frameVars
    <3>. QED  BY <3>1 DEF OwnVertices
  <2>. QED  BY <2>1, <2>2, EmitsOwn
<1>4. KeepsTexels /\ OwnVertices => AsEmitted
  BY DEF AsEmitted
<1>. QED  BY <1>1, <1>2, <1>3, <1>4, TexInvHolds, OwnInvHolds, PTL DEF FrameSpec

(* The cache, the slots and the stack of lists keep their types. *)
THEOREM FrameTypes == FrameSpec => []FrameTypeOK
<1>1. TexInv /\ OwnInv => FrameTypeOK
  BY DEF TexInv, OwnInv, FrameTypeOK
<1>. QED  BY <1>1, TexInvHolds, OwnInvHolds, PTL
===============================================================================
