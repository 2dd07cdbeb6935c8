--------------------------------- MODULE Doors ---------------------------------
(***************************************************************************)
(* The doors of the walk mesh (port/player/stan_walk.c) and those who walk *)
(* through them: players, whose A button uses the nearest door they face   *)
(* (port_player_tick() in move.c), and an alerted guard that chases        *)
(* (chase_step() in port/fs/prop.c).  A door shuts over PORT_DOOR_OPEN_    *)
(* TICKS ticks and is solid only when its leaf has come back to 0, so it   *)
(* can shut on somebody who stands in it.                                  *)
(*                                                                         *)
(* A passage along the doors' normal, in units of a few game units.  Walls *)
(* and floors are other modules' matter (Floors); slabs are thinner than a *)
(* running step, and further apart than one.                               *)
(***************************************************************************)
EXTENDS Integers, FiniteSetsExt

CONSTANTS
  Users,      \* 1 .. n, the players, ticked in this order
  Door,       \* where the doors stand
  PassageEnd, \* the passage is 0 .. PassageEnd
  HalfT,      \* PORT_DOOR_HALF_T
  Skin,       \* PORT_WALL_SKIN
  Longest,    \* the longest step of a player
  Stride,     \* PORT_MOVER_WALK_STEP
  UseRange,   \* PORT_DOOR_USE_RANGE
  KeepAway,   \* the 40 units a chaser keeps
  SightRange, \* PORT_GUARD_FIRE_RANGE
  AimOffset,  \* PORT_GUARD_AIM_OFFSET
  OpenTicks,  \* PORT_DOOR_OPEN_TICKS
  StartAt     \* actor -> place; the guard is actor 0

(* In the code HalfT is 15 units, Stride 3, UseRange 200 and OpenTicks 6.   *)
ASSUME DoorsAssumption ==
  /\ 1 \in Users /\ 0 \notin Users
  /\ {PassageEnd, Skin, Longest, UseRange, OpenTicks} \subseteq Nat
  /\ {HalfT, Stride, KeepAway} \subseteq Nat \ {0}
  /\ Stride <= Longest /\ Stride < 2 * HalfT /\ HalfT + Stride <= UseRange
  /\ StartAt \in [Users \cup {0} -> 0 .. PassageEnd]

(* Nobody that steps out of one doorway is already in or past the next.     *)
ASSUME DoorsApart ==
  /\ Door \subseteq Int
  /\ \A d, e \in Door : d < e => e - d >= Longest + 2 * HalfT

VARIABLES
  at,         \* actor -> place
  open,       \* door -> open or not
  frac,       \* door -> how far its leaf is swung, in ticks
  side,       \* door -> the side its leaf swings to, 0 before the first use
  turn        \* the player whose tick is next, or 0: doors and guard

doorVars == <<at, open, frac, side, turn>>

Guard == 0
Passage == 0 .. PassageEnd
Sign(x) == IF x > 0 THEN 1 ELSE IF x < 0 THEN -1 ELSE 0
AbsVal(x) == x * Sign(x)

Solid(d) == ~open[d] /\ frac[d] = 0
InSlab(x, d) == AbsVal(x - d) < HalfT

(* hit_door_world() *)
HitDoor(x) == \E d \in Door : Solid(d) /\ InSlab(x, d)

(* legal_world(), for a step that starts in a slab or not. *)
Legal(x, startDoor) == x \in Passage /\ (HitDoor(x) => startDoor)

(* door_ray_hit(): how far the first solid slab is from x in direction s. *)
Ahead(x, s) == {d \in Door : Solid(d) /\ (d - x) * s > -HalfT}
RayBlock(x, s) ==
  LET gaps == {(d - x) * s - HalfT : d \in Ahead(x, s)}
  IN  IF Ahead(x, s) = {} THEN PassageEnd + Skin ELSE Max({0, Min(gaps)})

\* Mutant: the step is checked where it ends only.
ClipDest(x, want) ==
  IF HitDoor(x) THEN want
  ELSE IF ~Legal(want, HitDoor(x)) THEN x ELSE want

(* clip_step_ex(): out of a slab that shut on it an actor steps as it wants *)
(* (try_snap_local()); elsewhere it stops the skin before a solid slab, or  *)
(* does not move when the place it wants is no place to be.                 *)
Clip(x, want) ==
  LET s == Sign(want - x)
      gap == RayBlock(x, s)
  IN  IF HitDoor(x) THEN want
      ELSE IF ~Legal(want, HitDoor(x)) THEN x
      ELSE IF s # 0 /\ gap < AbsVal(want - x) + Skin
      THEN x + s * Max({0, gap - Skin})
      ELSE want

(* find_use_door(): the nearest door in range that is faced; none, or one. *)
FindUseDoor(x, look) ==
  LET near == {d \in Door : AbsVal(d - x) <= UseRange /\ (d - x) * look >= 0}
  IN  {d \in near : \A e \in near : AbsVal(d - x) <= AbsVal(e - x)}

(* port_stan_use_door(): an opened door swings away from its user, from its *)
(* closed place on; a closed one swings back from where it is.              *)
UseFrom(f, d, x) ==
  /\ open' = [open EXCEPT ![d] = ~@]
  /\ frac' = [f EXCEPT ![d] = IF open[d] THEN @ ELSE 0]
  /\ side' = [side EXCEPT ![d] = IF open[d] THEN @ ELSE IF x >= d THEN 1 ELSE -1]

NextUser(p) == IF p + 1 \in Users THEN p + 1 ELSE 0

(* port_player_tick(): the step, and then, on A, the door that is faced. *)
Walk(p, want) ==
  /\ turn = p /\ turn' = NextUser(p)
  /\ at' = [at EXCEPT ![p] = Clip(@, want)]
  /\ UNCHANGED <<open, frac, side>>

WalkAndUse(p, want, look) ==
  LET x == Clip(at[p], want)
  IN  /\ turn = p /\ turn' = NextUser(p)
      /\ at' = [at EXCEPT ![p] = x]
      /\ \E d \in FindUseDoor(x, look) : UseFrom(frac, d, x)

Wants(p) == {x \in Passage : AbsVal(x - at[p]) <= Longest}

PlayerTick(p) ==
  \E want \in Wants(p) : Walk(p, want) \/ \E look \in {-1, 1} : WalkAndUse(p, want, look)

(* port_stan_tick_doors(), of one door. *)
Swung(d) == IF open[d] THEN Min({frac[d] + 1, OpenTicks}) ELSE Max({frac[d] - 1, 0})

AfterSwing == [d \in Door |-> Swung(d)]

ToPlayer == Sign(at[1] - at[Guard])
Gap == AbsVal(at[1] - at[Guard])

(* guard_prop_in_los(), after the doors' tick: in range, with no solid slab *)
(* between the muzzle, AimOffset from the guard, and the player.            *)
Sees(f) ==
  LET s == ToPlayer
      muzzle == at[Guard] + s * AimOffset
  IN  /\ Gap \in KeepAway .. SightRange
      /\ \A d \in Door : ~open[d] /\ f[d] = 0 =>
           (d - muzzle) * s <= -HalfT \/ (d - at[1]) * s >= HalfT

(* port_stan_unlatch_closed(): the nearest door that is faced, if closed. *)
Unlatch(x, look) == {d \in FindUseDoor(x, look) : ~open[d]}

\* Mutant: an open leaf blocks, too.
BlockedAny(x, f) == \E d \in Door : InSlab(x, d)

(* port_stan_door_blocks_only() *)
Blocked(x, f) == \E d \in Door : ~open[d] /\ f[d] = 0 /\ InSlab(x, d)

GuardStands == frac' = AfterSwing /\ UNCHANGED <<at, open, side>>
GuardMoves(to) == at' = [at EXCEPT ![Guard] = to]

(* chase_step(): a step towards the player, and where a solid slab is the   *)
(* block, the same A as a player's and the step again.                      *)
ChaseStep(x, to) ==
  IF ~Blocked(to, AfterSwing)
  THEN GuardMoves(to) /\ frac' = AfterSwing /\ UNCHANGED <<open, side>>
  ELSE IF Unlatch(x, ToPlayer) = {} THEN GuardStands
  ELSE \E d \in Unlatch(x, ToPlayer) :
         /\ UseFrom(AfterSwing, d, x)
         /\ IF \E e \in Door \ {d} : ~open[e] /\ AfterSwing[e] = 0 /\ InSlab(to, e)
            THEN UNCHANGED at ELSE GuardMoves(to)

(* After the doors' tick the guard shoots and stands if it sees the player  *)
(* it watches, and if it does not, chases until it is near.                 *)
DoorsAndGuard ==
  /\ turn = 0 /\ turn' = 1
  /\ IF Sees(AfterSwing) \/ Gap < KeepAway THEN GuardStands
     ELSE ChaseStep(at[Guard], at[Guard] + ToPlayer * Min({Stride, Gap}))

DoorsInit ==
  /\ at = [a \in Users \cup {Guard} |-> StartAt[a]]
  /\ open = [d \in Door |-> FALSE]
  /\ frac = [d \in Door |-> 0]
  /\ side = [d \in Door |-> 0]
  /\ turn = 1

DoorsNext == DoorsAndGuard \/ \E p \in Users : PlayerTick(p)

DoorsSpec == DoorsInit /\ [][DoorsNext]_doorVars

-------------------------------------------------------------------------------
DoorsTypeOK ==
  /\ at \in [Users \cup {Guard} -> Passage]
  /\ open \in [Door -> BOOLEAN]
  /\ frac \in [Door -> 0 .. OpenTicks]
  /\ side \in [Door -> {-1, 0, 1}]
  /\ turn \in Users \cup {0}

(* Nobody gets past a solid door, however long the step, and nobody into    *)
(* its slab; who is in it already may leave it on either side.              *)
Passes(a, d) ==
  /\ ~InSlab(at[a], d)
  /\ InSlab(at'[a], d) \/ Sign(at'[a] - d) # Sign(at[a] - d)

HoldsShut ==
  at' # at =>
    \A d \in Door : Solid(d) /\ ~open'[d] => \A a \in Users \cup {Guard} : ~Passes(a, d)
NoPassShut == [][HoldsShut]_doorVars

(* A chaser that no slab has shut on never stands still in front of a door: *)
(* it opens it, and its step is taken.                                      *)
Chased == turn = 0 /\ Gap >= KeepAway /\ ~Sees(AfterSwing)
Advances == Chased /\ ~Blocked(at[Guard], AfterSwing) => at'[Guard] # at[Guard]
ChaseAdvances == [][Advances]_doorVars

(* "Already inside a wall: clip_step snaps onto the nearest walkable floor  *)
(* tile": a chaser that a door has shut on does not stand still either.     *)
ChaseNeverStuck ==
  [][Chased => at'[Guard] # at[Guard]]_doorVars
===============================================================================
