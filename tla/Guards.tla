-------------------------------- MODULE Guards ---------------------------------
(***************************************************************************)
(* The guards of a level: what they see, hear, shoot at and chase          *)
(* (port/fs/prop.c), in the order of port_sim_tick().  A guard's body is a *)
(* prop; whether it is dead is in a hit cylinder of the walk mesh          *)
(* (stan_walk.c), and the two know each other by place alone: whatever is  *)
(* asked or done about a body goes to the first cylinder within one unit.  *)
(*                                                                         *)
(* Places are the steps of a corridor, a stride of PORT_MOVER_WALK_STEP    *)
(* apart, so bodies within one unit are bodies at one place.  `Player' is  *)
(* the player whose pose the guards read.  Doors are in module Doors,      *)
(* floors in Floors.                                                       *)
(***************************************************************************)
EXTENDS Integers, FiniteSetsExt

CONSTANTS
  NGuards,        \* the guards are 1 .. NGuards, in the order of the props
  Walker,         \* g_walk_prop: the guard that walks a path
  PathA, PathB,   \* its ends
  Arrive,         \* PORT_MOVER_ARRIVE
  CorridorEnd,    \* the corridor is 0 .. CorridorEnd
  Wall,           \* places of it that are no floor a guard sits on
  SpawnBox,       \* the fire box of the first spawn, closed to chasers
  Spawn,          \* where the player spawns
  Posts,          \* guard -> where the setup puts it
  MinFire, FireRange, HearRange, NoticeTicks, Cooldown,
  MaxHealth

Guards == 1 .. NGuards
Corridor == 0 .. CorridorEnd
Floor == Corridor \ Wall

ASSUME GuardsAssumption ==
  /\ NGuards \in Nat /\ Walker \in Guards /\ CorridorEnd \in Nat
  /\ {PathA, PathB, Arrive, MinFire, FireRange, HearRange} \subseteq Int
  /\ Spawn \in Corridor /\ Posts \in [Guards -> Floor]
  /\ NoticeTicks \in Nat \ {0} /\ {Cooldown, MaxHealth} \subseteq Nat

VARIABLES
  player,         \* the player's place
  health,
  body,           \* guard -> [at, alerted, notice, dropped]
  cyl,            \* g_guard, a sequence of [at, hit]
  goingB,         \* g_walk_going_b
  fireCd,         \* g_fire_cd
  shot,           \* history: the guards whose body a shot was aimed at
  met             \* history: two bodies have been at one place

guardVars == <<player, health, body, cyl, goingB, fireCd, shot, met>>

Abs(x) == IF x < 0 THEN -x ELSE x
Toward(x, y) == IF x < y THEN x + 1 ELSE IF x > y THEN x - 1 ELSE x

-------------------------------------------------------------------------------
(* port_stan_guard_dead_at(): of the first cylinder at a place. *)
CylAt(cs, x) ==
  LET there == {g \in Guards : cs[g].at = x} IN IF there = {} THEN 0 ELSE Min(there)
DeadAt(cs, x) == CylAt(cs, x) # 0 /\ cs[CylAt(cs, x)].hit

\* Mutant: the cylinder is left behind.
LeaveGuard(cs, x, y) == cs

(* port_stan_move_guard() *)
MoveGuard(cs, x, y) == IF CylAt(cs, x) = 0 THEN cs ELSE [cs EXCEPT ![CylAt(cs, x)].at = y]

(* port_stan_mark_guard_at() *)
MarkAt(cs, x) == IF CylAt(cs, x) = 0 THEN cs ELSE [cs EXCEPT ![CylAt(cs, x)].hit = TRUE]

Dist(b, p) == Abs(b.at - p)

(* guard_prop_in_los(): a living guard, the player in its fire range.  What *)
(* else may hide the player, a slab, a wall, a room, its back, is `hidden'. *)
InLos(b, cs, p) == ~DeadAt(cs, b.at) /\ Dist(b, p) \in MinFire .. FireRange

-------------------------------------------------------------------------------
(* port_prop_hear_player_shot() *)
Hears(b, cs, p) == ~DeadAt(cs, b.at) /\ Dist(b, p) <= HearRange

AfterShot(bs, cs, p) ==
  [g \in Guards |-> IF Hears(bs[g], cs, p) THEN [bs[g] EXCEPT !.alerted = TRUE] ELSE bs[g]]

(* port_prop_tick_guard_fire(), the first loop: who sees the player long    *)
(* enough is alert, who does not forgets.                                   *)
Noticed(b, sees) ==
  IF ~sees THEN [b EXCEPT !.notice = 0]
  ELSE IF b.alerted THEN b
  ELSE [b EXCEPT !.notice = @ + 1, !.alerted = b.notice + 1 >= NoticeTicks]

(* chase_step(): alert, alive and out of sight, a step to the player unless *)
(* it is near, the floor ends, or the step goes into the spawn's fire box.  *)
ChaseTo(b, p) == Toward(b.at, p)
MayStep(b, p) == Dist(b, p) >= MinFire /\ ChaseTo(b, p) \in Floor \ SpawnBox

(* History only: somebody else is at the place g steps to. *)
Meets(bs, g, x) == \E h \in Guards \ {g} : bs[h].at = x

\* Mutant: the dead are not left out.
ChaseDead(s, g, p, hidden) ==
  LET b == s.body[g]
  IN  IF ~b.alerted \/ (InLos(b, s.cyl, p) /\ g \notin hidden) \/ ~MayStep(b, p)
      THEN s
      ELSE [body |-> [s.body EXCEPT ![g].at = ChaseTo(b, p)],
            cyl |-> MoveGuard(s.cyl, b.at, ChaseTo(b, p)),
            met |-> s.met \/ Meets(s.body, g, ChaseTo(b, p))]

Chase(s, g, p, hidden) ==
  LET b == s.body[g]
  IN  IF ~b.alerted \/ DeadAt(s.cyl, b.at) \/ (InLos(b, s.cyl, p) /\ g \notin hidden)
         \/ ~MayStep(b, p)
      THEN s
      ELSE [body |-> [s.body EXCEPT ![g].at = ChaseTo(b, p)],
            cyl |-> MoveGuard(s.cyl, b.at, ChaseTo(b, p)),
            met |-> s.met \/ Meets(s.body, g, ChaseTo(b, p))]

ChaseAll(bs, cs, p, hidden) ==
  LET after[g \in 0 .. NGuards] ==
        IF g = 0 THEN [body |-> bs, cyl |-> cs, met |-> met]
        ELSE Chase(after[g - 1], g, p, hidden)
  IN  after[NGuards]

(* port_prop_tick_walk(): to one end of the path and back, and back at once *)
(* where the floor ends.                                                    *)
Patrol(b, toB) ==
  LET turned == IF Abs(b.at - (IF toB THEN PathB ELSE PathA)) <= Arrive THEN ~toB ELSE toB
      to == Toward(b.at, IF turned THEN PathB ELSE PathA)
  IN  IF to \in Floor THEN [at |-> to, goingB |-> turned]
      ELSE [at |-> b.at, goingB |-> ~turned]

(* maybe_spawn_death_drops(): the first tick a body is found dead. *)
Drops(b, cs) == [b EXCEPT !.dropped = IF DeadAt(cs, b.at) /\ @ = 0 THEN 1 ELSE @]

-------------------------------------------------------------------------------
InRange(p) == {g \in Guards : Dist(body[g], p) \in MinFire .. FireRange}

(* The guards' part of port_sim_tick(), once the player stands at p. *)
GuardTick(bs, cs, p, hp) == \E hidden \in SUBSET InRange(p) :
  LET cd == IF fireCd > 0 THEN fireCd - 1 ELSE 0
      sees == {g \in Guards : InLos(bs[g], cs, p) /\ g \notin hidden}
      noticed == [g \in Guards |-> Noticed(bs[g], g \in sees)]
      fires == {g \in sees : noticed[g].alerted /\ cd = 0}
      s == ChaseAll(noticed, cs, p, hidden)
      w == s.body[Walker]
      walks == sees = {} /\ ~w.alerted /\ ~DeadAt(s.cyl, w.at)
      step == Patrol(w, goingB)
      moved == IF walks THEN [s.body EXCEPT ![Walker].at = step.at] ELSE s.body
      cyls == IF walks THEN MoveGuard(s.cyl, w.at, step.at) ELSE s.cyl
  IN  IF hp = 0
      THEN /\ body' = [g \in Guards |-> Drops(bs[g], cs)]
           /\ cyl' = cs /\ health' = hp
           /\ UNCHANGED <<fireCd, goingB, met>>
      ELSE /\ body' = [g \in Guards |-> Drops(moved[g], cyls)]
           /\ cyl' = cyls
           /\ fireCd' = IF fires # {} THEN Cooldown ELSE cd
           /\ goingB' = IF walks THEN step.goingB ELSE goingB
           /\ met' = (s.met \/ (walks /\ Meets(s.body, Walker, step.at)))
           /\ \E hits \in 0 .. Cardinality(fires) :
                health' = IF hits >= hp THEN 0 ELSE hp - hits

Stays == {p \in Corridor : Abs(p - player) <= 1}

(* The player walks or stands. *)
QuietTick ==
  \E p \in IF health = 0 THEN {player} ELSE Stays :
    /\ player' = p
    /\ GuardTick(body, cyl, p, health)
    /\ UNCHANGED shot

(* fire_hitscan(): the body that is nearest on the ray, if any, is marked   *)
(* at its place; the shot is heard.                                         *)
FireTick ==
  /\ health > 0
  /\ \E p \in Stays :
       /\ player' = p
       /\ \/ /\ GuardTick(AfterShot(body, cyl, p), cyl, p, health)
             /\ UNCHANGED shot
          \/ \E g \in Guards :
               /\ ~DeadAt(cyl, body[g].at)
               /\ shot' = shot \cup {g}
               /\ LET cs == MarkAt(cyl, body[g].at)
                  IN GuardTick(AfterShot(body, cs, p), cs, p, health)

(* port_player_respawn_seat(); the guards keep what they know. *)
RespawnTick ==
  /\ health = 0
  /\ player' = Spawn
  /\ GuardTick(body, cyl, Spawn, MaxHealth)
  /\ UNCHANGED shot

GuardsNext == QuietTick \/ FireTick \/ RespawnTick

GuardsInit ==
  /\ player = Spawn /\ health = MaxHealth
  /\ body = [g \in Guards |->
               [at |-> Posts[g], alerted |-> FALSE, notice |-> 0, dropped |-> 0]]
  /\ cyl = [g \in Guards |-> [at |-> Posts[g], hit |-> FALSE]]
  /\ goingB = TRUE /\ fireCd = 0
  /\ shot = {} /\ met = \E g, h \in Guards : g < h /\ Posts[g] = Posts[h]

GuardsSpec == GuardsInit /\ [][GuardsNext]_guardVars

-------------------------------------------------------------------------------
Body == [at : Floor, alerted : BOOLEAN, notice : 0 .. NoticeTicks, dropped : {0, 1}]
Cylinder == [at : Floor, hit : BOOLEAN]

GuardsTypeOK ==
  /\ player \in Corridor /\ health \in 0 .. MaxHealth
  /\ body \in [Guards -> Body] /\ cyl \in [Guards -> Cylinder]
  /\ \A g \in Guards : ~body[g].alerted => body[g].notice < NoticeTicks
  /\ goingB \in BOOLEAN /\ fireCd \in 0 .. Cooldown
  /\ shot \subseteq Guards /\ met \in BOOLEAN

Dead(g) == DeadAt(cyl, body[g].at)

(* As long as no two bodies were at one place, the dead are those that were *)
(* shot, and every body has its cylinder under it.                          *)
OwnCylinder ==
  ~met => \A g \in Guards : cyl[g].at = body[g].at /\ (Dead(g) <=> g \in shot)

(* "Hitscan / hide-body / pad-kill use the stan cylinder.  Keep it on this  *)
(* body": the dead are those that were shot.                                *)
OnlyShotDie == \A g \in Guards : Dead(g) <=> g \in shot

(* A dead guard stays where it fell, hears nothing and never shoots. *)
LieStill ==
  ~met' /\ body' # body => \A g \in Guards : Dead(g) =>
    body'[g].at = body[g].at /\ body'[g].alerted = body[g].alerted
DeadStay == [][LieStill]_guardVars
===============================================================================
