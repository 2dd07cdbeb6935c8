------------------------------- MODULE MatchSim -------------------------------
(***************************************************************************)
(* One engine of a running match: life, guns, pickups, guards and score    *)
(* (src/port/vi/sim_tick.c and what it calls in player/move.c, player/     *)
(* gun.c, mp/score.c and fs/prop.c).  A tick gives every seat its turn, in *)
(* seat order, and then the world its own.                                 *)
(*                                                                         *)
(* Abstracted: geometry.  Which ray hits what, who stands in whose fire    *)
(* box or on which pickup, whether a door is in reach, is chosen freely,   *)
(* within what the code asks of the target (alive, not the shooter, not    *)
(* taken).  A guard is one target here; that its hit cylinder is looked up *)
(* by position is not in this module, nor are the lone patrol of a match   *)
(* without assets, doors, chases and animation.                            *)
(***************************************************************************)
EXTENDS Integers, FiniteSets

CONSTANTS
  N,           \* port_player_count()
  View,        \* the seat on screen, current between ticks
  Guards,      \* setup guards, each holding a gun
  Pickups,     \* pickups of the setup: a set of <<kind, name>>
  Rifles,      \* guards that hold a KF7; the others hold an MP5K
  HealthMax, ArmourMax, ArmourAdd,        \* PORT_PLAYER_*_MAX, armour pickup
  SpawnTicks, AutoTicks,                  \* PORT_RESPAWN_Z_TICKS, _AUTO_TICKS
  PistolMag, RifleMag, SpareStart, AmmoAdd, \* PORT_PP7_MAG, _KF7_MAG, ...
  NoticeTicks, Cooldown,                  \* PORT_GUARD_NOTICE_TICKS, _FIRE_COOLDOWN
  TimeLimits, PointLimits                 \* limits a match can be configured with

Seats == 0 .. N - 1
Buttons == {"fire", "use"}
Weapons == {"pp7", "kf7", "mp5k"}
Kinds == {"armour", "ammo"}

ASSUME MatchSimAssumption ==
  /\ N \in Nat \ {0} /\ View \in Seats
  /\ IsFiniteSet(Guards) /\ Rifles \subseteq Guards /\ Guards \cap Pickups = {}
  /\ \A i \in Pickups : i[1] \in Kinds
  /\ {HealthMax, ArmourMax, ArmourAdd, SpawnTicks, AutoTicks, PistolMag, RifleMag,
      AmmoAdd, NoticeTicks, Cooldown} \subseteq Nat \ {0}
  /\ SpareStart \in Nat
  /\ SpawnTicks <= AutoTicks /\ PistolMag <= RifleMag
  /\ TimeLimits \subseteq Nat /\ PointLimits \subseteq Nat

VARIABLES
  limit,      \* [time, points]: what configure_match() set; 0 is "no limit"
  ply,        \* ply[s]: health, armour, dead (ticks) and prev (buttons)
  gun,        \* gun[s]: weapon, mag, nine, rifle, prev (fire held), suppress
  guard,      \* guard[g]: alive, alerted, notice
  cd,         \* g_fire_cd
  held,       \* guards whose gun has not been dropped yet
  floor,      \* pickups and dropped guns that lie there
  score,      \* kills[s], count, elapsed, over
  turn, phase, \* whose turn of the tick it is (N: the world), and its part
  pad,        \* the buttons of the seat whose turn it is
  shots, given, slain \* history: rounds fired and received in this life;
                      \* seats shot dead

world == <<limit, ply, gun, guard, cd, held, floor, score>>
vars == <<world, turn, phase, pad, shots, given, slain>>

-------------------------------------------------------------------------------
(* Life: port_player_damage(), port_player_add_armour(). *)
Least(a, b) == IF a < b THEN a ELSE b

(* n hits of damage 1: armour takes them first, the dead take none. *)
Damaged(p, n) ==
  LET taken == Least(p.armour, n)
  IN  IF p.health = 0 THEN p
      ELSE [p EXCEPT !.armour = @ - taken, !.health = @ - Least(@, n - taken)]

Armoured(p) == [p EXCEPT !.armour = Least(@ + ArmourAdd, ArmourMax)]

FreshPlayer == [health |-> HealthMax, armour |-> 0, dead |-> 0, prev |-> {}]

(* Guns: port_gun_reset_seat(), reload(), port_gun_collect_model(). *)
FreshGun ==
  [weapon |-> "pp7", mag |-> PistolMag, nine |-> SpareStart, rifle |-> 0,
   prev |-> FALSE, suppress |-> FALSE]

MagSize(w) == IF w = "pp7" THEN PistolMag ELSE RifleMag
AmmoOf(w) == IF w = "kf7" THEN "rifle" ELSE "nine"

\* Mutant: the rounds are loaded without leaving the reserve.
ReloadedFree(g) ==
  [g EXCEPT !.mag = @ + Least(MagSize(g.weapon) - @, g[AmmoOf(g.weapon)])]

(* As many rounds of the weapon's type as fit go from reserve to magazine. *)
Reloaded(g) ==
  LET take == Least(MagSize(g.weapon) - g.mag, g[AmmoOf(g.weapon)])
  IN  [g EXCEPT !.mag = @ + take, ![AmmoOf(g.weapon)] = @ - take]

(* The magazine goes back to its own reserve, the new type gets AmmoAdd. *)
Collected(g, w) ==
  LET unloaded == [g EXCEPT ![AmmoOf(g.weapon)] = @ + g.mag, !.mag = 0, !.weapon = w]
  IN  Reloaded([unloaded EXCEPT ![AmmoOf(w)] = @ + AmmoAdd])

(* Score: check_over(), port_score_add_kill(), port_score_winner(). *)
Checked(sc) ==
  [sc EXCEPT !.over = \/ @
                      \/ limit.time > 0 /\ sc.elapsed >= limit.time
                      \/ limit.points > 0 /\ \E s \in Seats : sc.kills[s] >= limit.points]

\* Mutant: only the clock is checked, once per tick.
KilledLate(sc, s) == [sc EXCEPT !.count = @ + 1, !.kills[s] = @ + 1]

Killed(sc, s) == Checked([sc EXCEPT !.count = @ + 1, !.kills[s] = @ + 1])

Clocked(sc) ==
  IF sc.over THEN sc
  ELSE Checked([sc EXCEPT !.elapsed = IF limit.time > 0 THEN @ + 1 ELSE @])

(* The seat with the most kills; -1 on a tie or without a kill. *)
Winner(sc) ==
  LET Leads(s) == sc.kills[s] > 0 /\ \A t \in Seats \ {s} : sc.kills[t] < sc.kills[s]
  IN  IF \E s \in Seats : Leads(s) THEN CHOOSE s \in Seats : Leads(s) ELSE -1

Living(s) == ply[s].health > 0
LivingGuards == {g \in Guards : guard[g].alive}
DeadGuards == Guards \ LivingGuards

-------------------------------------------------------------------------------
(* begin_match: everyone spawned, guns, guards and score reset. *)
Init ==
  /\ limit \in [time : TimeLimits, points : {0}] \cup [time : {0}, points : PointLimits]
  /\ ply = [s \in Seats |-> FreshPlayer]
  /\ gun = [s \in Seats |-> FreshGun]
  /\ guard = [g \in Guards |-> [alive |-> TRUE, alerted |-> FALSE, notice |-> 0]]
  /\ cd = 0
  /\ held = Guards
  /\ floor = Pickups
  /\ score = [kills |-> [s \in Seats |-> 0], count |-> 0, elapsed |-> 0, over |-> FALSE]
  /\ turn = 0 /\ phase = "player" /\ pad = {}
  /\ shots = [s \in Seats |-> 0]
  /\ given = [s \in Seats |-> PistolMag + SpareStart]
  /\ slain = 0

\* Mutant: the guard is not marked as having dropped its gun.
DropGunsAgain(placed) ==
  /\ held' = held
  /\ floor' = floor \cup (placed \cap held \cap DeadGuards)

(* maybe_spawn_death_drops(): every gun a dead guard still holds is dropped; *)
(* where there is no floor for it, it is gone.                              *)
DropGuns(placed) ==
  /\ held' = held \ DeadGuards
  /\ floor' = floor \cup (placed \cap held \cap DeadGuards)

Rising(s, b, k) == k \in b /\ k \notin ply[s].prev

\* Mutant: the gun of the last life is kept.
RespawnKeepsGun(s) ==
  /\ ply' = [ply EXCEPT ![s] = FreshPlayer]
  /\ UNCHANGED <<gun, shots, given>>

Respawn(s) ==
  /\ ply' = [ply EXCEPT ![s] = FreshPlayer]
  /\ gun' = [gun EXCEPT ![s] = FreshGun]
  /\ shots' = [shots EXCEPT ![s] = 0]
  /\ given' = [given EXCEPT ![s] = PistolMag + SpareStart]

SeatsTurn(s, p) == turn = s /\ phase = p

(* port_player_tick() when the match is over: the buttons are noted. *)
FrozenTurn(s, b) ==
  /\ score.over
  /\ ply' = [ply EXCEPT ![s].prev = b]
  /\ UNCHANGED <<gun, shots, given>>

DeadLongEnough(s, b) ==
  LET n == ply[s].dead + 1
  IN  n >= AutoTicks \/ (n >= SpawnTicks /\ \E k \in Buttons : Rising(s, b, k))

\* Mutant: the count is reset before the seat is asked whether it lives.
DeadUncounted(s, b) ==
  /\ ~score.over /\ ~Living(s)
  /\ ply' = [ply EXCEPT ![s].dead = 0, ![s].prev = b]
  /\ UNCHANGED <<gun, shots, given>>

(* A dead seat waits, and respawns by itself or on a fresh press. *)
DeadTurn(s, b) ==
  /\ ~score.over /\ ~Living(s)
  /\ \/ DeadLongEnough(s, b) /\ Respawn(s)
     \/ /\ ~DeadLongEnough(s, b)
        /\ ply' = [ply EXCEPT ![s].dead = @ + 1, ![s].prev = b]
        /\ UNCHANGED <<gun, shots, given>>

(* A living seat moves; a fresh "use" on a door in reach (door) holds its  *)
(* fire.                                                                    *)
LivingTurn(s, b, door) ==
  /\ ~score.over /\ Living(s)
  /\ ply' = [ply EXCEPT ![s].dead = 0, ![s].prev = b]
  /\ gun' = [gun EXCEPT ![s].suppress = @ \/ door]
  /\ UNCHANGED <<shots, given>>

PlayerTick(s, b, door, placed) ==
  /\ SeatsTurn(s, "player")
  /\ door => Living(s) /\ Rising(s, b, "use")
  /\ FrozenTurn(s, b) \/ DeadTurn(s, b) \/ LivingTurn(s, b, door)
  /\ DropGuns(placed)
  /\ phase' = "pickup" /\ pad' = b
  /\ UNCHANGED <<limit, guard, cd, score, turn, slain>>

HeldWeapon(g) == IF g \in Rifles THEN "kf7" ELSE "mp5k"

(* port_prop_tick_pickup(): a living seat takes what lies in its reach. *)
TakePickup(s, i) ==
  /\ SeatsTurn(s, "pickup") /\ Living(s)
  /\ i \in floor /\ floor' = floor \ {i}
  /\ \/ i \in Guards /\ gun' = [gun EXCEPT ![s] = Collected(@, HeldWeapon(i))]
        /\ given' = [given EXCEPT ![s] = @ + AmmoAdd] /\ UNCHANGED ply
     \/ i \in Pickups /\ i[1] = "ammo" /\ gun' = [gun EXCEPT ![s].nine = @ + AmmoAdd]
        /\ given' = [given EXCEPT ![s] = @ + AmmoAdd] /\ UNCHANGED ply
     \/ i \in Pickups /\ i[1] = "armour" /\ ply' = [ply EXCEPT ![s] = Armoured(@)]
        /\ UNCHANGED <<gun, given>>
  /\ UNCHANGED <<limit, guard, cd, held, score, turn, phase, pad, shots, slain>>

\* Mutant: a seat that lies dead still stops the shot and is scored again.
TargetsWithDead(s) == {<<"seat", t>> : t \in Seats \ {s}}
                      \cup {<<"guard", g>> : g \in LivingGuards} \cup {<<"wall">>}

(* What fire_hitscan() can hit: another living seat, a living guard, nothing. *)
Targets(s) ==
  {<<"seat", t>> : t \in {t \in Seats \ {s} : Living(t)}}
  \cup {<<"guard", g>> : g \in LivingGuards} \cup {<<"wall">>}

(* port_prop_hear_player_shot(): living guards in earshot are alerted. *)
Heard(gs, near) ==
  guard' = [g \in Guards |-> [gs[g] EXCEPT !.alerted = @ \/ (g \in near /\ gs[g].alive)]]

(* A round leaves the magazine and hits its target; a death is scored.      *)
(* Nothing asks whether the match is over.                                  *)
Shoot(s, target, near, g) ==
  /\ gun' = [gun EXCEPT ![s] = [g EXCEPT !.mag = @ - 1]]
  /\ shots' = [shots EXCEPT ![s] = @ + 1]
  /\ \/ target[1] = "wall" /\ Heard(guard, near) /\ UNCHANGED <<ply, score, slain>>
     \/ /\ target[1] = "guard"
        /\ Heard([guard EXCEPT ![target[2]].alive = FALSE], near)
        /\ score' = Killed(score, s)
        /\ UNCHANGED <<ply, slain>>
     \/ LET hit == Damaged(ply[target[2]], 1)
        IN  /\ target[1] = "seat"
            /\ Heard(guard, near)
            /\ ply' = [ply EXCEPT ![target[2]] = hit]
            /\ score' = IF hit.health = 0 THEN Killed(score, s) ELSE score
            /\ slain' = IF Living(target[2]) /\ hit.health = 0 THEN slain + 1 ELSE slain

\* Mutant: nobody asks whether the seat lives.
FiresDead(s) == "fire" \in pad /\ ~gun[s].prev /\ ~gun[s].suppress

(* A fresh press of a living seat that did not just use a door. *)
Fires(s) == "fire" \in pad /\ ~gun[s].prev /\ ~gun[s].suppress /\ Living(s)

(* port_gun_tick(): the buttons are noted; a shot, a reload or a dry click. *)
GunTick(s, target, near) ==
  LET g == [gun[s] EXCEPT !.prev = "fire" \in pad, !.suppress = FALSE]
  IN  /\ SeatsTurn(s, "pickup")
      /\ \/ /\ Fires(s) /\ g.mag > 0
            /\ target \in Targets(s) /\ Shoot(s, target, near, g)
         \/ /\ ~(Fires(s) /\ g.mag > 0) /\ target = <<"wall">> /\ near = {}
            /\ gun' = [gun EXCEPT ![s] = IF Fires(s) THEN Reloaded(g) ELSE g]
            /\ UNCHANGED <<ply, guard, score, shots, slain>>
      /\ turn' = s + 1 /\ phase' = "player" /\ pad' = {}
      /\ UNCHANGED <<limit, cd, held, floor, given>>

(* What a guard in the fire box notes; one out of it forgets. *)
Noticed(g, seen) ==
  IF ~seen THEN [g EXCEPT !.notice = 0]
  ELSE IF g.alerted THEN g
  ELSE [g EXCEPT !.notice = @ + 1, !.alerted = @ \/ g.notice + 1 >= NoticeTicks]

(* port_prop_tick_guard_fire(): every guard that sees the current player    *)
(* notices it, and the alerted ones shoot together when the cooldown is up. *)
GuardsFire(seen, hit) ==
  LET noticed == [g \in Guards |-> Noticed(guard[g], g \in seen)]
      ready == IF cd > 1 THEN {} ELSE {g \in seen : noticed[g].alerted}
  IN  /\ guard' = noticed
      /\ cd' = IF ready # {} THEN Cooldown ELSE IF cd > 0 THEN cd - 1 ELSE 0
      /\ ply' = [ply EXCEPT ![View] = Damaged(@, Cardinality(ready \cap hit))]

(* The world's turn: guards, unless the seat on screen is dead; dropped     *)
(* guns; the clock.  sees[s] are the guards that have seat s in their sight *)
(* and range, hit those whose ray meets its target.                         *)
WorldTick(sees, hit, placed) ==
  /\ turn = N
  /\ \/ Living(View) /\ GuardsFire(sees[View] \cap LivingGuards, hit)
     \/ ~Living(View) /\ UNCHANGED <<guard, cd, ply>>
  /\ DropGuns(placed)
  /\ score' = Clocked(score)
  /\ turn' = 0
  /\ UNCHANGED <<limit, gun, phase, pad, shots, given, slain>>

Sights == [Seats -> SUBSET Guards]
Drops == SUBSET (held \cap DeadGuards)

Next ==
  \/ \E s \in Seats :
       \/ \E b \in SUBSET Buttons, door \in BOOLEAN, placed \in Drops :
            PlayerTick(s, b, door, placed)
       \/ \E i \in floor : TakePickup(s, i)
       \/ \E target \in Targets(s), near \in SUBSET LivingGuards : GunTick(s, target, near)
  \/ \E sees \in Sights, hit \in SUBSET Guards, placed \in Drops : WorldTick(sees, hit, placed)

Spec == Init /\ [][Next]_vars

-------------------------------------------------------------------------------
PlayerType ==
  [health : 0 .. HealthMax, armour : 0 .. ArmourMax, dead : 0 .. AutoTicks - 1,
   prev : SUBSET Buttons]
GunType ==
  [weapon : Weapons, mag : 0 .. RifleMag, nine : Nat, rifle : Nat,
   prev : BOOLEAN, suppress : BOOLEAN]
GuardType == [alive : BOOLEAN, alerted : BOOLEAN, notice : 0 .. NoticeTicks]
ScoreType == [kills : [Seats -> Nat], count : Nat, elapsed : Nat, over : BOOLEAN]

(* The types; no magazine holds more than fits, no one more health or       *)
(* armour than there is, no one lies dead as long as AutoTicks, and no      *)
(* guard has noticed enough and is still not alerted.                       *)
TypeOK ==
  /\ limit \in [time : Nat, points : Nat]
  /\ ply \in [Seats -> PlayerType]
  /\ gun \in [Seats -> GunType]
  /\ \A s \in Seats : gun[s].mag <= MagSize(gun[s].weapon)
  /\ guard \in [Guards -> GuardType]
  /\ \A g \in Guards : guard[g].alerted \/ guard[g].notice < NoticeTicks
  /\ cd \in 0 .. Cooldown
  /\ held \subseteq Guards /\ floor \subseteq Guards \cup Pickups
  /\ score \in ScoreType
  /\ turn \in 0 .. N /\ phase \in {"player", "pickup"} /\ pad \in SUBSET Buttons
  /\ shots \in [Seats -> Nat] /\ given \in [Seats -> Nat] /\ slain \in Nat

(* Reloading, changing weapons and picking up neither lose nor make a       *)
(* round: what a seat holds, in the magazine and in both reserves, and what *)
(* it fired in this life is what it was given in this life.                 *)
AmmoConserved ==
  \A s \in Seats : gun[s].mag + gun[s].nine + gun[s].rifle + shots[s] = given[s]

(* Every kill on the board is one death: of a seat that was shot, or of a   *)
(* guard; none is counted twice and none is missed, before and after the    *)
(* match is over.                                                           *)
KillsAreDeaths == score.count = slain + Cardinality(DeadGuards)

(* The match is over exactly when a limit has been reached. *)
OverAtLimit ==
  score.over <=> \/ limit.time > 0 /\ score.elapsed >= limit.time
                 \/ limit.points > 0 /\ \E s \in Seats : score.kills[s] >= limit.points

(* A gun is in one place: in the hands of a living guard (or of one that    *)
(* died since the last look), or on the floor, or gone; and a guard's gun   *)
(* lies on the floor only once the guard is dead.                           *)
OneGunEach ==
  /\ held \cap floor = {}
  /\ LivingGuards \subseteq held
  /\ turn = 0 /\ phase = "player" => held = LivingGuards

(* Who dies stays down for SpawnTicks turns and comes back whole. *)
RespawnIsWhole ==
  [][\A s \in Seats :
       ply[s].health = 0 /\ ply'[s].health > 0 =>
         /\ ply[s].dead + 1 >= SpawnTicks
         /\ ~score.over
         /\ ply'[s] = FreshPlayer /\ gun'[s] = FreshGun]_vars

(* The dead do nothing: a seat with no health fires no round, takes no      *)
(* pickup and scores no kill.                                               *)
DeadAreIdle ==
  [][\A s \in Seats :
       ~Living(s) /\ ply'[s].health = 0 =>
         /\ shots'[s] = shots[s] /\ given'[s] = given[s]
         /\ score'.kills[s] = score.kills[s]]_vars

(* Once the match is over its result stands. *)
ResultStands == [][score.over => Winner(score') = Winner(score)]_vars

-------------------------------------------------------------------------------
(* Fairness: the paint loop keeps running ticks. *)
FairSpec == Spec /\ WF_vars(Next)

(* Nobody stays dead: as long as the match is on, a dead seat lives again. *)
DeadReturn ==
  \A s \in Seats : ply[s].health = 0 ~> (ply[s].health > 0 \/ score.over)
===============================================================================
