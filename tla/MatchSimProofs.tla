---------------------------- MODULE MatchSimProofs ----------------------------
(***************************************************************************)
(* What MatchSim keeps for every number of seats, guards and pickups and   *)
(* every value of its limits, magazines and waits: the types, the ammo     *)
(* balance, the kill count, the end of the match and the place of every    *)
(* gun.  Their conjunction is inductive.                                   *)
(***************************************************************************)
EXTENDS MatchSim, FiniteSetTheorems, TLAPS

IInv == TypeOK /\ AmmoConserved /\ KillsAreDeaths /\ OverAtLimit /\ OneGunEach

(* The rounds in a gun and its reserves. *)
Rounds(g) == g.mag + g.nine + g.rifle

-------------------------------------------------------------------------------
(* Operators on one player, gun, guard or score. *)
LEMMA LeastFact ==
  ASSUME NEW a \in Nat, NEW b \in Nat
  PROVE  /\ Least(a, b) \in Nat
         /\ Least(a, b) <= a /\ Least(a, b) <= b
         /\ Least(a, b) = a \/ Least(a, b) = b
BY DEF Least

LEMMA DamagedFact ==
  ASSUME NEW p \in PlayerType, NEW n \in Nat
  PROVE  /\ Damaged(p, n) \in PlayerType
         /\ p.health = 0 => Damaged(p, n).health = 0
<1>1. CASE p.health = 0
  BY <1>1 DEF Damaged
<1>2. CASE p.health # 0
  <2>. DEFINE taken == Least(p.armour, n)
              armour == p.armour - taken
              health == p.health - Least(p.health, n - taken)
  <2>1. p.armour \in 0 .. ArmourMax /\ p.health \in 0 .. HealthMax
    BY DEF PlayerType
  <2>1a. p.armour \in Nat /\ p.health \in Nat
    BY <2>1, MatchSimAssumption
  <2>2. taken \in Nat /\ taken <= p.armour /\ taken <= n
    BY <2>1a, LeastFact
  <2>3. n - taken \in Nat
    <3>. HIDE DEF taken
    <3>. QED BY <2>2
  <2>4. Least(p.health, n - taken) \in Nat /\ Least(p.health, n - taken) <= p.health
    <3>. HIDE DEF taken
    <3>. QED BY <2>1a, <2>3, LeastFact
  <2>5. armour \in 0 .. ArmourMax /\ health \in 0 .. HealthMax
    <3>. HIDE DEF taken
    <3>. QED BY <2>1, <2>2, <2>4, MatchSimAssumption
  <2>6. Damaged(p, n) = [p EXCEPT !.armour = armour, !.health = health]
    BY <1>2 DEF Damaged
  <2>. HIDE DEF armour, health
  <2>. QED BY <1>2, <2>5, <2>6 DEF PlayerType
<1>. QED BY <1>1, <1>2

LEMMA FreshFact ==
  /\ FreshPlayer \in PlayerType /\ FreshPlayer.health > 0
  /\ FreshGun \in GunType /\ FreshGun.mag <= MagSize(FreshGun.weapon)
  /\ Rounds(FreshGun) = PistolMag + SpareStart
BY MatchSimAssumption
   DEF FreshPlayer, FreshGun, PlayerType, GunType, Weapons, Buttons, MagSize, Rounds

LEMMA ArmouredFact ==
  ASSUME NEW p \in PlayerType
  PROVE  Armoured(p) \in PlayerType
BY MatchSimAssumption DEF Armoured, PlayerType, Least

LEMMA ReloadedFact ==
  ASSUME NEW g \in GunType, g.mag <= MagSize(g.weapon)
  PROVE  /\ Reloaded(g) \in GunType
         /\ Reloaded(g).mag <= MagSize(Reloaded(g).weapon)
         /\ Rounds(Reloaded(g)) = Rounds(g)
<1>. DEFINE room == MagSize(g.weapon) - g.mag
            take == Least(room, g[AmmoOf(g.weapon)])
<1>1. g.mag \in Nat /\ g.nine \in Nat /\ g.rifle \in Nat
  BY MatchSimAssumption DEF GunType
<1>2. MagSize(g.weapon) \in Nat /\ MagSize(g.weapon) <= RifleMag
  BY MatchSimAssumption DEF MagSize
<1>3. room \in Nat
  BY <1>1, <1>2
<1>4. CASE g.weapon = "kf7"
  <2>. DEFINE mag == g.mag + take
              left == g.rifle - take
  <2>1. take \in Nat /\ take <= room /\ take <= g.rifle
    BY <1>1, <1>3, <1>4, LeastFact DEF AmmoOf
  <2>2. /\ mag \in 0 .. RifleMag /\ mag <= MagSize(g.weapon)
        /\ left \in Nat /\ mag + left = g.mag + g.rifle
    <3>. HIDE DEF take
    <3>. QED BY <1>1, <1>2, <2>1, MatchSimAssumption
  <2>3. Reloaded(g) = [g EXCEPT !.mag = mag, !.rifle = left]
    BY <1>4 DEF Reloaded, AmmoOf
  <2>. HIDE DEF mag, left
  <2>4. /\ Reloaded(g) \in GunType /\ Reloaded(g).mag = mag /\ Reloaded(g).rifle = left
        /\ Reloaded(g).weapon = g.weapon
        /\ Reloaded(g).nine = g.nine
    BY <2>2, <2>3 DEF GunType
  <2>5. mag \in Nat
    BY <2>2, MatchSimAssumption
  <2>. QED BY <1>1, <2>2, <2>4, <2>5 DEF Rounds
<1>5. CASE g.weapon # "kf7"
  <2>. DEFINE mag == g.mag + take
              left == g.nine - take
  <2>1. take \in Nat /\ take <= room /\ take <= g.nine
    BY <1>1, <1>3, <1>5, LeastFact DEF AmmoOf
  <2>2. /\ mag \in 0 .. RifleMag /\ mag <= MagSize(g.weapon)
        /\ left \in Nat /\ mag + left = g.mag + g.nine
    <3>. HIDE DEF take
    <3>. QED BY <1>1, <1>2, <2>1, MatchSimAssumption
  <2>3. Reloaded(g) = [g EXCEPT !.mag = mag, !.nine = left]
    BY <1>5 DEF Reloaded, AmmoOf
  <2>. HIDE DEF mag, left
  <2>4. /\ Reloaded(g) \in GunType /\ Reloaded(g).mag = mag /\ Reloaded(g).nine = left
        /\ Reloaded(g).weapon = g.weapon
        /\ Reloaded(g).rifle = g.rifle
    BY <2>2, <2>3 DEF GunType
  <2>5. mag \in Nat
    BY <2>2, MatchSimAssumption
  <2>. QED BY <1>1, <2>2, <2>4, <2>5 DEF Rounds
<1>. QED BY <1>4, <1>5

LEMMA CollectedFact ==
  ASSUME NEW g \in GunType, NEW w \in Weapons
  PROVE  /\ Collected(g, w) \in GunType
         /\ Collected(g, w).mag <= MagSize(Collected(g, w).weapon)
         /\ Rounds(Collected(g, w)) = Rounds(g) + AmmoAdd
<1>. DEFINE unloaded == [g EXCEPT ![AmmoOf(g.weapon)] = @ + g.mag, !.mag = 0, !.weapon = w]
            added == [unloaded EXCEPT ![AmmoOf(w)] = @ + AmmoAdd]
<1>1. g.mag \in Nat /\ g.nine \in Nat /\ g.rifle \in Nat
  BY MatchSimAssumption DEF GunType
<1>2. unloaded \in GunType /\ unloaded.mag = 0 /\ unloaded.weapon = w /\ Rounds(unloaded) = Rounds(g)
  <2>1. CASE g.weapon = "kf7"
    <3>. DEFINE more == g.rifle + g.mag
    <3>1. unloaded = [g EXCEPT !.rifle = more, !.mag = 0, !.weapon = w]
      BY <2>1 DEF AmmoOf
    <3>2. more \in Nat /\ 0 \in 0 .. RifleMag
      BY <1>1, MatchSimAssumption
    <3>. HIDE DEF more, unloaded
    <3>3. /\ unloaded \in GunType /\ unloaded.mag = 0 /\ unloaded.weapon = w
          /\ unloaded.rifle = more /\ unloaded.nine = g.nine
      BY <3>1, <3>2 DEF GunType
    <3>. QED BY <1>1, <3>3 DEF Rounds, more
  <2>2. CASE g.weapon # "kf7"
    <3>. DEFINE more == g.nine + g.mag
    <3>1. unloaded = [g EXCEPT !.nine = more, !.mag = 0, !.weapon = w]
      BY <2>2 DEF AmmoOf
    <3>2. more \in Nat /\ 0 \in 0 .. RifleMag
      BY <1>1, MatchSimAssumption
    <3>. HIDE DEF more, unloaded
    <3>3. /\ unloaded \in GunType /\ unloaded.mag = 0 /\ unloaded.weapon = w
          /\ unloaded.nine = more /\ unloaded.rifle = g.rifle
      BY <3>1, <3>2 DEF GunType
    <3>. QED BY <1>1, <3>3 DEF Rounds, more
  <2>. QED BY <2>1, <2>2
<1>. HIDE DEF unloaded
<1>3. added \in GunType /\ added.mag = 0 /\ added.weapon = w /\ Rounds(added) = Rounds(g) + AmmoAdd
  <2>1. CASE w = "kf7"
    <3>1. added = [unloaded EXCEPT !.rifle = @ + AmmoAdd]
      BY <2>1 DEF AmmoOf
    <3>. QED BY <3>1, <1>1, <1>2, MatchSimAssumption DEF GunType, Rounds
  <2>2. CASE w # "kf7"
    <3>1. added = [unloaded EXCEPT !.nine = @ + AmmoAdd]
      BY <2>2 DEF AmmoOf
    <3>. QED BY <3>1, <1>1, <1>2, MatchSimAssumption DEF GunType, Rounds
  <2>. QED BY <2>1, <2>2
<1>4. Collected(g, w) = Reloaded(added)
  BY DEF Collected, unloaded
<1>5. added.mag <= MagSize(added.weapon)
  BY <1>3, MatchSimAssumption DEF MagSize
<1>. HIDE DEF added
<1>. QED BY <1>3, <1>4, <1>5, ReloadedFact

LEMMA NoticedFact ==
  ASSUME NEW g \in GuardType, g.alerted \/ g.notice < NoticeTicks, NEW seen \in BOOLEAN
  PROVE  /\ Noticed(g, seen) \in GuardType
         /\ Noticed(g, seen).alerted \/ Noticed(g, seen).notice < NoticeTicks
         /\ Noticed(g, seen).alive = g.alive
<1>1. CASE ~seen
  BY <1>1, MatchSimAssumption DEF Noticed, GuardType
<1>2. CASE seen /\ g.alerted
  BY <1>2 DEF Noticed
<1>3. CASE seen /\ ~g.alerted
  <2>. DEFINE n == g.notice + 1
              enough == g.alerted \/ n >= NoticeTicks
  <2>1. Noticed(g, seen) = [g EXCEPT !.notice = n, !.alerted = enough]
    BY <1>3 DEF Noticed
  <2>2. n \in 0 .. NoticeTicks /\ (enough \/ n < NoticeTicks) /\ enough \in BOOLEAN
    BY <1>3, MatchSimAssumption DEF GuardType
  <2>. HIDE DEF n, enough
  <2>. QED BY <2>1, <2>2 DEF GuardType
<1>. QED BY <1>1, <1>2, <1>3

(* What makes a match over. *)
Reached(sc) ==
  \/ limit.time > 0 /\ sc.elapsed >= limit.time
  \/ limit.points > 0 /\ \E s \in Seats : sc.kills[s] >= limit.points

LEMMA KilledFact ==
  ASSUME TypeOK, NEW sc \in ScoreType, sc.over <=> Reached(sc), NEW s \in Seats
  PROVE  /\ Killed(sc, s) \in ScoreType
         /\ Killed(sc, s).count = sc.count + 1
         /\ Killed(sc, s).over <=> Reached(Killed(sc, s))
<1>. DEFINE raised == [sc EXCEPT !.count = @ + 1, !.kills[s] = @ + 1]
<1>1. limit.time \in Nat /\ limit.points \in Nat
  BY DEF TypeOK
<1>2. /\ raised \in ScoreType /\ raised.count = sc.count + 1
      /\ raised.over = sc.over /\ raised.elapsed = sc.elapsed
      /\ \A t \in Seats : raised.kills[t] >= sc.kills[t] /\ raised.kills[t] \in Nat
  <2>. DEFINE n == sc.count + 1
              k == [sc.kills EXCEPT ![s] = sc.kills[s] + 1]
  <2>1. n \in Nat /\ k \in [Seats -> Nat] /\ \A t \in Seats : k[t] >= sc.kills[t]
    BY DEF ScoreType
  <2>2. raised = [sc EXCEPT !.count = n, !.kills = k]
    OBVIOUS
  <2>. HIDE DEF n, k, raised
  <2>3. /\ raised \in ScoreType /\ raised.count = n /\ raised.kills = k
        /\ raised.over = sc.over /\ raised.elapsed = sc.elapsed
    BY <2>1, <2>2 DEF ScoreType
  <2>. QED BY <2>1, <2>3 DEF n
<1>3. Reached(sc) => Reached(raised)
  <2>1. ASSUME NEW t \in Seats, sc.kills[t] >= limit.points PROVE raised.kills[t] >= limit.points
    <3>1. sc.kills[t] \in Nat BY DEF ScoreType
    <3>. HIDE DEF raised
    <3>. QED BY <1>1, <1>2, <2>1, <3>1
  <2>. HIDE DEF raised
  <2>. QED BY <1>2, <2>1 DEF Reached
<1>. HIDE DEF raised
<1>4. Killed(sc, s) = [raised EXCEPT !.over = raised.over \/ Reached(raised)]
  BY DEF Killed, Checked, Reached, raised
<1>5. /\ Killed(sc, s).count = raised.count /\ Killed(sc, s).kills = raised.kills
      /\ Killed(sc, s).elapsed = raised.elapsed
      /\ Killed(sc, s).over = (raised.over \/ Reached(raised))
      /\ Killed(sc, s) \in ScoreType
  BY <1>2, <1>4 DEF ScoreType
<1>6. Reached(Killed(sc, s)) <=> Reached(raised)
  BY <1>5 DEF Reached
<1>. QED BY <1>2, <1>3, <1>5, <1>6

LEMMA ClockedFact ==
  ASSUME TypeOK, NEW sc \in ScoreType, sc.over <=> Reached(sc)
  PROVE  /\ Clocked(sc) \in ScoreType
         /\ Clocked(sc).count = sc.count
         /\ Clocked(sc).over <=> Reached(Clocked(sc))
<1>1. CASE sc.over
  BY <1>1 DEF Clocked
<1>2. CASE ~sc.over
  <2>. DEFINE later == [sc EXCEPT !.elapsed = IF limit.time > 0 THEN @ + 1 ELSE @]
  <2>1. later \in ScoreType /\ later.count = sc.count /\ later.over = sc.over
    BY DEF ScoreType
  <2>. HIDE DEF later
  <2>2. Clocked(sc) = [later EXCEPT !.over = later.over \/ Reached(later)]
    BY <1>2 DEF Clocked, Checked, Reached, later
  <2>3. /\ Clocked(sc).count = later.count /\ Clocked(sc).kills = later.kills
        /\ Clocked(sc).elapsed = later.elapsed
        /\ Clocked(sc).over = (later.over \/ Reached(later))
        /\ Clocked(sc) \in ScoreType
    BY <2>1, <2>2 DEF ScoreType
  <2>4. Reached(Clocked(sc)) <=> Reached(later)
    BY <2>3 DEF Reached
  <2>. QED BY <1>2, <2>1, <2>3, <2>4
<1>. QED BY <1>1, <1>2

-------------------------------------------------------------------------------
(* Parts of a step. *)
LEMMA HeardFact ==
  ASSUME NEW gs \in [Guards -> GuardType],
         \A g \in Guards : gs[g].alerted \/ gs[g].notice < NoticeTicks,
         NEW near, Heard(gs, near)
  PROVE  /\ guard' \in [Guards -> GuardType]
         /\ \A g \in Guards : guard'[g].alerted \/ guard'[g].notice < NoticeTicks
         /\ \A g \in Guards : guard'[g].alive = gs[g].alive
<1>1. ASSUME NEW g \in Guards
      PROVE  /\ guard'[g] \in GuardType
             /\ guard'[g].alerted \/ guard'[g].notice < NoticeTicks
             /\ guard'[g].alive = gs[g].alive
  <2>. DEFINE hears == gs[g].alerted \/ (g \in near /\ gs[g].alive)
  <2>1. guard'[g] = [gs[g] EXCEPT !.alerted = hears]
    BY DEF Heard
  <2>2. hears \in BOOLEAN /\ (gs[g].alerted => hears)
    BY DEF GuardType
  <2>. HIDE DEF hears
  <2>. QED BY <2>1, <2>2 DEF GuardType
<1>2. guard' = [g \in Guards |-> guard'[g]]
  BY DEF Heard
<1>. QED BY <1>1, <1>2

LEMMA DropFact ==
  ASSUME IInv, NEW placed, DropGuns(placed)
  PROVE  /\ held' = LivingGuards
         /\ floor' \subseteq Guards \cup Pickups
         /\ held' \cap floor' = {}
BY DEF IInv, TypeOK, OneGunEach, DropGuns, LivingGuards, DeadGuards

LEMMA DeadFact ==
  /\ IsFiniteSet(DeadGuards) /\ Cardinality(DeadGuards) \in Nat
BY MatchSimAssumption, FS_Subset, FS_CardinalityType DEF DeadGuards

LEMMA PlayerTickKeeps ==
  ASSUME IInv, NEW s \in Seats, NEW b \in SUBSET Buttons, NEW door \in BOOLEAN,
         NEW placed, PlayerTick(s, b, door, placed)
  PROVE  IInv'
<1>1. /\ ply' \in [Seats -> PlayerType] /\ gun' \in [Seats -> GunType]
      /\ shots' \in [Seats -> Nat] /\ given' \in [Seats -> Nat]
      /\ \A t \in Seats : /\ gun'[t].mag <= MagSize(gun'[t].weapon)
                          /\ Rounds(gun'[t]) + shots'[t] = given'[t]
  <2>0. /\ ply \in [Seats -> PlayerType] /\ gun \in [Seats -> GunType]
        /\ shots \in [Seats -> Nat] /\ given \in [Seats -> Nat]
        /\ \A t \in Seats : /\ gun[t].mag <= MagSize(gun[t].weapon)
                            /\ Rounds(gun[t]) + shots[t] = given[t]
    BY DEF IInv, TypeOK, AmmoConserved, Rounds
  <2>1. CASE FrozenTurn(s, b)
    BY <2>0, <2>1 DEF FrozenTurn, PlayerType
  <2>2. CASE DeadTurn(s, b) /\ DeadLongEnough(s, b)
    <3>1. Respawn(s)
      BY <2>2 DEF DeadTurn
    <3>2. PistolMag + SpareStart \in Nat
      BY MatchSimAssumption
    <3>. QED BY <2>0, <3>1, <3>2, FreshFact DEF Respawn
  <2>3. CASE DeadTurn(s, b) /\ ~DeadLongEnough(s, b)
    <3>1. /\ ply' = [ply EXCEPT ![s] = [ply[s] EXCEPT !.dead = ply[s].dead + 1, !.prev = b]]
          /\ UNCHANGED <<gun, shots, given>>
      BY <2>3 DEF DeadTurn
    <3>2. ply[s].dead + 1 \in 0 .. AutoTicks - 1
      BY <2>0, <2>3, MatchSimAssumption DEF DeadLongEnough, PlayerType
    <3>3. [ply[s] EXCEPT !.dead = ply[s].dead + 1, !.prev = b] \in PlayerType
      BY <2>0, <3>2 DEF PlayerType
    <3>. QED BY <2>0, <3>1, <3>3
  <2>4. CASE LivingTurn(s, b, door)
    <3>0. 0 \in 0 .. AutoTicks - 1
      BY MatchSimAssumption
    <3>1. [ply[s] EXCEPT !.dead = 0, !.prev = b] \in PlayerType
      BY <2>0, <3>0 DEF PlayerType
    <3>. DEFINE x == gun[s].suppress \/ door
                g == [gun[s] EXCEPT !.suppress = x]
    <3>2. /\ ply' = [ply EXCEPT ![s] = [ply[s] EXCEPT !.dead = 0, !.prev = b]]
          /\ gun' = [gun EXCEPT ![s] = g]
          /\ UNCHANGED <<shots, given>>
      BY <2>4 DEF LivingTurn
    <3>3. x \in BOOLEAN
      OBVIOUS
    <3>. HIDE DEF x
    <3>4. /\ g \in GunType /\ g.mag = gun[s].mag /\ g.weapon = gun[s].weapon
          /\ Rounds(g) = Rounds(gun[s])
      <4>1. /\ g \in GunType /\ g.mag = gun[s].mag /\ g.weapon = gun[s].weapon
            /\ g.nine = gun[s].nine /\ g.rifle = gun[s].rifle
        BY <2>0, <3>3 DEF GunType
      <4>. QED BY <4>1 DEF Rounds
    <3>. HIDE DEF g
    <3>5. ply' \in [Seats -> PlayerType]
      BY <2>0, <3>1, <3>2
    <3>6. /\ gun' \in [Seats -> GunType]
          /\ \A t \in Seats : /\ gun'[t].mag <= MagSize(gun'[t].weapon)
                              /\ Rounds(gun'[t]) = Rounds(gun[t])
      BY <2>0, <3>2, <3>4
    <3>. QED BY <2>0, <3>2, <3>5, <3>6
  <2>. QED BY <2>1, <2>2, <2>3, <2>4 DEF PlayerTick, DeadTurn
<1>2. /\ held' = LivingGuards /\ floor' \subseteq Guards \cup Pickups /\ held' \cap floor' = {}
  BY DropFact DEF PlayerTick
<1>3. /\ UNCHANGED <<limit, guard, cd, score, turn, slain>>
      /\ phase' = "pickup" /\ pad' = b
  BY DEF PlayerTick
<1>4. TypeOK'
  BY <1>1, <1>2, <1>3 DEF IInv, TypeOK, LivingGuards
<1>5. AmmoConserved' /\ KillsAreDeaths' /\ OverAtLimit'
  BY <1>1, <1>3 DEF IInv, AmmoConserved, Rounds, KillsAreDeaths, OverAtLimit, DeadGuards, LivingGuards
<1>6. OneGunEach'
  BY <1>2, <1>3 DEF OneGunEach, LivingGuards
<1>. QED BY <1>4, <1>5, <1>6 DEF IInv

LEMMA TakePickupKeeps ==
  ASSUME IInv, NEW s \in Seats, NEW i, TakePickup(s, i)
  PROVE  IInv'
<1>0. /\ ply \in [Seats -> PlayerType] /\ gun \in [Seats -> GunType]
      /\ shots \in [Seats -> Nat] /\ given \in [Seats -> Nat]
      /\ \A t \in Seats : /\ gun[t].mag <= MagSize(gun[t].weapon)
                          /\ Rounds(gun[t]) + shots[t] = given[t]
  BY DEF IInv, TypeOK, AmmoConserved, Rounds
<1>1. /\ floor' = floor \ {i} /\ SeatsTurn(s, "pickup")
      /\ UNCHANGED <<limit, guard, cd, held, score, turn, phase, pad, shots, slain>>
  BY DEF TakePickup
<1>2. /\ ply' \in [Seats -> PlayerType] /\ gun' \in [Seats -> GunType]
      /\ given' \in [Seats -> Nat]
      /\ \A t \in Seats : /\ gun'[t].mag <= MagSize(gun'[t].weapon)
                          /\ Rounds(gun'[t]) + shots[t] = given'[t]
  <2>1. CASE /\ gun' = [gun EXCEPT ![s] = Collected(gun[s], HeldWeapon(i))]
             /\ given' = [given EXCEPT ![s] = given[s] + AmmoAdd] /\ UNCHANGED ply
    <3>1. HeldWeapon(i) \in Weapons
      BY DEF HeldWeapon, Weapons
    <3>. DEFINE c == Collected(gun[s], HeldWeapon(i))
    <3>2. c \in GunType /\ c.mag <= MagSize(c.weapon) /\ Rounds(c) = Rounds(gun[s]) + AmmoAdd
      BY <1>0, <3>1, CollectedFact
    <3>. HIDE DEF c
    <3>3. Rounds(gun[s]) \in Nat
      BY <1>0, MatchSimAssumption DEF Rounds, GunType
    <3>4. gun' = [gun EXCEPT ![s] = c]
      BY <2>1 DEF c
    <3>. QED BY <1>0, <2>1, <3>2, <3>3, <3>4, MatchSimAssumption
  <2>2. CASE /\ gun' = [gun EXCEPT ![s].nine = @ + AmmoAdd]
             /\ given' = [given EXCEPT ![s] = given[s] + AmmoAdd] /\ UNCHANGED ply
    <3>. DEFINE c == [gun[s] EXCEPT !.nine = gun[s].nine + AmmoAdd]
    <3>1. /\ c \in GunType /\ c.mag = gun[s].mag /\ c.weapon = gun[s].weapon
          /\ Rounds(c) = Rounds(gun[s]) + AmmoAdd
      BY <1>0, MatchSimAssumption DEF Rounds, GunType
    <3>2. gun' = [gun EXCEPT ![s] = c]
      BY <2>2
    <3>. HIDE DEF c
    <3>3. Rounds(gun[s]) \in Nat
      BY <1>0, MatchSimAssumption DEF Rounds, GunType
    <3>. QED BY <1>0, <2>2, <3>1, <3>2, <3>3, MatchSimAssumption
  <2>3. CASE ply' = [ply EXCEPT ![s] = Armoured(ply[s])] /\ UNCHANGED <<gun, given>>
    BY <1>0, <2>3, ArmouredFact
  <2>. QED BY <2>1, <2>2, <2>3 DEF TakePickup
<1>3. TypeOK'
  BY <1>1, <1>2 DEF IInv, TypeOK
<1>4. AmmoConserved' /\ KillsAreDeaths' /\ OverAtLimit'
  BY <1>1, <1>2 DEF IInv, AmmoConserved, Rounds, KillsAreDeaths, OverAtLimit, DeadGuards, LivingGuards
<1>5. OneGunEach'
  BY <1>1 DEF IInv, OneGunEach, LivingGuards, SeatsTurn
<1>. QED BY <1>3, <1>4, <1>5 DEF IInv

LEMMA GunTickKeeps ==
  ASSUME IInv, NEW s \in Seats, NEW target, NEW near \in SUBSET LivingGuards,
         GunTick(s, target, near)
  PROVE  IInv'
<1>. DEFINE g == [gun[s] EXCEPT !.prev = "fire" \in pad, !.suppress = FALSE]
<1>0. /\ ply \in [Seats -> PlayerType] /\ gun \in [Seats -> GunType]
      /\ shots \in [Seats -> Nat] /\ given \in [Seats -> Nat] /\ slain \in Nat
      /\ score \in ScoreType /\ TypeOK /\ (score.over <=> Reached(score))
      /\ \A t \in Seats : /\ gun[t].mag <= MagSize(gun[t].weapon)
                          /\ Rounds(gun[t]) + shots[t] = given[t]
  BY DEF IInv, TypeOK, AmmoConserved, Rounds, OverAtLimit, Reached
<1>1. /\ guard \in [Guards -> GuardType]
      /\ \A x \in Guards : guard[x].alerted \/ guard[x].notice < NoticeTicks
  BY DEF IInv, TypeOK
<1>2. /\ g \in GunType /\ g.mag = gun[s].mag /\ g.weapon = gun[s].weapon
      /\ Rounds(g) = Rounds(gun[s])
  <2>. DEFINE x == "fire" \in pad
  <2>1. x \in BOOLEAN
    OBVIOUS
  <2>2. g = [gun[s] EXCEPT !.prev = x, !.suppress = FALSE]
    OBVIOUS
  <2>. HIDE DEF x, g
  <2>3. /\ g \in GunType /\ g.mag = gun[s].mag /\ g.weapon = gun[s].weapon
        /\ g.nine = gun[s].nine /\ g.rifle = gun[s].rifle
    BY <1>0, <2>1, <2>2 DEF GunType
  <2>. QED BY <2>3 DEF Rounds
<1>3. Rounds(gun[s]) \in Nat /\ g.mag \in Nat /\ MagSize(g.weapon) \in Nat
  BY <1>0, <1>2, MatchSimAssumption DEF Rounds, GunType, MagSize
<1>4. /\ turn' = s + 1 /\ phase' = "player" /\ pad' = {} /\ s + 1 \in 1 .. N
      /\ UNCHANGED <<limit, cd, held, floor, given>>
  BY MatchSimAssumption DEF GunTick, Seats
<1>5. CASE /\ g.mag > 0 /\ target \in Targets(s) /\ Shoot(s, target, near, g)
  <2>. DEFINE fired == [g EXCEPT !.mag = g.mag - 1]
  <2>1. /\ gun' = [gun EXCEPT ![s] = fired]
        /\ shots' = [shots EXCEPT ![s] = shots[s] + 1]
    BY <1>5 DEF Shoot
  <2>2. /\ fired \in GunType /\ fired.mag <= MagSize(fired.weapon)
        /\ Rounds(fired) = Rounds(g) - 1
    <3>. DEFINE m == g.mag - 1
    <3>. HIDE DEF g
    <3>1. m \in 0 .. RifleMag /\ m <= MagSize(g.weapon)
      BY <1>0, <1>2, <1>3, <1>5, MatchSimAssumption DEF GunType
    <3>2. fired = [g EXCEPT !.mag = m]
      OBVIOUS
    <3>3. g.nine \in Nat /\ g.rifle \in Nat
      BY <1>2 DEF GunType
    <3>. HIDE DEF m, fired
    <3>4. /\ fired \in GunType /\ fired.mag = m /\ fired.weapon = g.weapon
          /\ fired.nine = g.nine /\ fired.rifle = g.rifle
      BY <1>2, <3>1, <3>2 DEF GunType
    <3>. QED BY <1>3, <3>1, <3>3, <3>4 DEF Rounds, m
  <2>. HIDE DEF fired
  <2>3. /\ gun' \in [Seats -> GunType] /\ shots' \in [Seats -> Nat]
        /\ \A t \in Seats : /\ gun'[t].mag <= MagSize(gun'[t].weapon)
                            /\ Rounds(gun'[t]) + shots'[t] = given[t]
    <3>. HIDE DEF g
    <3>. QED BY <1>0, <1>2, <1>3, <2>1, <2>2
  <2>4. /\ ply' \in [Seats -> PlayerType] /\ score' \in ScoreType /\ slain' \in Nat
        /\ score'.over <=> Reached(score')
        /\ guard' \in [Guards -> GuardType]
        /\ \A x \in Guards : guard'[x].alerted \/ guard'[x].notice < NoticeTicks
        /\ \A x \in Guards : guard'[x].alive => guard[x].alive
        /\ score'.count = slain' + Cardinality(Guards \ {x \in Guards : guard'[x].alive})
    <3>0. /\ score.count = slain + Cardinality(DeadGuards)
          /\ IsFiniteSet(DeadGuards) /\ Cardinality(DeadGuards) \in Nat
          /\ score.count \in Nat
      BY <1>0, DeadFact DEF IInv, KillsAreDeaths, ScoreType
    <3>1. CASE target[1] = "wall" /\ Heard(guard, near) /\ UNCHANGED <<ply, score, slain>>
      <4>1. /\ guard' \in [Guards -> GuardType]
            /\ \A x \in Guards : guard'[x].alerted \/ guard'[x].notice < NoticeTicks
            /\ \A x \in Guards : guard'[x].alive = guard[x].alive
        BY <1>1, <3>1, HeardFact
      <4>2. Guards \ {x \in Guards : guard'[x].alive} = DeadGuards
        BY <4>1 DEF DeadGuards, LivingGuards
      <4>. QED BY <1>0, <3>0, <3>1, <4>1, <4>2
    <3>2. CASE /\ target[1] = "guard"
               /\ Heard([guard EXCEPT ![target[2]].alive = FALSE], near)
               /\ score' = Killed(score, s) /\ UNCHANGED <<ply, slain>>
      <4>1. PICK x \in LivingGuards : target = <<"guard", x>>
        BY <1>5, <3>2 DEF Targets
      <4>. DEFINE gs == [guard EXCEPT ![x] = [guard[x] EXCEPT !.alive = FALSE]]
      <4>2. x \in Guards /\ guard[x].alive
        BY <4>1 DEF LivingGuards
      <4>3. /\ gs \in [Guards -> GuardType]
            /\ \A y \in Guards : gs[y].alerted \/ gs[y].notice < NoticeTicks
            /\ \A y \in Guards \ {x} : gs[y].alive = guard[y].alive
            /\ gs[x].alive = FALSE
        <5>1. /\ [guard[x] EXCEPT !.alive = FALSE] \in GuardType
              /\ [guard[x] EXCEPT !.alive = FALSE].alive = FALSE
              /\ [guard[x] EXCEPT !.alive = FALSE].alerted = guard[x].alerted
              /\ [guard[x] EXCEPT !.alive = FALSE].notice = guard[x].notice
          BY <1>1, <4>2 DEF GuardType
        <5>. QED BY <1>1, <4>2, <5>1
      <4>4. Heard(gs, near)
        BY <3>2, <4>1
      <4>. HIDE DEF gs
      <4>5. /\ guard' \in [Guards -> GuardType]
            /\ \A y \in Guards : guard'[y].alerted \/ guard'[y].notice < NoticeTicks
            /\ \A y \in Guards : guard'[y].alive = gs[y].alive
        BY <4>3, <4>4, HeardFact
      <4>6. /\ Guards \ {y \in Guards : guard'[y].alive} = DeadGuards \cup {x}
            /\ x \notin DeadGuards
        BY <4>2, <4>3, <4>5 DEF DeadGuards, LivingGuards
      <4>7. Cardinality(DeadGuards \cup {x}) = Cardinality(DeadGuards) + 1
        BY <3>0, <4>6, FS_AddElement
      <4>8. /\ score' \in ScoreType /\ score'.count = score.count + 1
            /\ score'.over <=> Reached(score')
        BY <1>0, <3>2, KilledFact
      <4>9. score'.count = slain' + Cardinality(Guards \ {y \in Guards : guard'[y].alive})
        <5>1. score'.count = slain + (Cardinality(DeadGuards) + 1)
          BY <1>0, <3>0, <4>8
        <5>. QED BY <3>2, <4>6, <4>7, <5>1
      <4>10. \A y \in Guards : guard'[y].alive => guard[y].alive
        BY <4>2, <4>3, <4>5
      <4>. QED BY <1>0, <3>2, <4>5, <4>8, <4>9, <4>10, Zenon
    <3>3. CASE /\ target[1] = "seat" /\ Heard(guard, near)
               /\ ply' = [ply EXCEPT ![target[2]] = Damaged(ply[target[2]], 1)]
               /\ score' = IF Damaged(ply[target[2]], 1).health = 0
                             THEN Killed(score, s) ELSE score
               /\ slain' = IF Living(target[2]) /\ Damaged(ply[target[2]], 1).health = 0
                             THEN slain + 1 ELSE slain
      <4>1. PICK t \in Seats : target = <<"seat", t>> /\ Living(t)
        BY <1>5, <3>3 DEF Targets
      <4>2. Damaged(ply[t], 1) \in PlayerType
        BY <1>0, DamagedFact
      <4>3. ply' \in [Seats -> PlayerType]
        BY <1>0, <3>3, <4>1, <4>2
      <4>4. /\ guard' \in [Guards -> GuardType]
            /\ \A x \in Guards : guard'[x].alerted \/ guard'[x].notice < NoticeTicks
            /\ \A x \in Guards : guard'[x].alive = guard[x].alive
        BY <1>1, <3>3, HeardFact
      <4>5. Guards \ {x \in Guards : guard'[x].alive} = DeadGuards
        BY <4>4 DEF DeadGuards, LivingGuards
      <4>6. CASE Damaged(ply[t], 1).health = 0
        <5>1. score' = Killed(score, s) /\ slain' = slain + 1
          BY <3>3, <4>1, <4>6
        <5>2. /\ score' \in ScoreType /\ score'.count = score.count + 1
              /\ score'.over <=> Reached(score')
          BY <1>0, <5>1, KilledFact
        <5>3. score'.count = slain' + Cardinality(Guards \ {x \in Guards : guard'[x].alive})
          <6>1. score'.count = (slain + 1) + Cardinality(DeadGuards)
            BY <1>0, <3>0, <5>2
          <6>. QED BY <4>5, <5>1, <6>1
        <5>4. slain' \in Nat
          BY <1>0, <5>1
        <5>. QED BY <4>3, <4>4, <5>2, <5>3, <5>4, Zenon
      <4>7. CASE Damaged(ply[t], 1).health # 0
        <5>1. score' = score /\ slain' = slain
          BY <3>3, <4>1, <4>7
        <5>. QED BY <1>0, <3>0, <4>3, <4>4, <4>5, <5>1
      <4>. QED BY <4>6, <4>7
    <3>. QED BY <1>5, <3>1, <3>2, <3>3 DEF Shoot
  <2>5. TypeOK'
    BY <1>0, <1>4, <2>3, <2>4, MatchSimAssumption DEF TypeOK, Buttons
  <2>6. AmmoConserved' /\ KillsAreDeaths'
    BY <1>4, <2>3, <2>4 DEF AmmoConserved, Rounds, KillsAreDeaths, DeadGuards, LivingGuards
  <2>7. OverAtLimit'
    BY <1>4, <2>4 DEF OverAtLimit, Reached
  <2>8. OneGunEach'
    BY <1>4, <2>4 DEF IInv, OneGunEach, LivingGuards
  <2>. QED BY <2>5, <2>6, <2>7, <2>8 DEF IInv
<1>6. CASE /\ gun' = [gun EXCEPT ![s] = IF Fires(s) THEN Reloaded(g) ELSE g]
           /\ UNCHANGED <<ply, guard, score, shots, slain>>
  <2>. DEFINE h == IF Fires(s) THEN Reloaded(g) ELSE g
  <2>1. h \in GunType /\ h.mag <= MagSize(h.weapon) /\ Rounds(h) = Rounds(gun[s])
    <3>. HIDE DEF g
    <3>. QED BY <1>0, <1>2, ReloadedFact
  <2>2. gun' = [gun EXCEPT ![s] = h]
    BY <1>6
  <2>. HIDE DEF h, g
  <2>3. /\ gun' \in [Seats -> GunType]
        /\ \A t \in Seats : /\ gun'[t].mag <= MagSize(gun'[t].weapon)
                            /\ Rounds(gun'[t]) + shots[t] = given[t]
    BY <1>0, <2>1, <2>2
  <2>4. TypeOK'
    BY <1>0, <1>4, <1>6, <2>3, MatchSimAssumption DEF TypeOK, Buttons
  <2>5. AmmoConserved' /\ KillsAreDeaths' /\ OverAtLimit'
    BY <1>4, <1>6, <2>3
       DEF IInv, AmmoConserved, Rounds, KillsAreDeaths, OverAtLimit, DeadGuards, LivingGuards
  <2>6. OneGunEach'
    BY <1>4, <1>6 DEF IInv, OneGunEach, LivingGuards
  <2>. QED BY <2>4, <2>5, <2>6 DEF IInv
<1>. QED BY <1>5, <1>6 DEF GunTick

LEMMA WorldTickKeeps ==
  ASSUME IInv, NEW sees \in Sights, NEW hit, NEW placed, WorldTick(sees, hit, placed)
  PROVE  IInv'
<1>0. /\ ply \in [Seats -> PlayerType] /\ cd \in 0 .. Cooldown /\ View \in Seats
      /\ guard \in [Guards -> GuardType]
      /\ \A x \in Guards : guard[x].alerted \/ guard[x].notice < NoticeTicks
      /\ score \in ScoreType /\ TypeOK /\ (score.over <=> Reached(score))
  BY MatchSimAssumption DEF IInv, TypeOK, OverAtLimit, Reached
<1>1. /\ ply' \in [Seats -> PlayerType] /\ cd' \in 0 .. Cooldown
      /\ guard' \in [Guards -> GuardType]
      /\ \A x \in Guards : guard'[x].alerted \/ guard'[x].notice < NoticeTicks
      /\ \A x \in Guards : guard'[x].alive = guard[x].alive
  <2>1. CASE GuardsFire(sees[View] \cap LivingGuards, hit)
    <3>. DEFINE seen == sees[View] \cap LivingGuards
                noticed == [x \in Guards |-> Noticed(guard[x], x \in seen)]
                ready == IF cd > 1 THEN {} ELSE {x \in seen : noticed[x].alerted}
    <3>1. /\ guard' = noticed
          /\ cd' = IF ready # {} THEN Cooldown ELSE IF cd > 0 THEN cd - 1 ELSE 0
          /\ ply' = [ply EXCEPT ![View] = Damaged(ply[View], Cardinality(ready \cap hit))]
      BY <2>1 DEF GuardsFire
    <3>2. \A x \in Guards : /\ noticed[x] \in GuardType
                            /\ noticed[x].alerted \/ noticed[x].notice < NoticeTicks
                            /\ noticed[x].alive = guard[x].alive
      <4>. TAKE x \in Guards
      <4>1. guard[x] \in GuardType /\ (guard[x].alerted \/ guard[x].notice < NoticeTicks)
        BY <1>0
      <4>2. (x \in seen) \in BOOLEAN /\ noticed[x] = Noticed(guard[x], x \in seen)
        OBVIOUS
      <4>. HIDE DEF seen, noticed
      <4>. QED BY <4>1, <4>2, NoticedFact
    <3>3. ready \cap hit \subseteq Guards
      BY DEF LivingGuards
    <3>4. Cardinality(ready \cap hit) \in Nat
      BY <3>3, MatchSimAssumption, FS_Subset, FS_CardinalityType
    <3>5. noticed \in [Guards -> GuardType]
      BY <3>2
    <3>. HIDE DEF noticed, ready
    <3>6. Damaged(ply[View], Cardinality(ready \cap hit)) \in PlayerType
      BY <1>0, <3>4, DamagedFact
    <3>7. cd' \in 0 .. Cooldown
      BY <1>0, <3>1, MatchSimAssumption
    <3>. QED BY <1>0, <3>1, <3>2, <3>5, <3>6, <3>7
  <2>2. CASE UNCHANGED <<guard, cd, ply>>
    BY <1>0, <2>2
  <2>. QED BY <2>1, <2>2 DEF WorldTick
<1>2. /\ held' = LivingGuards /\ floor' \subseteq Guards \cup Pickups /\ held' \cap floor' = {}
  BY DropFact DEF WorldTick
<1>3. /\ turn' = 0 /\ score' = Clocked(score)
      /\ UNCHANGED <<limit, gun, phase, pad, shots, given, slain>>
  BY DEF WorldTick
<1>4. /\ score' \in ScoreType /\ score'.count = score.count
      /\ score'.over <=> Reached(score')
  BY <1>0, <1>3, ClockedFact
<1>5. LivingGuards' = LivingGuards /\ DeadGuards' = DeadGuards
  BY <1>1 DEF LivingGuards, DeadGuards
<1>6. TypeOK'
  BY <1>1, <1>2, <1>3, <1>4, MatchSimAssumption DEF IInv, TypeOK, LivingGuards
<1>7. AmmoConserved' /\ KillsAreDeaths'
  BY <1>3, <1>4, <1>5 DEF IInv, AmmoConserved, KillsAreDeaths
<1>8. OverAtLimit'
  BY <1>3, <1>4 DEF OverAtLimit, Reached
<1>9. OneGunEach'
  BY <1>2, <1>5 DEF OneGunEach
<1>. QED BY <1>6, <1>7, <1>8, <1>9 DEF IInv

-------------------------------------------------------------------------------
LEMMA InitInv == Init => IInv
<1>. SUFFICES ASSUME Init PROVE IInv
  OBVIOUS
<1>1. TypeOK
  <2>1. /\ ply \in [Seats -> PlayerType] /\ gun \in [Seats -> GunType]
        /\ \A s \in Seats : gun[s].mag <= MagSize(gun[s].weapon)
    BY FreshFact DEF Init
  <2>2. [alive |-> TRUE, alerted |-> FALSE, notice |-> 0] \in GuardType
    BY MatchSimAssumption DEF GuardType
  <2>3. /\ guard \in [Guards -> GuardType]
        /\ \A g \in Guards : guard[g].alerted \/ guard[g].notice < NoticeTicks
    BY <2>2, MatchSimAssumption DEF Init
  <2>4. score \in ScoreType
    BY DEF Init, ScoreType
  <2>5. limit \in [time : Nat, points : Nat]
    <3>0. (\A x \in TimeLimits : x \in Nat) /\ (\A x \in PointLimits : x \in Nat)
      BY MatchSimAssumption
    <3>3. \A x : x = 0 => x \in Nat
      OBVIOUS
    <3>1. CASE limit \in [time : TimeLimits, points : {0}]
      <4>1. limit = [time |-> limit.time, points |-> limit.points]
        BY <3>1, Zenon
      <4>2. limit.time \in Nat /\ limit.points \in Nat
        <5>1. limit.time \in TimeLimits /\ limit.points = 0
          BY <3>1
        <5>. QED BY <3>0, <3>3, <5>1, Zenon
      <4>. QED BY <4>1, <4>2
    <3>2. CASE limit \in [time : {0}, points : PointLimits]
      <4>1. limit = [time |-> limit.time, points |-> limit.points]
        BY <3>2, Zenon
      <4>2. limit.time \in Nat /\ limit.points \in Nat
        <5>1. limit.time = 0 /\ limit.points \in PointLimits
          BY <3>2
        <5>. QED BY <3>0, <3>3, <5>1, Zenon
      <4>. QED BY <4>1, <4>2
    <3>. QED BY <3>1, <3>2 DEF Init
  <2>6. /\ shots \in [Seats -> Nat] /\ given \in [Seats -> Nat] /\ slain \in Nat
        /\ cd \in 0 .. Cooldown /\ turn \in 0 .. N
    BY MatchSimAssumption DEF Init
  <2>7. /\ held \subseteq Guards /\ floor \subseteq Guards \cup Pickups
        /\ phase \in {"player", "pickup"} /\ pad \in SUBSET Buttons
    BY DEF Init
  <2>. QED BY <2>1, <2>3, <2>4, <2>5, <2>6, <2>7 DEF TypeOK
<1>2. AmmoConserved
  BY MatchSimAssumption DEF Init, AmmoConserved, FreshGun
<1>3. KillsAreDeaths
  <2>1. DeadGuards = {}
    BY DEF Init, DeadGuards, LivingGuards
  <2>. QED BY <2>1, FS_EmptySet DEF Init, KillsAreDeaths
<1>4. OverAtLimit
  <2>1. /\ score.over = FALSE /\ score.elapsed = 0 /\ \A s \in Seats : score.kills[s] = 0
    BY DEF Init
  <2>2. limit.time \in Nat /\ limit.points \in Nat
    BY <1>1 DEF TypeOK
  <2>. QED BY <2>1, <2>2 DEF OverAtLimit
<1>5. OneGunEach
  BY MatchSimAssumption DEF Init, OneGunEach, LivingGuards
<1>. QED BY <1>1, <1>2, <1>3, <1>4, <1>5 DEF IInv

LEMMA NextInv == IInv /\ [Next]_vars => IInv'
<1>. SUFFICES ASSUME IInv, [Next]_vars PROVE IInv'
  OBVIOUS
<1>1. ASSUME NEW s \in Seats, NEW b \in SUBSET Buttons, NEW door \in BOOLEAN,
             NEW placed \in Drops, PlayerTick(s, b, door, placed)
      PROVE  IInv'
  BY <1>1, PlayerTickKeeps
<1>2. ASSUME NEW s \in Seats, NEW i \in floor, TakePickup(s, i)
      PROVE  IInv'
  BY <1>2, TakePickupKeeps
<1>3. ASSUME NEW s \in Seats, NEW target \in Targets(s), NEW near \in SUBSET LivingGuards,
             GunTick(s, target, near)
      PROVE  IInv'
  BY <1>3, GunTickKeeps
<1>4. ASSUME NEW sees \in Sights, NEW hit \in SUBSET Guards, NEW placed \in Drops,
             WorldTick(sees, hit, placed)
      PROVE  IInv'
  BY <1>4, WorldTickKeeps
<1>5. CASE UNCHANGED vars
  BY <1>5 DEF vars, world, IInv, TypeOK, AmmoConserved, KillsAreDeaths, OverAtLimit, OneGunEach,
              LivingGuards, DeadGuards
<1>. QED BY <1>1, <1>2, <1>3, <1>4, <1>5 DEF Next

(* The inductive invariant: the types, the ammo balance, the kill count,   *)
(* the end of the match and the place of every gun hold together.          *)
THEOREM Invariant == Spec => []IInv
BY InitInv, NextInv, PTL DEF Spec

(* sim_tick.c and what it calls keep health, armour, magazines, waits and  *)
(* notices within their bounds.                                            *)
THEOREM TypeCorrect == Spec => []TypeOK
<1>1. IInv => TypeOK
  BY DEF IInv
<1>. QED BY <1>1, Invariant, PTL

(* reload(), port_gun_collect_model() and the pickups lose and make no     *)
(* round, whatever the sizes of magazines and pickups.                     *)
THEOREM AmmoConservedHolds == Spec => []AmmoConserved
<1>1. IInv => AmmoConserved
  BY DEF IInv
<1>. QED BY <1>1, Invariant, PTL

(* port_score_add_kill() is called once for each seat shot dead and each   *)
(* guard killed.                                                           *)
THEOREM KillsAreDeathsHolds == Spec => []KillsAreDeaths
<1>1. IInv => KillsAreDeaths
  BY DEF IInv
<1>. QED BY <1>1, Invariant, PTL

(* check_over() leaves no moment at which a limit is reached and the match *)
(* goes on, nor one at which it is over without a reason.                  *)
THEOREM OverAtLimitHolds == Spec => []OverAtLimit
<1>1. IInv => OverAtLimit
  BY DEF IInv
<1>. QED BY <1>1, Invariant, PTL

(* maybe_spawn_death_drops(), called by every seat and at the end of every *)
(* tick, drops a guard's gun at most once.                                 *)
THEOREM OneGunEachHolds == Spec => []OneGunEach
<1>1. IInv => OneGunEach
  BY DEF IInv
<1>. QED BY <1>1, Invariant, PTL

-------------------------------------------------------------------------------
(* What a step does to a seat that lies dead: it respawns, or it stays as   *)
(* it is and does nothing.                                                  *)
Respawned(t) ==
  /\ ply[t].dead + 1 >= SpawnTicks /\ ~score.over
  /\ ply'[t] = FreshPlayer /\ gun'[t] = FreshGun

StaysIdle(t) ==
  /\ ply'[t].health = 0
  /\ shots'[t] = shots[t] /\ given'[t] = given[t]
  /\ score'.kills[t] = score.kills[t]

LEMMA DeadStep ==
  ASSUME TypeOK, [Next]_vars, NEW t \in Seats, ply[t].health = 0
  PROVE  Respawned(t) \/ StaysIdle(t)
<1>0. /\ ply \in [Seats -> PlayerType] /\ gun \in [Seats -> GunType] /\ score \in ScoreType
      /\ shots \in [Seats -> Nat] /\ given \in [Seats -> Nat]
  BY DEF TypeOK
<1>1. ASSUME NEW s \in Seats, NEW b \in SUBSET Buttons, NEW door \in BOOLEAN,
             NEW placed \in Drops, PlayerTick(s, b, door, placed)
      PROVE  Respawned(t) \/ StaysIdle(t)
  <2>0. score' = score
    BY <1>1 DEF PlayerTick
  <2>1. CASE FrozenTurn(s, b)
    BY <1>0, <2>0, <2>1 DEF FrozenTurn, StaysIdle, PlayerType
  <2>2. CASE DeadTurn(s, b) /\ Respawn(s) /\ DeadLongEnough(s, b)
    <3>1. CASE s = t
      <4>1. ply[t].dead + 1 >= SpawnTicks
        BY <1>0, <2>2, <3>1, MatchSimAssumption DEF DeadLongEnough, PlayerType
      <4>. QED BY <1>0, <2>2, <3>1, <4>1 DEF DeadTurn, Respawn, Respawned
    <3>2. CASE s # t
      BY <1>0, <2>0, <2>2, <3>2 DEF Respawn, StaysIdle
    <3>. QED BY <3>1, <3>2
  <2>3. CASE DeadTurn(s, b) /\ ~DeadLongEnough(s, b)
    BY <1>0, <2>0, <2>3 DEF DeadTurn, StaysIdle, PlayerType
  <2>4. CASE LivingTurn(s, b, door)
    <3>1. s # t
      BY <2>4 DEF LivingTurn, Living
    <3>. QED BY <1>0, <2>0, <2>4, <3>1 DEF LivingTurn, StaysIdle
  <2>. QED BY <1>1, <2>1, <2>2, <2>3, <2>4 DEF PlayerTick, DeadTurn
<1>2. ASSUME NEW s \in Seats, NEW i \in floor, TakePickup(s, i)
      PROVE  Respawned(t) \/ StaysIdle(t)
  <2>1. s # t /\ score' = score /\ shots' = shots
    BY <1>2 DEF TakePickup, Living
  <2>2. ply'[t] = ply[t] /\ given'[t] = given[t]
    BY <1>0, <1>2, <2>1 DEF TakePickup
  <2>. QED BY <2>1, <2>2 DEF StaysIdle
<1>3. ASSUME NEW s \in Seats, NEW target \in Targets(s), NEW near \in SUBSET LivingGuards,
             GunTick(s, target, near)
      PROVE  Respawned(t) \/ StaysIdle(t)
  <2>0. given' = given
    BY <1>3 DEF GunTick
  <2>1. CASE UNCHANGED <<ply, guard, score, shots, slain>>
    BY <2>0, <2>1 DEF StaysIdle
  <2>2. CASE /\ Fires(s)
             /\ \E g : Shoot(s, target, near, g)
    <3>1. s # t
      BY <2>2 DEF Fires, Living
    <3>2. shots'[t] = shots[t]
      BY <1>0, <2>2, <3>1 DEF Shoot
    <3>3. score' \in {score, Killed(score, s)}
      BY <2>2 DEF Shoot
    <3>4. Killed(score, s).kills[t] = score.kills[t]
      <4>. DEFINE k == [score.kills EXCEPT ![s] = @ + 1]
                  over == Checked([score EXCEPT !.count = @ + 1, !.kills[s] = @ + 1]).over
      <4>1. Killed(score, s).kills = k
        BY <1>0 DEF Killed, Checked, ScoreType
      <4>. QED BY <1>0, <3>1, <4>1 DEF ScoreType
    <3>5. ply'[t].health = 0
      <4>1. CASE UNCHANGED ply
        BY <4>1
      <4>2. CASE ply' = [ply EXCEPT ![target[2]] = Damaged(ply[target[2]], 1)]
        BY <1>0, <4>2, DamagedFact
      <4>. QED BY <2>2, <4>1, <4>2 DEF Shoot
    <3>. QED BY <2>0, <3>2, <3>3, <3>4, <3>5 DEF StaysIdle
  <2>. QED BY <1>3, <2>1, <2>2 DEF GunTick
<1>4. ASSUME NEW sees \in Sights, NEW hit \in SUBSET Guards, NEW placed \in Drops,
             WorldTick(sees, hit, placed)
      PROVE  Respawned(t) \/ StaysIdle(t)
  <2>1. shots' = shots /\ given' = given /\ score' = Clocked(score)
    BY <1>4 DEF WorldTick
  <2>2. Clocked(score).kills = score.kills
    BY <1>0 DEF Clocked, Checked, ScoreType
  <2>3. ply'[t].health = 0
    <3>1. CASE Living(View) /\ GuardsFire(sees[View] \cap LivingGuards, hit)
      <4>1. View # t
        BY <3>1 DEF Living
      <4>. QED BY <1>0, <3>1, <4>1 DEF GuardsFire
    <3>2. CASE UNCHANGED ply
      BY <3>2
    <3>. QED BY <1>4, <3>1, <3>2 DEF WorldTick
  <2>. QED BY <2>1, <2>2, <2>3 DEF StaysIdle
<1>5. CASE UNCHANGED vars
  BY <1>5 DEF vars, world, StaysIdle
<1>. QED BY <1>1, <1>2, <1>3, <1>4, <1>5 DEF Next

(* port_player_tick() is the only way back from death: not before           *)
(* SpawnTicks, not after the match, and with nothing of the last life.      *)
THEOREM RespawnIsWholeHolds == Spec => RespawnIsWhole
<1>1. TypeOK /\ [Next]_vars =>
        [\A s \in Seats :
           ply[s].health = 0 /\ ply'[s].health > 0 =>
             /\ ply[s].dead + 1 >= SpawnTicks
             /\ ~score.over
             /\ ply'[s] = FreshPlayer /\ gun'[s] = FreshGun]_vars
  <2>. SUFFICES ASSUME TypeOK, [Next]_vars, NEW s \in Seats,
                       ply[s].health = 0, ply'[s].health > 0
                PROVE  Respawned(s)
    BY DEF Respawned
  <2>. QED BY DeadStep DEF StaysIdle
<1>. QED BY <1>1, TypeCorrect, PTL DEF Spec, RespawnIsWhole

(* A dead seat's gun tick, pickup tick and pad change nothing but itself.   *)
THEOREM DeadAreIdleHolds == Spec => DeadAreIdle
<1>1. TypeOK /\ [Next]_vars =>
        [\A s \in Seats :
           ~Living(s) /\ ply'[s].health = 0 =>
             /\ shots'[s] = shots[s] /\ given'[s] = given[s]
             /\ score'.kills[s] = score.kills[s]]_vars
  <2>. SUFFICES ASSUME TypeOK, [Next]_vars, NEW s \in Seats,
                       ~Living(s), ply'[s].health = 0
                PROVE  /\ shots'[s] = shots[s] /\ given'[s] = given[s]
                       /\ score'.kills[s] = score.kills[s]
    OBVIOUS
  <2>1. ply[s].health = 0
    BY MatchSimAssumption DEF TypeOK, PlayerType, Living
  <2>2. ~Respawned(s)
    BY FreshFact DEF Respawned
  <2>. QED BY <2>1, <2>2, DeadStep DEF StaysIdle
<1>. QED BY <1>1, TypeCorrect, PTL DEF Spec, DeadAreIdle
===============================================================================
