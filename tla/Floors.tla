-------------------------------- MODULE Floors --------------------------------
(***************************************************************************)
(* Which floor an actor stands on (port/player/stan_walk.c).  Floors lie   *)
(* over each other, and the mesh is asked by xz alone: tile_at_world()     *)
(* answers with the lowest.  What keeps a player upstairs is g_cur, one    *)
(* cache for all players of the tiles their steps ended on, keyed by       *)
(* place, of which the oldest entry goes when it is full.                  *)
(*                                                                         *)
(* A place is a pair <<x, z>> more than two units from every other, so one *)
(* entry per place; tiles are flat and identified by their eye height.     *)
(* Left out: doors (module Doors), the far portals of cross_room_portal()  *)
(* and walk_tiles(), off-mesh recovery (no place here needs it).           *)
(***************************************************************************)
EXTENDS Integers, Sequences, SequencesExt

CONSTANTS
  Players,    \* the players, 1 .. n, ticked in this order
  Walkers,
  Tiles,      \* tile -> the places in it
  Eye,        \* tile -> eye height over it
  Link,       \* <<tile, from, to>> -> the tile linked across that edge
  Foot,       \* places near the foot of the stairs
  Far,        \* pairs of tiles whose overlap only climbs at the foot
  LandsAt,    \* tile -> the place and tile a rise onto it lands on
  Big,        \* the mesh has more than 100 tiles
  CurCache,   \* PORT_CUR_CACHE
  Seat        \* player -> where the seat spawns

Tile == DOMAIN Tiles
Places == UNION {Tiles[t] : t \in Tile}
NoTile == "no tile"

(* A mesh has a lowest floor, and its links lead to floors of it.           *)
ASSUME FloorsAssumption ==
  /\ 1 \in Players /\ CurCache \in Nat \ {0} /\ Seat \in [Players -> Places]
  /\ Eye \in [Tile -> Int] /\ \E low \in Tile : \A t \in Tile : Eye[low] <= Eye[t]
  /\ \A k \in DOMAIN Link : Link[k] \in Tile
  /\ NoTile \notin Tile

VARIABLES
  pos,        \* player -> place
  eye,        \* player -> eye height
  cur,        \* g_cur, a sequence of [at, tile]
  gpos,       \* guard -> place
  stepper     \* the player whose tick is next

floorVars == <<pos, eye, cur, gpos, stepper>>

Covering(c) == {t \in Tile : c \in Tiles[t]}
Lowest(ts) == CHOOSE t \in ts : \A u \in ts : Eye[t] <= Eye[u]

(* tile_at_world(): the lowest floor at a place. *)
TileAt(c) == Lowest(Covering(c))

(* cur_at(): the first entry for the place whose tile covers it. *)
CurAt(cache, c) ==
  LET hits == {i \in DOMAIN cache : cache[i].at = c /\ c \in Tiles[cache[i].tile]}
  IN  IF hits = {} THEN NoTile
      ELSE cache[CHOOSE i \in hits : \A j \in hits : i <= j].tile

TileForWalk(cache, c) ==
  IF CurAt(cache, c) # NoTile THEN CurAt(cache, c) ELSE TileAt(c)

(* cur_put(): an entry is rewritten where it stands; a new one is appended, *)
(* in place of the oldest when the cache is full.                           *)
CurPut(cache, c, t) ==
  LET i == SelectInSeq(cache, LAMBDA e : e.at = c)
      new == [at |-> c, tile |-> t]
  IN  IF i # 0 THEN [cache EXCEPT ![i] = new]
      ELSE IF Len(cache) < CurCache THEN Append(cache, new)
      ELSE Append(Tail(cache), new)

-------------------------------------------------------------------------------
Linked(t, c, d) == IF <<t, c, d>> \in DOMAIN Link THEN Link[<<t, c, d>>] ELSE NoTile

(* step_hits_wall(): the step leaves t across an edge without a link. *)
HitsWall(t, c, d) == d \notin Tiles[t] /\ Linked(t, c, d) = NoTile

(* legal_step(), seen from tile t. *)
LegalStep(t, c, d) == d \in Places /\ ~HitsWall(t, c, d)

(* clip_step_ex(): the wanted place, or a slide along x or z, or none. *)
Slide(t, c, d) ==
  IF LegalStep(t, c, d) THEN d
  ELSE IF LegalStep(t, c, <<d[1], c[2]>>) THEN <<d[1], c[2]>>
  ELSE IF LegalStep(t, c, <<c[1], d[2]>>) THEN <<c[1], d[2]>>
  ELSE c

(* walk_tiles(): the tile itself, or the one linked where the step left it. *)
WalkTiles(t, c, d) ==
  IF d \in Tiles[t] THEN t
  ELSE IF Linked(t, c, d) # NoTile /\ d \in Tiles[Linked(t, c, d)] THEN Linked(t, c, d)
  ELSE NoTile

(* enter_rise_tile(): an unlinked floor 80 to 350 above that begins at d. *)
RiseTiles(t, c, d) ==
  {u \in Tile : /\ Eye[u] - Eye[t] \in 80 .. 350
                /\ d \in Tiles[u] /\ c \notin Tiles[u] /\ d \notin Tiles[t]
                /\ (Big /\ <<t, u>> \in Far) => c \in Foot}

(* The inside of a floor that can be risen onto is inside a floor.          *)
ASSUME LandingsInside ==
  \A t \in Tile, c, d \in Places : \A u \in RiseTiles(t, c, d) :
    LandsAt[u].tile \in Tile /\ LandsAt[u].at \in Tiles[LandsAt[u].tile]

(* landing_interior(), snap_ok(): a rise lands inside the floor it leads to, *)
(* which must be near the wanted place unless it starts at the foot.         *)
Near(c) == {d \in Places : d[1] - c[1] \in -1 .. 1 /\ d[2] - c[2] \in -1 .. 1}
SnapOk(c, d, at) == at \in Near(d) \/ c \in Foot

(* climb_ok(): any descent; a rise of more than 80 only at the foot. *)
ClimbOk(c, from, to) ==
  \/ c \in Foot
  \/ ~Big
  \/ ~(from < 120 /\ to > 200) /\ to <= from + 80

(* The tile a step is walked from.  On a big mesh a low eye is not believed *)
(* to stand on a high tile, whatever the cache says.                        *)
StartTile(cache, c, y) ==
  LET t == TileForWalk(cache, c)
  IN  IF y < 120 /\ Big /\ Eye[t] > Eye[TileAt(c)] + 80 THEN TileAt(c) ELSE t

(* What clip_step() makes of a step from c, eye y, to d. *)
ClipStep(cache, c, y, d) ==
  LET e == Slide(TileForWalk(cache, c), c, d)
      from == StartTile(cache, c, y)
      rise == RiseTiles(from, c, e)
      dest == IF rise = {} THEN [at |-> e, tile |-> WalkTiles(from, c, e)]
              ELSE IF SnapOk(c, e, LandsAt[Lowest(rise)].at) THEN LandsAt[Lowest(rise)]
              ELSE [at |-> e, tile |-> NoTile]
      to == Eye[IF dest.tile # NoTile THEN dest.tile ELSE TileForWalk(cache, e)]
  IN  IF ~ClimbOk(c, y, to) THEN [at |-> c, eye |-> y, cur |-> cache]
      ELSE [at |-> dest.at, eye |-> to,
            cur |-> IF dest.tile # NoTile THEN CurPut(cache, dest.at, dest.tile) ELSE cache]

NextStepper(p) == IF p + 1 \in Players THEN p + 1 ELSE 1

(* port_player_tick(): a living player steps, or stands: a step to itself. *)
PlayerStep(p) ==
  /\ stepper = p
  /\ stepper' = NextStepper(p)
  /\ \E d \in Near(pos[p]) :
       LET s == ClipStep(cur, pos[p], eye[p], d)
       IN  /\ pos' = [pos EXCEPT ![p] = s.at]
           /\ eye' = [eye EXCEPT ![p] = s.eye]
           /\ cur' = s.cur
  /\ UNCHANGED gpos

\* Mutant: the eye stays where the player died.
RespawnKeepsEye(p) ==
  /\ stepper = p
  /\ stepper' = NextStepper(p)
  /\ pos' = [pos EXCEPT ![p] = Seat[p]]
  /\ UNCHANGED <<eye, cur, gpos>>

(* port_player_respawn_seat(), in the place of the step of a dead player. *)
RespawnStep(p) ==
  /\ stepper = p
  /\ stepper' = NextStepper(p)
  /\ pos' = [pos EXCEPT ![p] = Seat[p]]
  /\ eye' = [eye EXCEPT ![p] = Eye[TileAt(Seat[p])]]
  /\ UNCHANGED <<cur, gpos>>

(* sit_walker_local(): the walker sits down on a floor at eye 50 to 160.     *)
Sits(y) == y \in 50 .. 160

\* Mutant: a guard's step follows and feeds the cache, as a player's.
GuardFollows(g) ==
  /\ stepper = 1
  /\ \E d \in Near(gpos[g]) :
       LET s == ClipStep(cur, gpos[g], 0, d)
       IN  /\ gpos' = [gpos EXCEPT ![g] = IF Sits(s.eye) THEN s.at ELSE @]
           /\ cur' = s.cur
  /\ UNCHANGED <<pos, eye, stepper>>

(* The patrol's clip_step_ground(), from eye 0 and when the players have    *)
(* had their ticks: the lowest tiles and no entry.  But the eye it ends at  *)
(* is read from the cache, so a walker that gets below a player stops.      *)
WalkerStep(g) ==
  /\ stepper = 1
  /\ \E d \in Near(gpos[g]) :
       LET c == gpos[g]
           e == Slide(TileAt(c), c, d)
           to == Eye[TileForWalk(cur, e)]
       IN gpos' = [gpos EXCEPT ![g] = IF ClimbOk(c, 0, to) /\ Sits(to) THEN e ELSE c]
  /\ UNCHANGED <<pos, eye, cur, stepper>>

FloorsInit ==
  /\ pos = [p \in Players |-> Seat[p]]
  /\ eye = [p \in Players |-> Eye[TileAt(Seat[p])]]
  /\ cur = <<>>
  /\ gpos \in [Walkers -> {c \in Places : Sits(Eye[TileAt(c)])}]
  /\ stepper = 1

FloorsNext ==
  \/ \E p \in Players : PlayerStep(p) \/ RespawnStep(p)
  \/ \E g \in Walkers : WalkerStep(g)

FloorsSpec == FloorsInit /\ [][FloorsNext]_floorVars

-------------------------------------------------------------------------------
FloorsTypeOK ==
  /\ pos \in [Players -> Places]
  /\ eye \in [Players -> {Eye[t] : t \in Tile}]
  /\ cur \in Seq([at : Places, tile : Tile]) /\ Len(cur) <= CurCache
  /\ gpos \in [Walkers -> Places]
  /\ stepper \in Players

(* Nobody stands in the air: a player's eye is that of a floor below it. *)
OnFloor == \A p \in Players : \E t \in Covering(pos[p]) : Eye[t] = eye[p]

(* "Dest still inside the current tile stays there": whoever takes a step,  *)
(* no floor is taken from under a player that stays on its own.             *)
Keeps ==
  \A p \in Players : eye'[p] # eye[p] /\ PlayerStep(p) =>
    \A t \in Covering(pos[p]) \cap Covering(pos'[p]) : eye[p] # Eye[t]

(* A player changes its floor only where the mesh links the two. *)
Meet ==
  \A p \in Players : eye'[p] # eye[p] /\ PlayerStep(p) =>
    \E t \in Covering(pos[p]) :
      /\ Eye[t] = eye[p]
      /\ \/ /\ Linked(t, pos[p], pos'[p]) # NoTile
            /\ eye'[p] = Eye[Linked(t, pos[p], pos'[p])]
         \/ /\ pos[p] \in Foot
            /\ \E d \in Near(pos[p]) : \E u \in RiseTiles(t, pos[p], d) :
                 eye'[p] = Eye[LandsAt[u].tile]

(* Each step does both. *)
KeepsFloor == [][Keeps /\ Meet]_floorVars
===============================================================================
