--------------------------------- MODULE Faces ---------------------------------
(***************************************************************************)
(* What stops a body inside a room: the upright surfaces of the rooms      *)
(* around it (g_walls of port/fs/stage.c), which are collected when a room *)
(* is first looked at, and the fitted slabs of the last frame that was     *)
(* drawn (g_slab_emit_x of port/fs/prop.c).  Every step of a player ends   *)
(* with them (clip_step_ex() in port/player/stan_walk.c), in every engine  *)
(* of the match; what was drawn last is each engine's own affair, as each  *)
(* shows its own seat.                                                     *)
(*                                                                         *)
(* A hall along the surfaces' normal, in units of some ten game units.     *)
(* Its ends are a skin from the edges of the tiles (see Floors); doors are *)
(* solid or not (see Doors) and which rooms a frame shows is simpler than  *)
(* in VisibleRooms: the camera's and those next to it.  Stages of fewer    *)
(* than eight rooms have no surfaces.                                      *)
(***************************************************************************)
EXTENDS Integers, Sequences, FiniteSets, SequencesExt

CONSTANTS
  Tabs,        \* the engines of a match; each shows the seat of its name
  HallEnd,     \* the hall is 0 .. HallEnd
  HallRoom,    \* place -> room of its tile
  Levels,      \* the stages: [faces, gates], room -> places of its surfaces, and
               \* a sequence of portals [a, b, place, hung], hung: a path opening
  EntryAt,     \* where everyone is after a load
  Pace,        \* the longest step
  BodyRadius,  \* PORT_WALL_SKIN as the radius of a body that steps
  FaceSkin,    \* the skin of 8 around surfaces and slabs
  Lean,        \* 24, from where a body looks for its own tile
  Across,      \* 40, from where a surface is looked at from both sides
  OpeningNear, \* 90
  SlabHalf,    \* PORT_DOOR_HALF_T
  SlabPush,    \* SLAB_ZPUSH: a slab is drawn this much nearer to the camera
  SlabRange,   \* 900
  FaceCap,     \* 80, the farthest that surfaces push
  SlabCap,     \* 120, the farthest that slabs push
  MaxFaces,    \* PORT_G1_WALL_MAX
  MaxPerRoom,  \* PORT_G1_WALL_PER
  MaxLooked,   \* the 8 rooms that are looked at
  MaxNoted     \* PORT_SLAB_EMIT_MAX

ASSUME FacesAssumption ==
  /\ {MaxFaces, MaxPerRoom, MaxLooked} \subseteq Nat /\ 1 \in DOMAIN Levels
  /\ \A l \in DOMAIN Levels : \A r \in DOMAIN Levels[l].faces : Levels[l].faces[r] \in Seq(Int)

VARIABLES
  level,       \* the stage
  solid,       \* the gates whose door is shut
  spot,        \* tab -> seat -> place
  known,       \* tab -> g_walls and, by room, g_rm_w0, g_rm_wn, g_rm_wh
  view,        \* tab -> g_cur_room and g_walked
  noted        \* tab -> where the slabs of the last frame stand

faceVars == <<level, solid, spot, known, view, noted>>

Level == Levels[level]
Gates == Level.gates
FaceRooms == DOMAIN Level.faces
Hall == 0 .. HallEnd
Between(x, y) == IF x < y THEN y - x ELSE x - y
Away(x) == IF x < 0 THEN -1 ELSE 1
Least(a, b) == IF a < b THEN a ELSE b

(* port_stan_tile_room(), 0 off the tiles *)
TileRoom(x) == IF x \in Hall THEN HallRoom[x] ELSE 0

(* g1_add_room() *)
AddRoom(rooms, r) ==
  IF r < 1 \/ r \in Range(rooms) \/ Len(rooms) >= MaxLooked THEN rooms ELSE Append(rooms, r)

(* g1_chr_rooms(): the room of a place, the rooms of the last frame, and    *)
(* those through a portal from one of them.                                 *)
RoomsAround(x, v) ==
  LET seen == FoldLeft(AddRoom, <<>>, <<TileRoom(x), v.room>> \o v.walked)
      through(rooms, g) == IF {g.a, g.b} \cap Range(rooms) = {} THEN rooms
                           ELSE AddRoom(AddRoom(rooms, g.a), g.b)
  IN  FoldLeft(through, seen, Gates)

NoFaces(rooms) ==
  [table |-> <<>>, first |-> [r \in rooms |-> 0], count |-> [r \in rooms |-> 0], looked |-> {}]

(* g1_collect_room_walls(): once per room, while there is room in the table *)
Collected(k, r) ==
  LET own == Level.faces[r]
      n == Least(Len(own), Least(MaxPerRoom, MaxFaces - Len(k.table)))
  IN  IF r \notin FaceRooms \/ r \in k.looked THEN k
      ELSE [table |-> k.table \o SubSeq(own, 1, n),
            first |-> [k.first EXCEPT ![r] = Len(k.table)],
            count |-> [k.count EXCEPT ![r] = n],
            looked |-> k.looked \cup {r}]

(* In the order of the rooms, of which there are MaxLooked at most. *)
LookedAt(k, rooms) ==
  LET after[i \in 0 .. MaxLooked] ==
        IF i = 0 THEN k
        ELSE IF i \in DOMAIN rooms THEN Collected(after[i - 1], rooms[i]) ELSE after[i - 1]
  IN  after[MaxLooked]

SliceOf(k, r) == SubSeq(k.table, k.first[r] + 1, k.first[r] + k.count[r])

(* g1_wall_is_portal(): near a path opening, or between the tiles of two    *)
(* rooms.                                                                   *)
IsPortal(w) ==
  \/ \E g \in Range(Gates) : g.hung /\ Between(g.place, w) < OpeningNear
  \/ /\ w - Across \in Hall /\ w + Across \in Hall
     /\ TileRoom(w - Across) # TileRoom(w + Across)

Stopping(k, rooms) ==
  LET slices == [i \in DOMAIN rooms |-> IF rooms[i] \in FaceRooms THEN SliceOf(k, rooms[i]) ELSE <<>>]
  IN  SelectSeq(FlattenSeq(slices), LAMBDA w : ~IsPortal(w))

(* Where a body at x is pulled to: the middle of the places around it that  *)
(* are of its own room, two of them beside it.                              *)
Homeward(x, w) ==
  LET home == {d \in {-Lean, Lean} : x + d \in Hall /\ TileRoom(x) \in {0, TileRoom(x + d)}}
      beside == IF x \in Hall THEN 2 ELSE 0
      sum == IF home = {Lean} THEN Lean ELSE IF home = {-Lean} THEN -Lean ELSE 0
      weight == IF home = {} /\ beside = 0 THEN 1 ELSE beside + Cardinality(home)
  IN  Away(weight * (x - w) + sum)

(* port_stage_g1_wall_push(), push_off_slabs(): off the surface that is     *)
(* deepest in, four times, and not farther than cap.                        *)
Push(x, at, clear, cap, Side(_, _)) ==
  LET Once(p, n) ==
        LET c == x + p.by
            In == {i \in DOMAIN at : Between(c, at[i]) < clear}
            Need(i) == clear - Side(c, at[i]) * (c - at[i])
            most == CHOOSE i \in In : \A j \in In : Need(j) < Need(i) \/ (Need(j) = Need(i) /\ i <= j)
            by == p.by + Side(c, at[most]) * Least(Need(most), cap)
        IN  IF p.done \/ In = {} THEN [p EXCEPT !.done = TRUE]
            ELSE IF Between(by, 0) > cap THEN [by |-> cap * Away(by), done |-> TRUE]
            ELSE [by |-> by, done |-> FALSE]
  IN  FoldLeft(Once, [by |-> 0, done |-> FALSE], <<1, 2, 3, 4>>).by

OwnSide(x, at) == Away(x - at)

OffFaces(x, at) == Push(x, at, BodyRadius + FaceSkin, FaceCap, Homeward)
OffSlabs(x, at) == Push(x, at, BodyRadius + FaceSkin, SlabCap, OwnSide)

(* legal_world() *)
InLeaf(x) == \E i \in solid : Between(x, Gates[i].place) < SlabHalf
MayStand(x) == x \in Hall /\ ~InLeaf(x)

(* port_stage_g1_wall_ray(): how far the surfaces ahead are. *)
FaceGaps(x, s, ws) == {(w - x) * s : w \in {v \in Range(ws) : (v - x) * s > 0}}

(* port_stan_ray_block(): how far a body goes from x in direction s.        *)
Stop(x, s, ws) ==
  LET gaps == FaceGaps(x, s, ws) \cup
              {(Gates[i].place - x) * s - SlabHalf : i \in {j \in solid : (Gates[j].place - x) * s > -SlabHalf}}
  IN  IF gaps = {} THEN HallEnd + BodyRadius + Pace
      ELSE CHOOSE g \in gaps : \A h \in gaps : g <= h

Greater(a, b) == IF a > b THEN a ELSE b

(* clip_step_ex(), from where tiles and doors let a body go: the ray to     *)
(* what is in its way, and off the surfaces and slabs it has come to.       *)
Stepped(e, x, want) ==
  LET s == Away(want - x)
      goes == MayStand(want) /\ want # x
      ahead == RoomsAround(x, view[e])
      k1 == IF goes THEN LookedAt(known[e], ahead) ELSE known[e]
      gap == Stop(x, s, Stopping(k1, ahead))
      mid == IF ~goes THEN x
             ELSE IF gap < Between(want, x) + BodyRadius THEN x + s * Greater(0, gap - BodyRadius)
             ELSE want
      around == RoomsAround(mid, view[e])
      k2 == LookedAt(k1, around)
      by == OffFaces(mid, Stopping(k2, around)) + OffSlabs(mid, noted[e])
  IN  IF InLeaf(x) THEN [to |-> IF want \in Hall THEN want ELSE x, known |-> known[e]]
      ELSE [to |-> IF MayStand(mid + by) THEN mid + by ELSE mid, known |-> k2]

(* port_player_tick() of one seat, in every engine. *)
StepOf(p, d) ==
  /\ spot' = [e \in Tabs |-> [spot[e] EXCEPT ![p] = Stepped(e, @, @ + d).to]]
  /\ known' = [e \in Tabs |-> Stepped(e, spot[e][p], spot[e][p] + d).known]
  /\ UNCHANGED <<level, solid, view, noted>>

TakeStep == \E p \in Tabs, d \in -Pace .. Pace : StepOf(p, d)

(* Somebody uses the door of a gate; its leaf swings (see Doors). *)
UseGate ==
  /\ \E i \in DOMAIN Gates : Gates[i].hung /\ solid' = (solid \ {i}) \cup ({i} \ solid)
  /\ UNCHANGED <<level, spot, known, view, noted>>

(* The rooms that a frame shows. *)
Shown(r) ==
  LET open == [i \in DOMAIN Gates |-> i \notin solid]
      through(rooms, i) == IF open[i] /\ r \in {Gates[i].a, Gates[i].b}
                           THEN AddRoom(AddRoom(rooms, Gates[i].a), Gates[i].b) ELSE rooms
  IN  FoldLeft(through, <<r>>, [i \in DOMAIN Gates |-> i])

(* slab_face(): a slab stands a little nearer to who looks at it.           *)
SlabAt(x, g) == g.place + (IF x > g.place THEN SlabPush ELSE -SlabPush)

(* slab_emit_note() *)
Note(slabs, at) == IF Len(slabs) >= MaxNoted THEN slabs ELSE Append(slabs, at)

(* The slabs of the path openings near the camera that lead to a room that  *)
(* is shown, open or shut.                                                  *)
Fitted(x, rooms) ==
  LET Shows(g) == /\ g.hung /\ Between(g.place, x) <= SlabRange
                  /\ {g.a, g.b} \cap Range(rooms) # {}
  IN  FoldLeft(LAMBDA slabs, g : IF Shows(g) THEN Note(slabs, SlabAt(x, g)) ELSE slabs, <<>>, Gates)

(* port_stan_visual_xz(): the camera is held off the surfaces, too, which   *)
(* looks at rooms.                                                          *)
CameraLooks(k, x, v) == LookedAt(k, RoomsAround(x, v))

(* port_stage_draw(): of the tab's own seat. *)
DrawFrame(e) ==
  LET x == spot[e][e]
      v == [room |-> TileRoom(x), walked |-> Shown(TileRoom(x))]
  IN  /\ view' = [view EXCEPT ![e] = v]
      /\ known' = [known EXCEPT ![e] = CameraLooks(@, x, v)]
      /\ noted' = [noted EXCEPT ![e] = Fitted(x, v.walked)]
      /\ UNCHANGED <<level, solid, spot>>

Hung(l) == {i \in DOMAIN Levels[l].gates : Levels[l].gates[i].hung}

\* Mutant: a load empties the table, and the rooms keep their marks.
KeepMarks(l) ==
  /\ level' = l
  /\ solid' = Hung(l)
  /\ spot' = [e \in Tabs |-> [p \in Tabs |-> EntryAt]]
  /\ known' = [e \in Tabs |-> [NoFaces(DOMAIN Levels[l].faces) EXCEPT !.looked = known[e].looked]]
  /\ view' = [e \in Tabs |-> [room |-> 0, walked |-> <<>>]]
  /\ UNCHANGED noted

(* clear_rooms() and the load of a stage, in every engine.  The slabs of    *)
(* the last frame are left as they are.                                     *)
LoadLevelOf(l) ==
  /\ level' = l
  /\ solid' = Hung(l)
  /\ spot' = [e \in Tabs |-> [p \in Tabs |-> EntryAt]]
  /\ known' = [e \in Tabs |-> NoFaces(DOMAIN Levels[l].faces)]
  /\ view' = [e \in Tabs |-> [room |-> 0, walked |-> <<>>]]
  /\ UNCHANGED noted

DrawSome == \E e \in Tabs : DrawFrame(e)
LoadSome == \E l \in DOMAIN Levels : LoadLevelOf(l)

FacesInit ==
  /\ level = 1 /\ solid = Hung(1)
  /\ spot = [e \in Tabs |-> [p \in Tabs |-> EntryAt]]
  /\ known = [e \in Tabs |-> NoFaces(DOMAIN Levels[1].faces)]
  /\ view = [e \in Tabs |-> [room |-> 0, walked |-> <<>>]]
  /\ noted = [e \in Tabs |-> <<>>]

FacesNext == TakeStep \/ UseGate \/ DrawSome \/ LoadSome

FacesSpec == FacesInit /\ [][FacesNext]_faceVars

-------------------------------------------------------------------------------
(* Each room that was looked at has its own surfaces and those only, all   *)
(* of them unless a limit cut them off, and no surface is of a stage that  *)
(* is gone: however rooms are looked at by steps, frames and loads.        *)
OwnFaces ==
  \A e \in Tabs :
    /\ Len(known[e].table) <= MaxFaces
    /\ \A r \in known[e].looked :
         LET own == Level.faces[r]
             slice == SliceOf(known[e], r)
         IN  /\ slice = SubSeq(own, 1, Len(slice))
             /\ Len(slice) \in {Least(Len(own), MaxPerRoom), MaxFaces - known[e].first[r]}
===============================================================================
