------------------------------ MODULE VisibleRooms ------------------------------
(***************************************************************************)
(* Which rooms port_stage_draw() of fs/stage.c draws: those that a walk    *)
(* from the camera's room through the portals reaches.  A portal that      *)
(* looks like a door is sealed while a door slab stands shut at its place, *)
(* seen from above: a portal of the floor below or above at the same place *)
(* is sealed with it.                                                      *)
(***************************************************************************)
EXTENDS Integers, Sequences, SequencesExt, FiniteSets

CONSTANTS
  Rooms,       \* 1 .. g_bg_rooms
  Maps,        \* the levels: sequences of portals [a, b, place, doorlike]
  Paired(_, _),\* port_stage_path_opening(): the rooms between which a door is hung
  Pads,        \* places where the setup has a door
  Height,      \* room -> pos.y
  SameFloor,   \* 400
  Catwalk,     \* {12, 13, 14, 15}: the camera looks farther there
  Lab,         \* {71, 7, 8}: farther too, but not up to y >= 0
  WalkDepth,   \* PORT_WALK_DEPTH
  FarDepth,    \* 5
  Cap          \* PORT_WALK_MAX

VARIABLES
  portals,     \* g_portals
  shut,        \* the places of the slabs that are shut
  camera,      \* what the mesh says of it: [eye, floor, near], 0 where nothing
  drawn,       \* g_walked
  current      \* g_cur_room, and whether the frame is of this camera and these doors

vars == <<portals, shut, camera, drawn, current>>

Sides(po) == {po.a, po.b}
Beyond(po, r) == IF po.a = r THEN po.b ELSE po.a

(* bind_path_openings(), after the doors of the setup *)
Slabs == Pads \union {po.place : po \in {q \in Range(portals) : q.doorlike /\ Paired(q.a, q.b)}}

(* portal_vis_closed() *)
Sealed(po) == po.doorlike /\ po.place \in shut

(* port_stage_room_at_local(): the tile below, a tile nearby, the nearest room *)
RoomAtLocal ==
  IF camera.floor \in Rooms THEN camera.floor ELSE camera.near

(* pick_current_room(); there always is a nearest room, so that the last good *)
(* room is never needed.                                                      *)
PickCurrentRoom == IF camera.eye \in Rooms THEN camera.eye ELSE RoomAtLocal

MaxDepth(cur) == IF cur \in Catwalk \union Lab THEN FarDepth ELSE WalkDepth

\* Mutant: a room behind a closed door is marked as seen.
SeenThroughDoor(w, cur, r, d, po) ==
  LET o == Beyond(po, r)
  IN  IF r \notin Sides(po) \/ o \notin Rooms \/ o \in w.seen THEN w
      ELSE IF Sealed(po) THEN [w EXCEPT !.seen = @ \union {o}]
      ELSE [w EXCEPT !.seen = @ \union {o}, !.queue = Append(@, [room |-> o, depth |-> d + 1])]

(* One portal of room r, at depth d. *)
Through(w, cur, r, d, po) ==
  LET o == Beyond(po, r)
  IN  IF \/ r \notin Sides(po) \/ o \notin Rooms \/ o \in w.seen \/ Sealed(po)
         \/ cur \in Lab /\ d >= WalkDepth /\ Height[o] >= 0
      THEN w
      ELSE [w EXCEPT !.seen = @ \union {o}, !.queue = Append(@, [room |-> o, depth |-> d + 1])]

Level(po, r) ==
  Beyond(po, r) \in Rooms /\ Height[Beyond(po, r)] - Height[r] \in -SameFloor .. SameFloor

(* One room off the queue: the portals of its own floor first. *)
Step(w, cur) ==
  LET r == w.queue[w.head].room
      d == w.queue[w.head].depth
      pass(v, same) == FoldLeft(LAMBDA u, po : LET x == u IN
                                  IF (r \in Sides(po) /\ Level(po, r)) = same
                                  THEN Through(x, cur, r, d, po) ELSE x, v, portals)
      next == [w EXCEPT !.head = @ + 1]
  IN  IF d >= MaxDepth(cur) THEN next ELSE pass(pass(next, TRUE), FALSE)

(* select_rooms(): at most Cap rooms are taken off the queue. *)
SelectRooms(cur) ==
  LET start == [queue |-> <<[room |-> cur, depth |-> 0]>>, head |-> 1, seen |-> {cur}]
      end == FoldLeft(LAMBDA u, n : LET w == u IN
                        IF w.head <= Len(w.queue) THEN Step(w, cur) ELSE w,
                      start, [n \in 1 .. Cap |-> n])
  IN  [n \in 1 .. end.head - 1 |-> end.queue[n].room]

-------------------------------------------------------------------------------
(* port_stage_draw(), as far as the rooms go. *)
Draw ==
  /\ drawn' = SelectRooms(PickCurrentRoom)
  /\ current' = [room |-> PickCurrentRoom, fresh |-> TRUE]
  /\ UNCHANGED <<portals, shut, camera>>

(* A door opens or shuts, and the player walks, between two frames. *)
Swing ==
  /\ \E d \in Slabs : shut' = (shut \ {d}) \union ({d} \ shut)
  /\ current' = [current EXCEPT !.fresh = FALSE]
  /\ UNCHANGED <<portals, camera, drawn>>

Cameras == [eye : Rooms \union {0}, floor : {0}, near : {1}] \union
           [eye : {0}, floor : Rooms, near : {1}] \union [eye : {0}, floor : {0}, near : Rooms]
Walk ==
  /\ camera' \in Cameras
  /\ current' = [current EXCEPT !.fresh = FALSE]
  /\ UNCHANGED <<portals, shut, drawn>>

Init ==
  /\ portals \in Maps
  /\ shut = Slabs
  /\ camera = [eye |-> 1, floor |-> 0, near |-> 1]
  /\ drawn = << >> /\ current = [room |-> 0, fresh |-> FALSE]

Next == Draw \/ Swing \/ Walk

Spec == Init /\ [][Next]_vars

-------------------------------------------------------------------------------
TypeOK ==
  /\ Range(drawn) \subseteq Rooms /\ Len(drawn) <= Cap
  /\ shut \subseteq Slabs

(* The rooms one open portal away from a set of rooms. *)
Neighbours(R, deep, cur) ==
  {o \in Rooms : \E po \in Range(portals) :
      /\ ~Sealed(po) /\ o \in Sides(po) /\ Sides(po) \intersect R # {}
      /\ ~(deep /\ cur \in Lab /\ Height[o] >= 0)}

(* Those within n. *)
Within(n, cur) ==
  LET reach[k \in 0 .. n] ==
        IF k = 0 THEN {cur}
        ELSE reach[k - 1] \union Neighbours(reach[k - 1], k > WalkDepth, cur)
  IN  reach[n]

(* What a frame shows is what can be seen from the camera's room through   *)
(* portals that are not sealed, as far as the walk goes: the camera's room *)
(* first, each room once, none behind a shut door, none left out that has  *)
(* another way; and when there is not room for all, the nearest.           *)
ShowsView ==
  LET cur == PickCurrentRoom
      all == Within(MaxDepth(cur), cur)
  IN  current.fresh =>
        /\ current.room = cur /\ drawn[1] = cur
        /\ IsInjective(drawn)
        /\ Range(drawn) \subseteq all
        /\ Len(drawn) < Cap => Range(drawn) = all
        /\ \A n \in 0 .. MaxDepth(cur) :
             Within(n, cur) \subseteq Range(drawn) \/ Range(drawn) \subseteq Within(n, cur)
===============================================================================
