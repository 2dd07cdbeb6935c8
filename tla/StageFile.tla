------------------------------- MODULE StageFile -------------------------------
(***************************************************************************)
(* The two files of a stage as port_stage_load() reads them (fs/stage.c,   *)
(* and port_stan_load() of player/stan_walk.c).  Of the display lists and  *)
(* the vertices of a room the file says only where they begin, of a tile's *)
(* neighbour only a point of it.                                           *)
(*                                                                         *)
(* Abstracted: bytes (a file is measured in words of eight of them), where *)
(* rooms and tiles are and at what scale, what is inflated (a field is     *)
(* [at, len, id, packed, good]: it can be inflated from len words on).     *)
(***************************************************************************)
EXTENDS Integers, Sequences, FiniteSets, FiniteSetsExt, Functions

CONSTANTS
  Stages,      \* [bg, stan], each a file or NoFile
  MaxPortals, MaxTiles, MaxPoints,
  Prefix,      \* 0x80: where the tiles begin when the file does not say it,
               \* and below it a link is none
  NoFile

VARIABLES
  stage,       \* what was asked for last
  loaded       \* code: what port_stage_load() has answered
               \* bg: g_bg and g_stan, "-" or "held"
               \* rooms: g_rm[1 .. g_bg_rooms], each [pri, vtx, sec]
               \* portals: g_portals, each [a, b, doorlike, yaw]
               \* tiles: g_tile, each [rare, n, nb]

vars == <<stage, loaded>>

-------------------------------------------------------------------------------
(* fixup_bg() *)

Inside(f, at) == at # 0 /\ at < f.size
FieldAt(f, at) == {b \in f.fields : b.at = at}
Packed(f, at) == \E b \in FieldAt(f, at) : b.packed

\* Mutant: only the fields of the same room are looked at.
OwnRoomEnd(f, i, start) ==
  Min({f.size} \cup {at \in Range(f.rooms[i]) : Inside(f, at) /\ at > start})

(* next_field_end(): a field ends where the next one of its room or of the  *)
(* room after it begins.                                                    *)
NextFieldEnd(f, i, start) ==
  Min({f.size} \cup {at \in UNION {Range(f.rooms[j]) : j \in {i, i + 1} \cap DOMAIN f.rooms} :
                       Inside(f, at) /\ at > start})

Nothing == [kind |-> "none", n |-> 0]
Length(f, i, at) == NextFieldEnd(f, i, at) - at

(* What a field holds: n is the number of commands of a list that is drawn  *)
(* from the file, or what has been inflated; inflate_blob().                *)
Inflated(f, at, length) ==
  IF \E b \in FieldAt(f, at) : b.good /\ b.len <= length
    THEN [kind |-> "inflated", n |-> (CHOOSE b \in FieldAt(f, at) : TRUE).id]
  ELSE [kind |-> "failed", n |-> 0]

List(f, at, length, least) ==
  IF ~Inside(f, at) \/ length <= least THEN Nothing
  ELSE IF f.magic = "G1DL" THEN [kind |-> "raw", n |-> length]
  ELSE IF f.magic = "0" /\ Packed(f, at) THEN Inflated(f, at, length) ELSE Nothing

Vertices(f, at, length) == IF Inside(f, at) /\ Packed(f, at) THEN Inflated(f, at, length) ELSE Nothing

(* The rooms up to the first without a primary list. *)
Rooms(f) ==
  LET last == Min({i \in DOMAIN f.rooms : ~Inside(f, f.rooms[i].pri)} \cup {Len(f.rooms) + 1})
  IN  [i \in 1 .. last - 1 |->
         LET r == f.rooms[i]
         IN  [pri |-> List(f, r.pri, Length(f, i, r.pri), 0),
              vtx |-> Vertices(f, r.vtx, Length(f, i, r.vtx)),
              sec |-> List(f, r.sec, Length(f, i, r.sec), 1)]]

(* portal_geom() *)
Portal(p) ==
  LET Larger(u, v) == IF u > v THEN u ELSE v
      Smaller(u, v) == IF u < v THEN u ELSE v
      doorlike == /\ p.points \in 3 .. 8
                  /\ Larger(p.dx, p.dz) \in 80 .. 450 /\ p.dy \in 80 .. 500
                  /\ Smaller(p.dx, p.dz) <= 80
  IN  [a |-> p.a, b |-> p.b, doorlike |-> doorlike, yaw |-> IF doorlike /\ p.dx <= p.dz THEN 90 ELSE 0]

(* The portals up to the first without a place; those that join two rooms. *)
Portals(f) ==
  LET end == Min({k \in DOMAIN f.portals : ~Inside(f, f.portals[k].at)} \cup {Len(f.portals) + 1})
      both == SelectSeq(SubSeq(f.portals, 1, end - 1), LAMBDA p : p.a # 0 /\ p.b # 0)
  IN  [k \in 1 .. Min({Len(both), MaxPortals}) |-> Portal(both[k])]

-------------------------------------------------------------------------------
(* port_stan_load() *)

TileAt(f, j) == f.at + FoldFunctionOnSet(LAMBDA n, sum : sum + n + 1, 0, f.points, 1 .. j - 1)

(* parse_tiles(): the number of points is in the high half of a byte of the *)
(* tile, or in the low one.                                                 *)
ParseTiles(f, low, at) ==
  LET Bad(j) == f.low # low \/ f.points[j] > MaxPoints \/ TileAt(f, j) + f.points[j] + 1 > f.size
      end == Min({j \in DOMAIN f.points : Bad(j)} \cup {Len(f.points) + 1})
  IN  IF at # f.at THEN <<>> ELSE [j \in 1 .. end - 1 |-> [rare |-> TileAt(f, j), n |-> f.points[j]]]

Pointer(f) == IF f.pointer >= 1 /\ f.pointer < f.size THEN f.pointer ELSE 0

FirstFound(tries) ==
  LET found == {i \in DOMAIN tries : tries[i] # <<>>}
  IN  IF found = {} THEN <<>> ELSE tries[Min(found)]

Parsed(f) ==
  FirstFound(<<ParseTiles(f, FALSE, Pointer(f)),
               IF f.size > 32 THEN ParseTiles(f, TRUE, Pointer(f)) ELSE <<>>,
               IF f.size > Prefix + 1 THEN ParseTiles(f, FALSE, Prefix) ELSE <<>>,
               IF f.size > Prefix + 1 THEN ParseTiles(f, TRUE, Prefix) ELSE <<>>>>)

\* Mutant: a tile ends before its last point.
SpansPoints(t, link) == t.rare <= link /\ link < t.rare + t.n

(* A link is to the head of a tile or to one of its points. *)
Spans(t, link) == t.rare <= link /\ link < t.rare + 1 + t.n

Linked(all, link) ==
  LET found == {j \in DOMAIN all : Spans(all[j], link)}
  IN  IF link < Prefix \/ found = {} THEN 0 ELSE Min(found)

Kept(all) == SubSeq(all, 1, Min({Len(all), MaxTiles}))

WithNeighbours(all, links) ==
  [j \in DOMAIN all |->
     [rare |-> all[j].rare, n |-> all[j].n, nb |-> [k \in 1 .. all[j].n |-> Linked(all, links[j][k])]]]

StanLoad(f) == WithNeighbours(Kept(Parsed(f)), f.links)

-------------------------------------------------------------------------------
Unloaded == [code |-> "-", bg |-> "-", rooms |-> <<>>, portals |-> <<>>, tiles |-> <<>>]

(* port_stage_load(): after port_stage_unload() every step may end it; what *)
(* fixup_bg() has read stays when the tiles or the first room fail.         *)
FixedUp(f) == [Unloaded EXCEPT !.rooms = Rooms(f), !.portals = Portals(f), !.code = "format"]

AfterFixup(fixed, stan) ==
  IF stan.size < 2 \/ (fixed.rooms # <<>> /\ fixed.rooms[1].pri.kind = "failed") THEN fixed
  ELSE [fixed EXCEPT !.code = "ok", !.bg = "held", !.tiles = StanLoad(stan)]

Load(s) ==
  IF s.bg = NoFile \/ s.stan = NoFile THEN [Unloaded EXCEPT !.code = "missing"]
  ELSE IF s.bg.size < 8 THEN [Unloaded EXCEPT !.code = "format"]
  ELSE AfterFixup(FixedUp(s.bg), s.stan)

NoStage == [bg |-> NoFile, stan |-> NoFile]

Init == stage = NoStage /\ loaded = Unloaded

LoadStage ==
  /\ loaded.code = "-"
  /\ stage' \in Stages
  /\ loaded' = Load(stage')

Spec == Init /\ [][LoadStage]_vars

-------------------------------------------------------------------------------
Held(at) == CHOOSE b \in FieldAt(stage.bg, at) : TRUE

(* A file that has room after room, in whatever order within a room. *)
RoomByRoom(f) ==
  \A i, j \in DOMAIN f.rooms : i < j =>
    \A u \in Range(f.rooms[i]), v \in Range(f.rooms[j]) : u # 0 /\ v # 0 => u < v

(* Every room is drawn from its own lists and vertices, wherever in the     *)
(* file they are; and a list that is not packed has no command of another,  *)
(* in a file that has room after room (the last list of it ends with the    *)
(* file).                                                                   *)
OwnFields ==
  loaded.code = "ok" =>
    \A i \in DOMAIN loaded.rooms : \A name \in {"pri", "vtx", "sec"} :
      LET at == stage.bg.rooms[i][name]
          got == loaded.rooms[i][name]
          last == Max({b.at : b \in stage.bg.fields})
      IN  /\ got.kind = "inflated" => got.n = Held(at).id
          /\ got.kind = "failed" => ~Held(at).good
          /\ got.kind = "raw" => got.n >= Held(at).len
          /\ got.kind = "raw" /\ RoomByRoom(stage.bg) /\ at # last => got.n = Held(at).len

(* A walker who leaves a tile over an edge gets to the tile that the file   *)
(* names for it, by whichever point and however the tiles are found.        *)
OwnNeighbours ==
  loaded.code = "ok" /\ stage.stan.at = Prefix =>
    \A j \in DOMAIN loaded.tiles : \A k \in DOMAIN loaded.tiles[j].nb :
      LET to == stage.stan.named[j][k]
      IN  loaded.tiles[j].nb[k] = IF to \in DOMAIN loaded.tiles THEN to ELSE 0
===============================================================================
