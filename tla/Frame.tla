--------------------------------- MODULE Frame ---------------------------------
(***************************************************************************)
(* Drawing one frame after another: g1_interpret_rooms() of                *)
(* gfx/gbi_interp.c walks the display lists of the parts (rooms, fitted    *)
(* props, characters) and emits triangles; sw_raster_list() paints them    *)
(* when all are walked, so that a triangle's texture is read from its slot *)
(* long after it was bound (gfx/tmem.c).  The vertex cache, the texture    *)
(* slots and the segments are shared by the parts.                         *)
(*                                                                         *)
(* What a list says is not data here: at each step any command may come    *)
(* next.  Matrices, colours, clipping and how a texture wraps are left     *)
(* out.  A bank is the memory a segment points into; "-" is a segment that *)
(* is not set.                                                             *)
(***************************************************************************)
EXTENDS Integers, Sequences, SequencesExt, FiniteSets

CONSTANTS
  Slots,     \* 1 .. G1_TEX_SLOTS
  Textures,  \* the texture ids that lists bind
  Absent,    \* those the pack does not have
  Verts,     \* the vertex cache: 1 .. G1_VTX
  Parts,     \* what stage_draw() hands over: [kind, vtx, seg4, seg5]
  Depth,     \* G1_MAX_DEPTH
  Commands,  \* bound: the commands of all frames
  FrameLimit \* bound: the frames

VARIABLES
  tex,       \* slot -> [id, stamp]; id "-": not loaded
  bind,      \* g_cur (0: none), g_use and g_frame_base
  vert,      \* vertex -> [bank, part], or DeadVert
  seg,       \* segment -> bank
  saved,     \* part_seg
  drawing,   \* the part that is walked, or NoPart
  walk,      \* the banks of the lists on the stack, the running one last
  tris,      \* what was emitted: [slot, id, part, list, from]
  progress   \* commands, frames, and the parts of this frame

frameVars == <<tex, bind, vert, seg, saved, drawing, walk, tris, progress>>

NoPart == [kind |-> "none", vtx |-> "-", seg4 |-> "-", seg5 |-> "-"]
DeadVert == [bank |-> "-", part |-> NoPart]
NoTexture == [id |-> "-", stamp |-> 0]
Segments == {4, 5, 14, 15}

ASSUME FrameAssumption ==
  /\ Slots \subseteq Nat \ {0}
  /\ "-" \notin Textures
  /\ \A p \in Parts : p.kind \in {"room", "prop", "chr"}
  /\ Depth \in Nat

IsChr(p) == p.kind = "chr"                       \* no_mtx
Isolated(p) == IsChr(p) \/ p.seg4 # "-"

-------------------------------------------------------------------------------
(* gfx/tmem.c                                                              *)

Holding(id) == {s \in Slots : tex[s].id = id}
Free == {s \in Slots : tex[s].id = "-"}
First(S) == CHOOSE s \in S : \A u \in S : s <= u
Oldest(S) == CHOOSE s \in S : \A u \in S : tex[s].stamp < tex[u].stamp \/ s = u

\* Mutant: the oldest slot, though it was bound in this frame.
AllocAny == IF Free # {} THEN First(Free) ELSE Oldest(Slots)

(* alloc_slot(): 0 when every slot was bound in this frame. *)
Alloc ==
  LET old == {s \in Slots : tex[s].stamp <= bind.base}
  IN  IF Free # {} THEN First(Free)
      ELSE IF old # {} THEN Oldest(old) ELSE 0

(* g1_tex_settex(), with what load_from_pack() loads. *)
SetTex(id) ==
  LET held == Holding(id)
      s == IF held # {} THEN First(held) ELSE IF id \in Absent THEN 0 ELSE Alloc
      use == bind.use + (IF held # {} THEN 1 ELSE 2)
  IN  IF s = 0
      THEN bind' = [bind EXCEPT !.cur = 0] /\ UNCHANGED tex
      ELSE /\ tex' = [tex EXCEPT ![s] = [id |-> id, stamp |-> use]]
           /\ bind' = [bind EXCEPT !.cur = s, !.use = use]

-------------------------------------------------------------------------------
(* gfx/gbi_interp.c                                                        *)

(* interpret_rooms() until the first part: segments stay as they are but for *)
(* those that port_stage_draw() sets.                                        *)
BeginFrame ==
  /\ progress.frame < FrameLimit /\ ~progress.open
  /\ \E room \in {p.vtx : p \in {q \in Parts : q.kind = "room"}} :
       seg' = [seg EXCEPT ![15] = "bg", ![14] = IF room = "-" THEN @ ELSE room]
  /\ bind' = [bind EXCEPT !.base = bind.use, !.cur = 0]
  /\ vert' = [v \in Verts |-> DeadVert]
  /\ tris' = {}
  /\ progress' = [progress EXCEPT !.frame = @ + 1, !.open = TRUE, !.parts = {}]
  /\ UNCHANGED <<tex, saved, drawing, walk>>

\* Mutant: the vertices the part before has loaded stay in the cache.
SharedVerts(p) == vert

(* A part by itself does not see the vertices of the others. *)
OwnVerts(p) == IF Isolated(p) THEN [v \in Verts |-> DeadVert] ELSE vert

(* The segments as the part is entered, before isolation. *)
BoundSegs(p) ==
  [seg EXCEPT ![14] = IF p.vtx # "-" THEN p.vtx ELSE @,
              ![5] = IF p.seg5 # "-" THEN p.seg5 ELSE @,
              ![4] = IF p.seg4 # "-" \/ IsChr(p) THEN p.seg4 ELSE @]
(* A character's list is not to reach what the rooms have bound. *)
IsolatedSegs(p, s) ==
  IF ~Isolated(p) THEN s
  ELSE IF IsChr(p) THEN [g \in Segments |-> CASE g = 4 -> p.seg4 [] g = 5 -> p.seg5 [] OTHER -> "-"]
  ELSE [s EXCEPT ![4] = p.seg4, ![5] = p.seg5]

(* The rooms come first. *)
BeginPart(p) ==
  /\ progress.open /\ drawing = NoPart /\ p \notin progress.parts
  /\ p.kind = "room" => \A q \in progress.parts : q.kind = "room"
  /\ drawing' = p
  /\ saved' = BoundSegs(p)
  /\ seg' = IsolatedSegs(p, BoundSegs(p))
  /\ vert' = OwnVerts(p)
  /\ walk' = <<IF p.kind = "room" THEN "bg" ELSE p.seg5>>
  /\ progress' = [progress EXCEPT !.parts = @ \union {p}]
  /\ UNCHANGED <<tex, bind, tris>>

EndPart ==
  /\ drawing # NoPart
  /\ drawing' = NoPart /\ walk' = << >>
  /\ seg' = IF Isolated(drawing) THEN saved ELSE seg
  /\ UNCHANGED <<tex, bind, vert, saved, tris, progress>>

(* dispatch() and walk_be(): one command. *)
Command ==
  /\ walk # << >> /\ progress.commands < Commands
  /\ progress' = [progress EXCEPT !.commands = @ + 1]
  /\ UNCHANGED <<saved, drawing>>

Bind ==
  /\ Command
  /\ \E id \in Textures : SetTex(id)
  /\ UNCHANGED <<vert, seg, walk, tris>>

LoadVerts ==
  /\ Command
  /\ \E g \in Segments, vs \in SUBSET Verts \ {{}} :
       /\ seg[g] # "-"
       /\ vert' = [v \in Verts |-> IF v \in vs THEN [bank |-> seg[g], part |-> drawing] ELSE vert[v]]
  /\ UNCHANGED <<tex, bind, seg, walk, tris>>

(* emit_indexed_tri(), of vertices that are live. *)
Emit ==
  /\ Command
  /\ \E vs \in SUBSET Verts \ {{}} :
       /\ \A v \in vs : vert[v] # DeadVert
       /\ tris' = tris \union
            {[slot |-> bind.cur, part |-> drawing, list |-> Last(walk),
              id |-> IF bind.cur = 0 THEN "-" ELSE tex[bind.cur].id,
              from |-> {vert[v] : v \in vs}]}
  /\ UNCHANGED <<tex, bind, vert, seg, walk>>

(* A character's list only branches within its file. *)
ChildOk(bank) == bank # "-" /\ (IsChr(drawing) => bank = drawing.seg5)

(* G_DL: a child that lies past the end of the part's list ends the walk. *)
Branch ==
  /\ Command
  /\ \E g \in Segments, past \in BOOLEAN, nopush \in BOOLEAN :
       /\ ChildOk(seg[g])
       /\ walk' = IF past /\ (nopush \/ Len(walk) <= Depth) THEN << >>
                  ELSE IF nopush THEN [walk EXCEPT ![Len(walk)] = seg[g]]
                  ELSE IF Len(walk) <= Depth THEN Append(walk, seg[g]) ELSE walk
  /\ UNCHANGED <<tex, bind, vert, seg, tris>>

(* G_ENDDL *)
Return ==
  /\ Command
  /\ walk' = Front(walk)
  /\ UNCHANGED <<tex, bind, vert, seg, tris>>

(* sw_raster_list() and the return from g1_interpret_rooms(). *)
EndFrame ==
  /\ progress.open /\ drawing = NoPart
  /\ progress' = [progress EXCEPT !.open = FALSE]
  /\ UNCHANGED <<tex, bind, vert, seg, saved, drawing, walk, tris>>

FrameInit ==
  /\ tex = [s \in Slots |-> NoTexture]
  /\ bind = [cur |-> 0, use |-> 0, base |-> 0]
  /\ vert = [v \in Verts |-> DeadVert]
  /\ seg = [g \in Segments |-> "-"] /\ saved = seg
  /\ drawing = NoPart /\ walk = << >> /\ tris = {}
  /\ progress = [commands |-> 0, frame |-> 0, open |-> FALSE, parts |-> {}]

FrameNext ==
  \/ BeginFrame \/ (\E p \in Parts : BeginPart(p)) \/ EndPart \/ EndFrame
  \/ Bind \/ LoadVerts \/ Emit \/ Branch \/ Return

FrameSpec == FrameInit /\ [][FrameNext]_frameVars

-------------------------------------------------------------------------------
FrameTypeOK ==
  /\ bind.cur \in Slots \union {0} /\ bind.base <= bind.use
  /\ bind.cur # 0 => tex[bind.cur].id # "-"
  /\ Len(walk) <= Depth + 1
  /\ drawing = NoPart => walk = << >>

(* A triangle is painted with the texture that was bound when it was       *)
(* emitted, however many others the frame binds before it is painted.      *)
KeepsTexels == \A t \in tris : t.slot # 0 => tex[t.slot].id = t.id

(* A character is drawn by its own file's lists, from vertices that it has *)
(* loaded itself out of its own file, whatever rooms and characters are    *)
(* drawn before it; a fitted prop, from vertices it has loaded itself.     *)
OwnVertices ==
  \A t \in tris :
    /\ Isolated(t.part) => \A v \in t.from : v.part = t.part
    /\ IsChr(t.part) => /\ t.list = t.part.seg5
                        /\ \A v \in t.from : v.bank \in {t.part.seg4, t.part.seg5}

AsEmitted == KeepsTexels /\ OwnVertices
===============================================================================
