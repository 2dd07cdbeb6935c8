--------------------------------- MODULE Setup ---------------------------------
(***************************************************************************)
(* What a setup file puts into a stage: parse_setup(), parse_intro() and   *)
(* choose_pickup() of fs/prop.c, and the guns that the dead leave behind.  *)
(* The file is a sequence of records; one that follows a piece of scenery  *)
(* may lie on it, one that belongs to a guard may come before or after it. *)
(*                                                                         *)
(* Abstracted: coordinates (a pad has the distances and the ground that    *)
(* choose_pickup() asks for), looks, scales and models, of which the pack  *)
(* may lack any.                                                           *)
(***************************************************************************)
EXTENDS Integers, Sequences, SequencesExt, FiniteSets, FiniteSetsExt

CONSTANTS
  Setups,   \* [file: sequences of [type, model, pad, flags, chr],
            \*  intro: sequences of [pad, demo], its spawns]
  Pads,     \* pad -> [dist, slab, firebox, on, near, ground]
  Chrs,     \* the numbers of guards
  Packs,    \* the sets of models that a pack may have
  MaxProps, MaxCands, MaxIntro,
  None

VARIABLES
  setup, has,       \* what the stage was loaded from
  props,            \* g_prop: [type, model, pad, chr, held, dropped, kind]
  cands,            \* g_pcand
  spawns,           \* g_intro_pads
  pickup,           \* g_pickup_prop, or 0
  drops,            \* g_drops
  step              \* "no stage", "loaded", "chosen"

vars == <<setup, has, props, cands, spawns, pickup, drops, step>>

Scenery == {"door", "prop", "rack"}
Items == {"magazine", "collectable", "armour", "key"}

(* pickup_kind_of() and pickup_skip_model() *)
Skipped(model) == model = "card"
KindOf(type, model) ==
  CASE type = "armour" \/ model = "vest" -> "armour"
    [] type = "magazine" \/ model = "clip" -> "ammo"
    [] type = "collectable" /\ ~Skipped(model) -> "ammo"
    [] OTHER -> "-"

InFile(pad) == pad \in DOMAIN Pads
Prop(type, model, pad, chr, kind) ==
  [type |-> type, model |-> model, pad |-> pad, chr |-> chr, held |-> "-", dropped |-> FALSE, kind |-> kind]

-------------------------------------------------------------------------------
(* parse_intro(): the spawns that are not of a demo, or else the first one; *)
(* then those whose pad is in the file.                                     *)
ParseIntro(entries) ==
  LET real == SelectSeq(entries, LAMBDA e : ~e.demo)
      known == SelectSeq(entries, LAMBDA e : e.pad >= 0)
      taken == IF real # <<>> THEN SubSeq(real, 1, Min({Len(real), MaxIntro}))
               ELSE SubSeq(known, 1, Min({Len(known), 1}))
  IN  SelectSeq([i \in DOMAIN taken |-> taken[i].pad], InFile)

-------------------------------------------------------------------------------
(* One record: [props, cands, gun, last].                                   *)

(* record_pickup_cand() *)
Recorded(w, r, pad) ==
  IF Len(w.cands) >= MaxCands \/ pad = None \/ Skipped(r.model) \/ r.type = "key"
       \/ KindOf(r.type, r.model) = "-"
    THEN w.cands
  ELSE Append(w.cands, [type |-> r.type, model |-> r.model, pad |-> pad, orig |-> r.pad, flags |-> r.flags])

\* Mutant: a guard keeps the first gun that is assigned to it.
FirstGun(gun, chr, model) == IF gun[chr] = "-" THEN [gun EXCEPT ![chr] = model] ELSE gun

LastGun(gun, chr, model) == [gun EXCEPT ![chr] = model]

(* An assigned item has the number of its guard where others have a pad.    *)
TakeItem(w, r) ==
  LET pad == IF r.pad < 0 THEN w.last ELSE IF InFile(r.pad) THEN r.pad ELSE None
      given == "assigned" \in r.flags /\ r.pad \in Chrs /\ KindOf(r.type, r.model) = "ammo"
  IN  [w EXCEPT !.gun = IF given THEN LastGun(@, r.pad, r.model) ELSE @,
                !.cands = Recorded(w, r, pad)]

(* Scenery whose model is missing is not a prop, but items may lie on it.   *)
TakeScenery(w, r, models) ==
  IF Len(w.props) >= MaxProps \/ ~InFile(r.pad) THEN w
  ELSE [w EXCEPT !.last = r.pad,
                 !.props = IF r.model \in models
                             THEN Append(@, Prop(r.type, r.model, r.pad, 0 - 1, "-")) ELSE @]

TakeGuard(w, r, models) ==
  IF Len(w.props) >= MaxProps \/ ~InFile(r.pad) \/ r.model \notin models THEN w
  ELSE [w EXCEPT !.props = Append(@, Prop("guard", r.model, r.pad, r.chr, "-"))]

Take(w, r, models) ==
  CASE r.type \in Items -> TakeItem(w, r)
    [] r.type \in Scenery -> TakeScenery(w, r, models)
    [] r.type = "guard" -> TakeGuard(w, r, models)
    [] OTHER -> w

Records(f) == SubSeq(f, 1, Min({i \in DOMAIN f : f[i].type = "end"} \cup {Len(f) + 1}) - 1)

(* bind_assigned_guns(), when all records are read *)
Bind(w) ==
  [i \in DOMAIN w.props |->
     IF w.props[i].type = "guard" THEN [w.props[i] EXCEPT !.held = w.gun[w.props[i].chr]]
     ELSE w.props[i]]

ParseSetup(f, models) ==
  LET empty == [props |-> <<>>, cands |-> <<>>, gun |-> [c \in Chrs |-> "-"], last |-> None]
      w == FoldLeft(LAMBDA x, r : LET y == x IN Take(y, r, models), empty, Records(f))
  IN  [w EXCEPT !.props = Bind(w)]

-------------------------------------------------------------------------------
(* choose_pickup() *)

Rank(c) ==
  LET p == Pads[c.pad]
  IN  (CASE c.type = "armour" -> 0 [] c.type = "magazine" -> 1 [] OTHER -> 2)
        + (IF p.ground THEN 0 ELSE 10) + (IF p.on \/ p.near THEN 0 ELSE 10)

OnFloor(c) == c.orig >= 0 /\ c.flags = {}
Clear(c) == ~Pads[c.pad].slab /\ ~Pads[c.pad].firebox

Better(c, d) == Rank(c) < Rank(d) \/ (Rank(c) = Rank(d) /\ Pads[c.pad].dist < Pads[d.pad].dist)

Eligible == {i \in DOMAIN cands : OnFloor(cands[i]) /\ Clear(cands[i])}

(* load_one_pickup() *)
Loads(c) == Len(props) < MaxProps /\ c.model \in has

\* Mutant: what takes the place of the best need not lie on the floor.
InsteadAny(best) == {i \in DOMAIN cands \ {best} : Loads(cands[i])}

(* When the best has no model the first that has one, however near it is.   *)
Instead(best) == {i \in DOMAIN cands \ {best} : OnFloor(cands[i]) /\ Loads(cands[i])}

Chosen ==
  LET best == CHOOSE i \in Eligible : \A k \in Eligible : i = k \/ Better(cands[i], cands[k])
                                        \/ (~Better(cands[k], cands[i]) /\ i < k)
  IN  IF Eligible = {} THEN 0
      ELSE IF Loads(cands[best]) THEN best
      ELSE IF Instead(best) = {} THEN 0 ELSE Min(Instead(best))

-------------------------------------------------------------------------------
NoSetup == [file |-> <<>>, intro |-> <<>>]

Init ==
  /\ setup = NoSetup /\ has = {} /\ props = <<>> /\ cands = <<>> /\ spawns = <<>>
  /\ pickup = 0 /\ drops = {} /\ step = "no stage"

(* port_prop_load(), and port_prop_unload() before it *)
LoadProps ==
  /\ step = "no stage"
  /\ setup' \in Setups /\ has' \in Packs
  /\ LET w == ParseSetup(setup'.file, has')
     IN  props' = w.props /\ cands' = w.cands
  /\ spawns' = ParseIntro(setup'.intro)
  /\ step' = "loaded"
  /\ UNCHANGED <<pickup, drops>>

(* port_prop_choose_pickup(), when the stage has its tiles *)
ChoosePickup ==
  /\ step = "loaded" /\ step' = "chosen"
  /\ LET i == Chosen
         c == cands[i]
     IN  IF i = 0 THEN UNCHANGED <<props, pickup>>
         ELSE /\ props' = Append(props, Prop(c.type, c.model, c.pad, 0 - 1, KindOf(c.type, c.model)))
              /\ pickup' = Len(props) + 1
  /\ UNCHANGED <<setup, has, cands, spawns, drops>>

\* Mutant: a guard that has dropped its gun is not marked.
Unmarked(prop) == prop

Marked(prop) == [prop EXCEPT !.dropped = TRUE]

(* maybe_spawn_death_drops() and spawn_death_drop_at() for one guard: it    *)
(* drops its gun once, or never when it died at the spawn or off the tiles, *)
(* or when there is no room or no model.                                    *)
Die(i) ==
  /\ step = "chosen" /\ props[i].type = "guard" /\ ~props[i].dropped /\ props[i].held # "-"
  /\ LET gun == props[i].held
         kind == KindOf("collectable", gun)
         rest == [props EXCEPT ![i] = Marked(@)]
     IN  \/ /\ Len(props) < MaxProps /\ gun \in has /\ kind # "-"
            /\ props' = Append(rest, Prop("collectable", gun, None, 0 - 1, kind))
            /\ drops' = drops \cup {Len(props) + 1}
         \/ props' = rest /\ drops' = drops
  /\ UNCHANGED <<setup, has, cands, spawns, pickup, step>>

Unload ==
  /\ step = "chosen" /\ step' = "no stage"
  /\ setup' = NoSetup /\ has' = {} /\ props' = <<>> /\ cands' = <<>> /\ spawns' = <<>>
  /\ pickup' = 0 /\ drops' = {}

Next == LoadProps \/ ChoosePickup \/ Unload \/ \E i \in DOMAIN props : Die(i)

Spec == Init /\ [][Next]_vars

-------------------------------------------------------------------------------
GuardsIn(s) == {i \in DOMAIN s : s[i].type = "guard"}

(* A guard holds the gun that the file assigns to its number last, wherever *)
(* that stands, and none if there is no such gun.                           *)
RightGuns ==
  LET f == Records(setup.file)
      Given(chr) == {k \in DOMAIN f : /\ f[k].type \in Items /\ "assigned" \in f[k].flags
                                      /\ f[k].pad = chr /\ KindOf(f[k].type, f[k].model) = "ammo"}
  IN  \A i \in GuardsIn(props) :
        LET given == Given(props[i].chr)
        IN  props[i].held = IF given = {} THEN "-" ELSE f[Max(given)].model

(* The pickup lies on the floor of its own pad, nothing better that can be  *)
(* shown was passed over unless it was second to what cannot, and what the  *)
(* dead leave behind does not become the pickup.                            *)
PickupLies ==
  /\ pickup # 0 =>
       /\ pickup \notin drops /\ props[pickup].kind # "-"
       /\ \E i \in DOMAIN cands : OnFloor(cands[i]) /\ cands[i].pad = props[pickup].pad
                                   /\ cands[i].model = props[pickup].model
  /\ step = "chosen" /\ pickup = 0 /\ (\E i \in Eligible : cands[i].model \in has) =>
       Len(props) = MaxProps

(* As many guns of a model lie about as guards have dropped, at most.       *)
OneGunEach ==
  \A m \in has :
    Cardinality({i \in drops : props[i].model = m})
      <= Cardinality({i \in GuardsIn(props) : props[i].dropped /\ props[i].held = m})

(* A player of the first seat starts where the first spawn is that is none  *)
(* of a demo and has a pad in the file; those of a demo are for files that  *)
(* have no other.                                                           *)
RealSpawns ==
  LET e == setup.intro
      real == {i \in 1 .. Min({Len(e), MaxIntro}) : ~e[i].demo /\ InFile(e[i].pad)}
  IN  /\ real # {} => spawns # <<>> /\ spawns[1] = e[Min(real)].pad
      /\ (\E i \in DOMAIN e : ~e[i].demo) =>
           \A k \in DOMAIN spawns : \E i \in DOMAIN e : ~e[i].demo /\ e[i].pad = spawns[k]
===============================================================================
