--------------------------------- MODULE Looks ---------------------------------
(***************************************************************************)
(* What the guards of a stage look like: the prop pass of fs/prop.c.       *)
(* Guards of one body share its models, one for each kind of pose; all     *)
(* walkers share the frame of one animation, all the dead that of another; *)
(* the list that a frame draws points into tables of the shared models and *)
(* is read after it is complete.                                           *)
(***************************************************************************)
EXTENDS Integers, Sequences, SequencesExt, FiniteSets, TLC

CONSTANTS
  Casts,      \* stages: [guards |-> a sequence of [body, gun], aim |-> the pack's pose decodes,
              \*          far, snapped |-> distances of the guards from the spawn]
  Fit,        \* <<kind, body>> -> fit_scale of that model
  Sights,     \* what else is in view: [doors |-> how many, holes |-> sizes of the openings]
  WalkStart,  \* PORT_ANIM_WALK_FRAME
  WalkLen,    \* frames of the walk
  DieLen,     \* frames of the death
  Rate,       \* PORT_DIE_FRAMES_PER_TICK
  Cap,        \* entries of the list
  Pool        \* SLAB_POOL

VARIABLES
  cast,       \* the stage's
  guard,      \* g_prop: guard -> [bound, size, alerted, dead]
  model,      \* g_mdl: <<kind, body>> -> [pose, fit]
  rest,       \* the walker (0: none) and its fit, the frames of both animations
  frame       \* the frame last drawn, Undrawn after a tick

vars == <<cast, guard, model, rest, frame>>

Undrawn == [list |-> <<>>, near |-> {}, holes |-> <<>>]
Guards == DOMAIN cast.guards
Id(kind, g) == <<kind, cast.guards[g].body>>
LastDie == DieLen - 1

(* What a model bound to the rest of a kind shows: bind_model_gdl(). *)
Pose(kind, r) == <<kind, CASE kind = "walk" -> r.walk [] kind = "die" -> r.die [] OTHER -> 0>>

(* All that binding a guard reads and changes. *)
Wardrobe == [guard |-> guard, model |-> model, rest |-> rest]

(* load_named(): a model is made once, in the pose of that moment. *)
Loaded(m, id, r, fit) ==
  (id :> [pose |-> IF id \in DOMAIN m THEN m[id].pose ELSE Pose(id[1], r), fit |-> fit]) @@ m

(* apply_chr_fit() *)
BindTo(w, g, kind, fit) ==
  [w EXCEPT !.model = Loaded(@, Id(kind, g), w.rest, fit),
            !.guard[g] = [@ EXCEPT !.bound = kind, !.size = fit]]

Parades(w, g) == g = w.rest.walker /\ ~w.guard[g].alerted

BindWalk(w, g) ==
  IF w.guard[g].dead \/ w.guard[g].bound = "walk" THEN w
  ELSE LET fit == IF w.rest.fit # 0 THEN w.rest.fit ELSE Fit[Id("walk", g)]
       IN  BindTo([w EXCEPT !.rest.fit = fit], g, "walk", fit)

BindIdle(w, g) ==
  IF w.guard[g].bound = "idle" \/ Parades(w, g) THEN w
  ELSE BindTo(w, g, "idle", Fit[Id("idle", g)])

(* load_chr_aim(): fitted as the body's idle model. *)
AimFit(g) == Fit[Id("idle", g)]

BindAim(w, g) ==
  IF w.guard[g].dead \/ w.guard[g].bound = "aim" \/ Parades(w, g) THEN w
  ELSE IF cast.aim THEN BindTo(w, g, "aim", AimFit(g))
  ELSE BindIdle(w, g)

\* Mutant: only the model of the walker's body is posed anew.
ReposedWalker(m, kind, r) ==
  [id \in DOMAIN m |->
     IF id[1] = kind /\ (kind = "die" \/ id = Id("walk", r.walker))
     THEN [m[id] EXCEPT !.pose = Pose(kind, r)] ELSE m[id]]

(* The models of a kind, posed anew. *)
Reposed(m, kind, r) ==
  [id \in DOMAIN m |-> IF id[1] = kind THEN [m[id] EXCEPT !.pose = Pose(kind, r)] ELSE m[id]]

(* apply_walk_bind() *)
ApplyWalk(w) ==
  LET posed == Reposed(w.model, "walk", w.rest)
      shared == [id \in DOMAIN posed |->
                   IF id[1] = "walk" THEN [posed[id] EXCEPT !.fit = w.rest.fit] ELSE posed[id]]
      walker == w.rest.walker
      v == [w EXCEPT !.model = shared]
      u == IF v.guard[walker].bound = "walk" \/ ~v.guard[walker].alerted THEN BindWalk(v, walker) ELSE v
  IN  [u EXCEPT !.guard = [g \in Guards |->
         IF u.guard[g].bound = "walk" THEN [@[g] EXCEPT !.size = u.rest.fit] ELSE @[g]]]

(* set_walk_frame(); without a walker the models stay as they are. *)
SetWalkFrame(w) ==
  LET v == [w EXCEPT !.rest.walk = (@ + 1) % WalkLen]
  IN  IF w.rest.walker = 0 THEN v ELSE ApplyWalk(v)

(* set_die_frame() *)
SetDieFrame(w, f) ==
  LET r == [w.rest EXCEPT !.die = f] IN [w EXCEPT !.rest = r, !.model = Reposed(@, "die", r)]

(* start_die_if_needed() *)
StartDie(w) ==
  IF w.rest.started \/ \A g \in Guards : ~w.guard[g].dead THEN w
  ELSE SetDieFrame([w EXCEPT !.rest.started = TRUE], 0)

(* port_prop_tick_die() *)
TickDie(w) ==
  LET v == StartDie(w)
      next == v.rest.die + Rate
  IN  IF ~v.rest.started \/ v.rest.die >= LastDie THEN v
      ELSE SetDieFrame(v, IF next > LastDie THEN LastDie ELSE next)

-------------------------------------------------------------------------------
(* port_prop_tick_guard_fire(), guard by guard: who sees the player aims, and *)
(* is alerted once it has noticed.                                           *)
Watch(w, seen, noticed) ==
  LET One(v, g) ==
        IF g \in seen
        THEN [BindAim(v, g) EXCEPT !.guard[g].alerted = @ \/ g \in noticed]
        ELSE IF v.guard[g].bound = "aim" /\ (v.guard[g].dead \/ ~v.guard[g].alerted)
             THEN BindIdle(v, g) ELSE v
  IN  FoldLeft(One, w, [g \in Guards |-> g])

(* chase_alerted() *)
Chase(w, seen, stepped) ==
  LET chasing == {g \in Guards \ seen : w.guard[g].alerted /\ ~w.guard[g].dead}
      One(v, g) == IF g \in chasing \cap stepped THEN BindWalk(v, g) ELSE v
      u == FoldLeft(One, w, [g \in Guards |-> g])
  IN  IF \E g \in chasing : u.guard[g].bound = "walk" THEN SetWalkFrame(u) ELSE u

(* port_prop_tick_walk(), not while anybody fires or the walker chases *)
TickWalk(w, seen) ==
  LET walker == w.rest.walker
      living == walker # 0 /\ ~w.guard[walker].dead
      mayMarch == walker # 0 => living /\ ~w.guard[walker].alerted
  IN  IF seen = {} /\ mayMarch /\ \E g \in Guards : w.guard[g].bound = "walk"
      THEN SetWalkFrame(w) ELSE w

Become(w) == guard' = w.guard /\ model' = w.model /\ rest' = w.rest /\ UNCHANGED cast

(* port_sim_tick(): the seats shoot, `hit' falls and `heard' are alerted; the *)
(* guards' part is left out while the player is dead.                         *)
Tick ==
  \E hit \in SUBSET Guards, heard \in SUBSET Guards, fights \in BOOLEAN :
    /\ Cardinality(hit) <= 1 /\ Cardinality(heard) <= 1
    /\ LET shot == [Wardrobe EXCEPT !.guard = [g \in Guards |->
                      [@[g] EXCEPT !.dead = @ \/ g \in hit,
                                   !.alerted = @ \/ (g \in heard /\ ~guard[g].dead)]]]
           living == {g \in Guards : ~shot.guard[g].dead}
       IN  IF ~fights THEN Become(TickDie(shot))
           ELSE \E seen \in SUBSET living, stepped \in SUBSET living :
                  \E noticed \in SUBSET seen :
                    /\ stepped \cap seen = {}
                    /\ Become(TickDie(TickWalk(Chase(Watch(shot, seen, noticed), seen, stepped), seen)))
    /\ frame' = Undrawn

-------------------------------------------------------------------------------
(* A table of many matrices is pointed to, a single matrix is copied. *)
Joints(table) == [table |-> table, value |-> <<"-", 0>>]
\* Mutant: the single matrix is pointed to as well.
SingleByPointer(table, value) == Joints(table)
Single(table, value) == [table |-> <<"own", "-">>, value |-> value]

Entry(of, part, mtx, size) == [of |-> of, part |-> part, mtx |-> mtx, size |-> size]

(* emit_held_gun(): the gun's model takes the matrix of the hand. *)
HeldGun(w, g, pose) ==
  LET gun == cast.guards[g].gun
  IN  IF w.guard[g].dead \/ gun = "-" THEN <<>>
      ELSE <<Entry(g, "gun", Single(<<"gun", gun>>, pose), w.guard[g].size)>>

(* emit_guard_body(): the body, the head at its neck and the gun. *)
Emitted(w, g) ==
  LET id == Id(IF w.guard[g].dead THEN "die" ELSE w.guard[g].bound, g)
      pose == w.model[id].pose
  IN  <<Entry(g, "body", Joints(id), w.guard[g].size),
        Entry(g, "head", Single(<<"neck", "-">>, pose), w.guard[g].size)>>
      \o HeldGun(w, g, pose)

\* Mutant: the pool does not advance.
SameSlot(i) == <<"slab", ToString(0)>>

(* slab_sized(): the leaf of an opening is one of the pool's. *)
Slot(i) == <<"slab", ToString((i - 1) % Pool)>>

(* What the tables hold when the list is read: the neck's was on the stack    *)
(* and the gun's has been put back; a slot holds the last leaf.               *)
Read(w, holes, mtx) ==
  CASE mtx.table[1] = "own" -> mtx.value
    [] mtx.table[1] = "neck" -> <<"gone", 0>>
    [] mtx.table[1] = "gun" -> <<"floor", 0>>
    [] mtx.table[1] = "slab" ->
         <<"leaf", holes[Max({i \in DOMAIN holes : Slot(i) = mtx.table})]>>
    [] OTHER -> w.model[mtx.table].pose

(* The walker, then the nearest first; they may be near in any order. *)
Orders(near) == {o \in SetToSeqs(near) : rest.walker \in near => o[1] = rest.walker}

(* The doors of the setup, and the leaves of the openings *)
Doors(sight) == [d \in 1 .. sight.doors |-> Entry(d, "door", Single(<<"own", "-">>, <<"door", 0>>), 1)]
Leaves(sight) == [i \in DOMAIN sight.holes |-> Entry(i, "leaf", Joints(Slot(i)), 1)]

(* port_prop_fill_rooms(): doors, leaves of the openings, the walker, then    *)
(* the nearest first, as far as the list has space.                           *)
DrawProps ==
  /\ frame = Undrawn
  /\ \E near \in SUBSET Guards, sight \in Sights :
     \E order \in Orders(near) :
       LET w == IF \E g \in near : guard[g].dead THEN StartDie(Wardrobe) ELSE Wardrobe
           all == Doors(sight) \o Leaves(sight) \o FlattenSeq([i \in DOMAIN order |-> Emitted(w, order[i])])
           list == SubSeq(all, 1, Min({Cap, Len(all)}))
       IN  /\ near # {}
           /\ Become(w)
           /\ frame' = [near |-> near, holes |-> sight.holes,
                        list |-> [i \in DOMAIN list |->
                          [of |-> list[i].of, part |-> list[i].part, size |-> list[i].size,
                           looks |-> Read(w, sight.holes, list[i].mtx)]]]

-------------------------------------------------------------------------------
(* assign_walkers(): the second nearest to the spawn. *)
Second(far) ==
  LET Before(a, b) == far[a] < far[b] \/ (far[a] = far[b] /\ a < b)
  IN  {g \in DOMAIN far : Cardinality({h \in DOMAIN far : Before(h, g)}) = 1}

AssignWalkers(w, far) ==
  LET next == IF Second(far) = {} THEN 0 ELSE CHOOSE g \in Second(far) : TRUE
      prev == w.rest.walker
      back == IF prev \notin {0, next} THEN BindTo(w, prev, "idle", Fit[Id("idle", prev)]) ELSE w
  IN  IF next = 0 THEN [back EXCEPT !.rest.walker = 0]
      ELSE LET fit == Fit[Id("walk", next)]
           IN  BindTo([back EXCEPT !.rest.walker = next, !.rest.fit = fit], next, "walk", fit)

(* load_idle_rest() and the guards of the setup, standing; every body's dead  *)
(* pose is loaded beforehand, in its last frame.                              *)
Fresh ==
  LET r == [walker |-> 0, fit |-> 0, walk |-> WalkStart, die |-> LastDie, started |-> FALSE]
  IN  [rest |-> r,
       guard |-> [g \in Guards |->
         [bound |-> "idle", size |-> Fit[Id("idle", g)], alerted |-> FALSE, dead |-> FALSE]],
       model |-> [id \in {Id(kind, g) : kind \in {"idle", "die"}, g \in Guards} |->
         [pose |-> Pose(id[1], r), fit |-> Fit[<<"idle", id[2]>>]]]]

(* Ranked again when the player stands where it will begin. *)
Init ==
  /\ cast \in Casts
  /\ LET w == AssignWalkers(AssignWalkers(Fresh, cast.far), cast.snapped)
     IN  guard = w.guard /\ model = w.model /\ rest = w.rest
  /\ frame = Undrawn

Next == Tick \/ DrawProps
Spec == Init /\ [][Next]_vars

-------------------------------------------------------------------------------
TypeOK ==
  /\ \A g \in Guards : guard[g].bound \in {"idle", "walk", "aim"} /\ Id(guard[g].bound, g) \in DOMAIN model
  /\ rest.walk \in 0 .. WalkLen - 1 /\ rest.die \in 0 .. LastDie

(* The shared models keep step: every walker shows the frame of the walk and  *)
(* every dead body that of the death, whichever guard made it advance; a      *)
(* guard has the size that its model is fitted to.                            *)
InStep ==
  /\ \A id \in DOMAIN model :
       (id[1] = "walk" /\ rest.walker # 0) \/ id[1] = "die" => model[id].pose = Pose(id[1], rest)
  /\ \A g \in Guards : guard[g].size = model[Id(guard[g].bound, g)].fit

(* Everything that a frame shows of a guard is that guard's: its body, head   *)
(* and gun are in the pose that it is in, a body's fall if it is dead, and    *)
(* none is missing while the list has space; an opening's leaf has its size.  *)
OwnLooks ==
  /\ \A i \in DOMAIN frame.list :
       LET e == frame.list[i]
       IN  CASE e.part = "door" -> TRUE
             [] e.part = "leaf" -> e.looks = <<"leaf", frame.holes[e.of]>>
             [] OTHER ->
                  LET kind == IF guard[e.of].dead THEN "die" ELSE guard[e.of].bound
                  IN  /\ e.size = guard[e.of].size
                      /\ e.looks[1] = kind
                      /\ (rest.walker # 0 \/ kind # "walk") => e.looks = Pose(kind, rest)
  /\ Len(frame.list) < Cap =>
       \A g \in frame.near :
         LET parts == {frame.list[i].part : i \in {j \in DOMAIN frame.list : frame.list[j].of = g}}
         IN  /\ {"body", "head"} \subseteq parts
             /\ guard[g].dead \/ cast.guards[g].gun = "-" \/ "gun" \in parts
===============================================================================
