------------------------------ MODULE EngineProofs -----------------------------
(***************************************************************************)
(* What is proved of the engine of a page: what a match starts from        *)
(* (Rematch), that its memory is accounted for (Engine), and how a song    *)
(* sounds (Music).                                                         *)
(***************************************************************************)
EXTENDS Rematch, Engine, Music, FiniteSetTheorems, FunctionTheorems, WellFoundedInduction, TLAPS

-------------------------------------------------------------------------------
(* What a match starts from.                                               *)

(* The statics are always the same variables; of two of them a load leaves  *)
(* fields alone.                                                            *)
Fields == {"rng", "players", "origin", "intro", "seats", "chr", "score", "stan", "props"}
RngFields == {"match", "loads", "seed", "drawn"}
ScoreFields == {"scenario", "length", "kills", "elapsed"}
Shaped(e) ==
  /\ e = [x \in Fields |-> e[x]]
  /\ e.rng = [x \in RngFields |-> e.rng[x]]
  /\ e.score = [x \in ScoreFields |-> e.score[x]]

(* Where a stage has its origin, and what is left of the tiles' and the     *)
(* props' statics.                                                          *)
HasOrigin(s) == Intros[s] # 0 /\ HasSetup[s]
OriginOf(s) == IF HasOrigin(s) THEN s ELSE NoneLoaded
IntroOf(s) == IF HasOrigin(s) THEN {i \in Seats \ {0} : i < Intros[s]} ELSE {}
PropsOf(s) ==
  [Props(IF HasSetup[s] THEN s ELSE NoneLoaded)
     EXCEPT !.rankedFrom = IF HasOrigin(s) THEN <<"origin", s>> ELSE "pad"]
StanOf(s) == [of |-> s, doors |-> "fresh", bodies |-> "fresh", use |-> "fresh", floors |-> "fresh"]
StanAfter(s, floors) == [StanOf(s) EXCEPT !.floors = floors]

(* What a load leaves, apart from where its seats stand: the number of      *)
(* seats, the seed of the match, the ordinal of the load and the score are  *)
(* older than the load.                                                     *)
LoadedFrom(r, s) ==
  /\ Shaped(r)
  /\ r.origin = OriginOf(s) /\ r.intro = IntroOf(s)
  /\ r.props = PropsOf(s) /\ r.stan = StanAfter(s, "used")

LEMMA UnloadIs ==
  ASSUME NEW e, Shaped(e)
  PROVE  LET r == StageUnload(e)
         IN  Shaped(r) /\ r.origin = NoneLoaded /\ r.intro = {} /\ r.stan = Stan(NoneLoaded)
<1> DEFINE r == StageUnload(e)
<1>1. /\ r = [x \in Fields |-> r[x]]
      /\ r.rng = e.rng /\ r.score = e.score
      /\ r.origin = NoneLoaded /\ r.intro = {} /\ r.stan = Stan(NoneLoaded)
  BY DEF StageUnload, Shaped, Fields
<1> QED BY <1>1 DEF Shaped

LEMMA RngLoadIs ==
  ASSUME NEW g, g = [x \in RngFields |-> g[x]]
  PROVE  LET r == RngOnStageLoad(g) IN r = [x \in RngFields |-> r[x]]
BY DEF RngOnStageLoad, RngFields

LEMMA ScoreIs ==
  ASSUME NEW scenario, NEW length
  PROVE  LET r == Score(scenario, length) IN r = [x \in ScoreFields |-> r[x]] /\ r.length = length
BY DEF Score, ScoreFields

(* A spawn. *)
LEMMA SpawnedIs ==
  ASSUME NEW e, Shaped(e)
  PROVE  LET r == Spawned(e)
         IN  /\ Shaped(r)
             /\ r.players = e.players /\ r.origin = e.origin /\ r.intro = e.intro
             /\ r.props = e.props /\ r.stan = [e.stan EXCEPT !.floors = "fresh"]
             /\ r.rng = [e.rng EXCEPT !.drawn = @ + 1]
             /\ r.chr = [age |-> <<e.rng.seed, e.rng.drawn>>, at |-> "fresh"]
             /\ r.score = Score(Normal, e.score.length)
             /\ r.seats = IF e.origin = NoneLoaded THEN [i \in Seats |-> SeatState("pad")]
                          ELSE [i \in Seats |->
                                  IF i \in e.intro /\ i < e.players THEN SeatState(<<"intro", e.origin>>)
                                  ELSE Beside(e, e.origin)[i]]
<1> DEFINE r == Spawned(e)
           seats == IF e.origin = NoneLoaded THEN [i \in Seats |-> SeatState("pad")]
                    ELSE [i \in Seats |->
                            IF i \in e.intro /\ i < e.players THEN SeatState(<<"intro", e.origin>>)
                            ELSE Beside(e, e.origin)[i]]
           chr == [age |-> <<e.rng.seed, e.rng.drawn>>, at |-> "fresh"]
           score == ScoreReset(e.score)
<1>1. r = [e EXCEPT !.seats = seats, !.stan.floors = "fresh", !.chr = chr,
                    !.rng.drawn = @ + 1, !.score = score]
  BY DEF Spawned
<1> HIDE DEF r, seats, chr, score
<1>2. /\ r = [x \in Fields |-> r[x]]
      /\ r.players = e.players /\ r.origin = e.origin /\ r.intro = e.intro
      /\ r.props = e.props /\ r.stan = [e.stan EXCEPT !.floors = "fresh"]
      /\ r.rng = [e.rng EXCEPT !.drawn = @ + 1]
      /\ r.seats = seats /\ r.chr = chr /\ r.score = score
  BY <1>1 DEF Shaped, Fields
<1>3. r.rng = [x \in RngFields |-> r.rng[x]] BY <1>2 DEF Shaped, RngFields
<1>4. score = Score(Normal, e.score.length) BY DEF ScoreReset, score
<1>5. r.score = [x \in ScoreFields |-> r.score[x]] BY <1>2, <1>4, ScoreIs
<1>6. Shaped(r) BY <1>2, <1>3, <1>5 DEF Shaped
<1> QED BY <1>2, <1>4, <1>6 DEF r, seats, chr

(* A change of some of the statics leaves the others. *)
LEMMA PropLoadIs ==
  ASSUME NEW e, Shaped(e), NEW s
  PROVE  LET r == PropLoad(e, s)
         IN  /\ Shaped(r) /\ r.origin = e.origin /\ r.intro = e.intro /\ r.stan = e.stan
             /\ r.seats = e.seats /\ r.props = Props(IF HasSetup[s] THEN s ELSE NoneLoaded)
<1> DEFINE r == PropLoad(e, s)
           p == Props(IF HasSetup[s] THEN s ELSE NoneLoaded)
<1>1. r = [e EXCEPT !.props = p] BY DEF PropLoad
<1> HIDE DEF r, p
<1>2. /\ r = [x \in Fields |-> r[x]] /\ r.rng = e.rng /\ r.score = e.score
      /\ r.origin = e.origin /\ r.intro = e.intro /\ r.stan = e.stan /\ r.seats = e.seats
      /\ r.props = p
  BY <1>1 DEF Shaped, Fields
<1>3. Shaped(r) BY <1>2 DEF Shaped
<1> QED BY <1>2, <1>3 DEF r, p

LEMMA RegisteredIs ==
  ASSUME NEW e, Shaped(e)
  PROVE  LET r == Registered(e)
         IN  /\ Shaped(r) /\ r.origin = e.origin /\ r.intro = e.intro /\ r.seats = e.seats
             /\ r.props = e.props
             /\ r.stan = [[e.stan EXCEPT !.doors = "fresh"] EXCEPT !.bodies = "fresh"]
<1> DEFINE r == Registered(e)
<1>1. /\ r = [x \in Fields |-> r[x]] /\ r.rng = e.rng /\ r.score = e.score
      /\ r.origin = e.origin /\ r.intro = e.intro /\ r.seats = e.seats /\ r.props = e.props
      /\ r.stan = [[e.stan EXCEPT !.doors = "fresh"] EXCEPT !.bodies = "fresh"]
  BY DEF Registered, Shaped, Fields
<1> QED BY <1>1 DEF Shaped

(* Doors and bodies that are registered and floors that are forgotten leave *)
(* nothing of the old tiles' statics.                                       *)
LEMMA StanIs ==
  ASSUME NEW s
  PROVE  [[[Stan(s) EXCEPT !.floors = "fresh"] EXCEPT !.doors = "fresh"] EXCEPT !.bodies = "fresh"] = StanOf(s)
<1> DEFINE F == {"of", "doors", "bodies", "use", "floors"}
           a == [[[Stan(s) EXCEPT !.floors = "fresh"] EXCEPT !.doors = "fresh"] EXCEPT !.bodies = "fresh"]
<1>1. a = [x \in F |-> a[x]] BY DEF Stan
<1>2. StanOf(s) = [x \in F |-> StanOf(s)[x]] BY DEF StanOf
<1>3. \A x \in F : a[x] = StanOf(s)[x]
  <2>1. a.of = StanOf(s).of /\ a.use = StanOf(s).use BY DEF Stan, StanOf
  <2>2. a.doors = StanOf(s).doors /\ a.bodies = StanOf(s).bodies /\ a.floors = StanOf(s).floors
    BY DEF Stan, StanOf
  <2> HIDE DEF a
  <2> QED BY <2>1, <2>2
<1>4. a = StanOf(s)
  <2> HIDE DEF a, F
  <2> QED BY <1>1, <1>2, <1>3
<1> QED BY <1>4

LEMMA WithOriginIs ==
  ASSUME NEW e, Shaped(e), NEW s, e.origin = NoneLoaded, e.intro = {},
         e.seats = [i \in Seats |-> SeatState("pad")],
         e.stan = StanOf(s)
  PROVE  LET r == WithOrigin(e, s)
         IN  /\ Shaped(r) /\ r.origin = OriginOf(s) /\ r.intro = IntroOf(s) /\ r.props = e.props
             /\ r.stan = StanOf(s)
             /\ r.seats[0].at = IF HasOrigin(s) THEN <<"origin", s>> ELSE "pad"
<1> DEFINE r == WithOrigin(e, s)
           extra == {i \in Seats \ {0} : i < Intros[s]}
           seats == [i \in Seats |-> IF i \in extra THEN SeatState(<<"intro", s>>) ELSE Beside(e, s)[i]]
<1>1. 0 \in Seats BY RematchAssumption DEF Seats
<1>2. CASE ~HasOrigin(s)
  <2>1. r = e BY <1>2 DEF WithOrigin, HasOrigin
  <2>2. e.seats[0].at = "pad" BY <1>1 DEF SeatState
  <2> QED BY <2>1, <2>2, <1>2 DEF OriginOf, IntroOf
<1>3. CASE HasOrigin(s)
  <2>1. r = [e EXCEPT !.origin = s, !.intro = extra, !.stan.floors = "fresh", !.seats = seats]
    BY <1>3 DEF WithOrigin, HasOrigin
  <2>2. seats[0].at = <<"origin", s>>
    <3>1. 0 \notin extra OBVIOUS
    <3>2. seats[0] = Beside(e, s)[0] BY <3>1, <1>1
    <3>3. Beside(e, s)[0] = SeatState(<<"origin", s>>) BY <1>1 DEF Beside
    <3> QED BY <3>2, <3>3 DEF SeatState
  <2> HIDE DEF r, seats, extra
  <2>3. /\ r = [x \in Fields |-> r[x]] /\ r.rng = e.rng /\ r.score = e.score /\ r.props = e.props
        /\ r.origin = s /\ r.intro = extra /\ r.seats = seats
        /\ r.stan = [e.stan EXCEPT !.floors = "fresh"]
    BY <2>1 DEF Shaped, Fields
  <2>4. Shaped(r) BY <2>3 DEF Shaped
  <2>5. [StanOf(s) EXCEPT !.floors = "fresh"] = StanOf(s) BY DEF StanOf
  <2> QED BY <2>2, <2>3, <2>4, <2>5, <1>3 DEF OriginOf, IntroOf, extra, r
<1> QED BY <1>2, <1>3

LEMMA LoadIs ==
  ASSUME NEW e, Shaped(e), NEW s \in Stages
  PROVE  LoadedFrom(StageLoad(e, s), s)
<1> DEFINE unloaded == StageUnload(e)
           tiles == [unloaded EXCEPT !.rng = RngOnStageLoad(@), !.stan = Stan(s)]
           spawned == Spawned(tiles)
           loaded == PropLoad(spawned, s)
           props == Registered(loaded)
           placed == WithOrigin(props, s)
           r == WalkerPlaced(placed)
<1>1. StageLoad(e, s) = r BY DEF StageLoad
<1>2. Shaped(unloaded) /\ unloaded.origin = NoneLoaded /\ unloaded.intro = {} BY UnloadIs
<1> HIDE DEF unloaded
<1>3. Shaped(tiles) /\ tiles.origin = NoneLoaded /\ tiles.intro = {} /\ tiles.stan = Stan(s)
  <2>1. /\ tiles = [x \in Fields |-> tiles[x]]
        /\ tiles.rng = RngOnStageLoad(unloaded.rng) /\ tiles.score = unloaded.score
        /\ tiles.origin = NoneLoaded /\ tiles.intro = {} /\ tiles.stan = Stan(s)
    BY <1>2 DEF Shaped, Fields
  <2> HIDE DEF tiles
  <2>2. tiles.rng = [x \in RngFields |-> tiles.rng[x]] BY <2>1, <1>2, RngLoadIs DEF Shaped
  <2> QED BY <2>1, <2>2, <1>2 DEF Shaped
<1> HIDE DEF tiles
<1>4. /\ Shaped(spawned) /\ spawned.origin = NoneLoaded /\ spawned.intro = {}
      /\ spawned.stan = [Stan(s) EXCEPT !.floors = "fresh"]
      /\ spawned.seats = [i \in Seats |-> SeatState("pad")]
  BY <1>3, SpawnedIs
<1> HIDE DEF spawned
<1>5. /\ Shaped(loaded) /\ loaded.origin = NoneLoaded /\ loaded.intro = {}
      /\ loaded.stan = [Stan(s) EXCEPT !.floors = "fresh"]
      /\ loaded.seats = [i \in Seats |-> SeatState("pad")]
      /\ loaded.props = Props(IF HasSetup[s] THEN s ELSE NoneLoaded)
  BY <1>4, PropLoadIs
<1> HIDE DEF loaded
<1>6. /\ Shaped(props) /\ props.origin = NoneLoaded /\ props.intro = {}
      /\ props.stan = StanOf(s)
      /\ props.seats = [i \in Seats |-> SeatState("pad")]
      /\ props.props = Props(IF HasSetup[s] THEN s ELSE NoneLoaded)
  <2>1. [[[Stan(s) EXCEPT !.floors = "fresh"] EXCEPT !.doors = "fresh"] EXCEPT !.bodies = "fresh"] = StanOf(s)
    BY StanIs
  <2>2. /\ Shaped(props) /\ props.origin = loaded.origin /\ props.intro = loaded.intro
        /\ props.seats = loaded.seats /\ props.props = loaded.props
        /\ props.stan = [[loaded.stan EXCEPT !.doors = "fresh"] EXCEPT !.bodies = "fresh"]
    BY <1>5, RegisteredIs
  <2> QED BY <2>1, <2>2, <1>5
<1> HIDE DEF props
<1>7. /\ Shaped(placed) /\ placed.origin = OriginOf(s) /\ placed.intro = IntroOf(s)
      /\ placed.props = Props(IF HasSetup[s] THEN s ELSE NoneLoaded)
      /\ placed.stan = StanOf(s)
      /\ placed.seats[0].at = IF HasOrigin(s) THEN <<"origin", s>> ELSE "pad"
  BY <1>6, WithOriginIs
<1> HIDE DEF placed
<1>8. /\ r = [x \in Fields |-> r[x]] /\ r.rng = placed.rng /\ r.score = placed.score
      /\ r.origin = placed.origin /\ r.intro = placed.intro
      /\ r.stan = [placed.stan EXCEPT !.floors = "used"]
      /\ r.props = [placed.props EXCEPT !.rankedFrom = placed.seats[0].at]
  BY <1>7 DEF WalkerPlaced, Shaped, Fields
<1> HIDE DEF r
<1>9. Shaped(r) BY <1>7, <1>8 DEF Shaped
<1>10. LoadedFrom(r, s) BY <1>7, <1>8, <1>9 DEF LoadedFrom, StanAfter, PropsOf
<1> QED BY <1>1, <1>10
(* The generator that a match begins with. *)
RngOf(seed) ==
  [x \in RngFields |->
     IF x = "match" THEN seed ELSE IF x = "loads" THEN IF 0 < MaxLoads THEN 0 + 1 ELSE 0
     ELSE IF x = "seed" THEN <<seed, 0>> ELSE 0]

LEMMA RngBeginIs ==
  ASSUME NEW g, g = [x \in RngFields |-> g[x]], NEW seed
  PROVE  RngBeginMatch(g, seed) = RngOf(seed)
<1> DEFINE h == [g EXCEPT !.match = seed, !.loads = 0]
           r == RngOnStageLoad(h)
<1>1. h = [x \in RngFields |-> h[x]] /\ h.match = seed /\ h.loads = 0 BY DEF RngFields
<1> HIDE DEF h
<1>2. r = [x \in RngFields |-> r[x]] BY <1>1, RngLoadIs
<1>3. r.match = seed /\ r.seed = <<seed, 0>> /\ r.drawn = 0
      /\ r.loads = IF 0 < MaxLoads THEN 0 + 1 ELSE 0
  BY <1>1 DEF RngOnStageLoad, RngFields
<1> HIDE DEF r
<1>4. \A x \in RngFields : r[x] = RngOf(seed)[x] BY <1>3 DEF RngOf, RngFields
<1>5. RngOf(seed) = [x \in RngFields |-> RngOf(seed)[x]] BY DEF RngOf
<1>6. r = RngOf(seed) BY <1>2, <1>4, <1>5
<1> QED BY <1>6 DEF r, h, RngBeginMatch

(* A match's start, told by the stage, the seats, the seed and the length   *)
(* alone.                                                                   *)
StartSeats(s, n) ==
  IF OriginOf(s) = NoneLoaded THEN [i \in Seats |-> SeatState("pad")]
  ELSE [i \in Seats |->
          IF i \in IntroOf(s) /\ i < n THEN SeatState(<<"intro", OriginOf(s)>>)
          ELSE [j \in Seats |-> SeatState(IF j = 0 THEN <<"origin", OriginOf(s)>>
                                          ELSE <<"beside", OriginOf(s), j < n>>)][i]]
StartsFrom(r, s, n, seed, length) ==
  /\ r = [x \in Fields |-> r[x]]
  /\ r.players = n /\ r.origin = OriginOf(s) /\ r.intro = IntroOf(s)
  /\ r.props = PropsOf(s) /\ r.stan = [StanAfter(s, "used") EXCEPT !.floors = "fresh"]
  /\ r.rng = [RngOf(seed) EXCEPT !.drawn = @ + 1]
  /\ r.chr = [age |-> <<RngOf(seed).seed, RngOf(seed).drawn>>, at |-> "fresh"]
  /\ r.score = Score(Normal, length)
  /\ r.seats = StartSeats(s, n)

LEMMA BeginIs ==
  ASSUME NEW e, NEW s, LoadedFrom(e, s), NEW scenario, NEW length, NEW n, NEW seed
  PROVE  LET r == BeginMatch(Configured(e, scenario, length), n, seed)
         IN  Shaped(r) /\ StartsFrom(r, s, n, seed, length)
<1> DEFINE score == [e.score EXCEPT !.scenario = scenario, !.length = length, !.elapsed = "fresh"]
           c == Configured(e, scenario, length)
           b == [c EXCEPT !.rng = RngBeginMatch(@, seed), !.players = n]
           r == Spawned(b)
<1>1. score = [x \in ScoreFields |-> score[x]] /\ score.length = length
  BY DEF LoadedFrom, Shaped, ScoreFields
<1>2. c = [e EXCEPT !.score = score] BY DEF Configured
<1> HIDE DEF score, c
<1>3. /\ c = [x \in Fields |-> c[x]] /\ c.rng = e.rng /\ c.score = score
      /\ c.origin = e.origin /\ c.intro = e.intro /\ c.stan = e.stan /\ c.props = e.props
  BY <1>2 DEF LoadedFrom, Shaped, Fields
<1>4. /\ b = [x \in Fields |-> b[x]] /\ b.rng = RngBeginMatch(c.rng, seed) /\ b.score = c.score
      /\ b.origin = c.origin /\ b.intro = c.intro /\ b.stan = c.stan /\ b.props = c.props
      /\ b.players = n
  BY <1>3 DEF Fields
<1> HIDE DEF b
<1>5. b.rng = RngOf(seed) BY <1>3, <1>4, RngBeginIs DEF LoadedFrom, Shaped
<1>6. Shaped(b)
  <2>1. b.rng = [x \in RngFields |-> b.rng[x]] BY <1>5 DEF RngOf
  <2> QED BY <2>1, <1>1, <1>3, <1>4 DEF Shaped
<1>7. /\ Shaped(r)
      /\ r.players = b.players /\ r.origin = b.origin /\ r.intro = b.intro
      /\ r.props = b.props /\ r.stan = [b.stan EXCEPT !.floors = "fresh"]
      /\ r.rng = [b.rng EXCEPT !.drawn = @ + 1]
      /\ r.chr = [age |-> <<b.rng.seed, b.rng.drawn>>, at |-> "fresh"]
      /\ r.score = Score(Normal, b.score.length)
      /\ r.seats = IF b.origin = NoneLoaded THEN [i \in Seats |-> SeatState("pad")]
                   ELSE [i \in Seats |->
                           IF i \in b.intro /\ i < b.players THEN SeatState(<<"intro", b.origin>>)
                           ELSE Beside(b, b.origin)[i]]
  BY <1>6, SpawnedIs
<1> HIDE DEF r
<1>8. /\ b.players = n /\ b.origin = OriginOf(s) /\ b.intro = IntroOf(s) /\ b.props = PropsOf(s)
      /\ b.stan = StanAfter(s, "used") /\ b.score.length = length
  BY <1>1, <1>3, <1>4 DEF LoadedFrom
<1>9. r.seats = StartSeats(s, n) BY <1>7, <1>8 DEF StartSeats, Beside
<1>10. StartsFrom(r, s, n, seed, length)
  BY <1>5, <1>7, <1>8, <1>9 DEF StartsFrom, Shaped
<1>11. BeginMatch(c, n, seed) = r BY DEF BeginMatch, r, b
<1> QED BY <1>7, <1>10, <1>11 DEF c

LEMMA StartsSame ==
  ASSUME NEW a, NEW b, NEW s, NEW n, NEW seed, NEW length,
         StartsFrom(a, s, n, seed, length), StartsFrom(b, s, n, seed, length)
  PROVE  a = b
<1>1. /\ a.rng = b.rng /\ a.players = b.players /\ a.origin = b.origin /\ a.intro = b.intro
      /\ a.seats = b.seats /\ a.chr = b.chr /\ a.score = b.score /\ a.stan = b.stan /\ a.props = b.props
  BY DEF StartsFrom
<1>2. \A x \in Fields : a[x] = b[x] BY <1>1 DEF Fields
<1> QED BY <1>2 DEF StartsFrom

LEMMA PowerOnIs == Shaped(PowerOn)
<1> DEFINE e == PowerOn
<1>1. e = [x \in Fields |-> e[x]] BY DEF PowerOn, Fields
<1>2. e.rng = [match |-> 0, loads |-> 0, seed |-> <<0, 0>>, drawn |-> 0] /\ e.score = Score(Normal, 0)
  BY DEF PowerOn
<1> HIDE DEF e
<1>3. e.rng = [x \in RngFields |-> e.rng[x]] BY <1>2 DEF RngFields
<1>4. e.score = [x \in ScoreFields |-> e.score[x]] BY <1>2, ScoreIs
<1> QED BY <1>1, <1>3, <1>4 DEF Shaped, e

-------------------------------------------------------------------------------
RematchInv == Shaped(statics) /\ "ticked" \in DOMAIN match /\ FreshStart

(* A tick changes statics, but not which they are. *)
LEMMA TickIs == ASSUME Shaped(statics), WalkTick \/ FightTick \/ PickupTick PROVE Shaped(statics')
<1>1. CASE WalkTick
  <2> DEFINE seats == [i \in Seats |-> IF i < statics.players THEN [statics.seats[i] EXCEPT !.at = "moved"]
                                       ELSE statics.seats[i]]
  <2>1. statics' = [statics EXCEPT !.seats = seats,
                      !.stan.floors = "used", !.stan.doors = "used", !.stan.use = "used",
                      !.chr.at = "moved", !.score.elapsed = "used"]
    BY <1>1 DEF WalkTick
  <2> HIDE DEF seats
  <2>2. /\ statics' = [x \in Fields |-> statics'[x]] /\ statics'.rng = statics.rng
        /\ statics'.score = [statics.score EXCEPT !.elapsed = "used"]
    BY <2>1 DEF Shaped, Fields
  <2>3. statics'.score = [x \in ScoreFields |-> statics'.score[x]] BY <2>2 DEF Shaped, ScoreFields
  <2> QED BY <2>2, <2>3 DEF Shaped
<1>2. CASE FightTick
  <2> DEFINE seats == [i \in Seats |-> IF i < statics.players
                         THEN [statics.seats[i] EXCEPT !.life = "used", !.gun = "used"] ELSE statics.seats[i]]
  <2>1. statics' = [statics EXCEPT !.seats = seats,
                      !.stan.bodies = "used", !.props.guards = "used", !.props.drops = "used",
                      !.props.fireCd = "used", !.score.kills = "used",
                      !.chr.at = "moved", !.score.elapsed = "used"]
    BY <1>2 DEF FightTick
  <2> HIDE DEF seats
  <2>2. /\ statics' = [x \in Fields |-> statics'[x]] /\ statics'.rng = statics.rng
        /\ statics'.score = [[statics.score EXCEPT !.kills = "used"] EXCEPT !.elapsed = "used"]
    BY <2>1 DEF Shaped, Fields
  <2>3. statics'.score = [x \in ScoreFields |-> statics'.score[x]] BY <2>2 DEF Shaped, ScoreFields
  <2> QED BY <2>2, <2>3 DEF Shaped
<1>3. CASE PickupTick
  <2>1. PICK i \in 0 .. statics.players - 1 :
          statics' = [statics EXCEPT !.props.pickup = "used",
                        !.seats[i] = [@ EXCEPT !.life = "used", !.gun = "used"],
                        !.chr.at = "moved", !.score.elapsed = "used"]
    BY <1>3 DEF PickupTick
  <2>2. /\ statics' = [x \in Fields |-> statics'[x]] /\ statics'.rng = statics.rng
        /\ statics'.score = [statics.score EXCEPT !.elapsed = "used"]
    BY <2>1 DEF Shaped, Fields
  <2>3. statics'.score = [x \in ScoreFields |-> statics'.score[x]] BY <2>2 DEF Shaped, ScoreFields
  <2> QED BY <2>2, <2>3 DEF Shaped
<1> QED BY <1>1, <1>2, <1>3
LEMMA StartIs ==
  ASSUME NEW e, Shaped(e), NEW s \in Stages, NEW scenario, NEW length, NEW n, NEW seed
  PROVE  LET r == BeginMatch(Configured(StageLoad(e, s), scenario, length), n, seed)
         IN  /\ Shaped(r)
             /\ r = BeginMatch(Configured(StageLoad(PowerOn, s), Normal, length), n, seed)
<1>1. LoadedFrom(StageLoad(e, s), s) BY LoadIs
<1>2. LoadedFrom(StageLoad(PowerOn, s), s) BY PowerOnIs, LoadIs
<1> DEFINE r == BeginMatch(Configured(StageLoad(e, s), scenario, length), n, seed)
           q == BeginMatch(Configured(StageLoad(PowerOn, s), Normal, length), n, seed)
<1>3. Shaped(r) /\ StartsFrom(r, s, n, seed, length) BY <1>1, BeginIs
<1>4. StartsFrom(q, s, n, seed, length) BY <1>2, BeginIs
<1> HIDE DEF r, q
<1>5. r = q BY <1>3, <1>4, StartsSame
<1> QED BY <1>3, <1>5 DEF r, q

(* A load that fails leaves the statics a load finds. *)
LEMMA FailedIs ==
  ASSUME NEW e, Shaped(e), NEW scenario, NEW length, NEW n, NEW seed
  PROVE  Shaped(BeginMatch(Configured(StageLoadFails(e), scenario, length), n, seed))
<1> DEFINE u == StageLoadFails(e)
           score == [u.score EXCEPT !.scenario = scenario, !.length = length, !.elapsed = "fresh"]
           c == Configured(u, scenario, length)
           b == [c EXCEPT !.rng = RngBeginMatch(@, seed), !.players = n]
<1>1. Shaped(u) BY UnloadIs DEF StageLoadFails
<1> HIDE DEF u
<1>2. score = [x \in ScoreFields |-> score[x]] BY <1>1 DEF Shaped, ScoreFields
<1>3. c = [u EXCEPT !.score = score] BY DEF Configured
<1> HIDE DEF score, c
<1>4. c = [x \in Fields |-> c[x]] /\ c.rng = u.rng /\ c.score = score
  BY <1>1, <1>3 DEF Shaped, Fields
<1>5. b = [x \in Fields |-> b[x]] /\ b.rng = RngBeginMatch(c.rng, seed) /\ b.score = c.score
  BY <1>4 DEF Fields
<1> HIDE DEF b
<1>6. b.rng = RngOf(seed) BY <1>1, <1>4, <1>5, RngBeginIs DEF Shaped
<1>7. b.rng = [x \in RngFields |-> b.rng[x]] BY <1>6 DEF RngOf
<1>8. Shaped(b) BY <1>2, <1>4, <1>5, <1>7 DEF Shaped
<1>9. Shaped(Spawned(b)) BY <1>8, SpawnedIs
<1> QED BY <1>9 DEF BeginMatch, b, c, u

LEMMA RematchInvHolds == RematchSpec => []RematchInv
<1>1. RematchInit => RematchInv
  <2> SUFFICES ASSUME RematchInit PROVE RematchInv OBVIOUS
  <2>1. match = NoMatch /\ match.stage = NoneLoaded /\ "ticked" \in DOMAIN match
    BY DEF RematchInit, NoMatch
  <2> QED BY <2>1, PowerOnIs DEF RematchInit, RematchInv, FreshStart
<1>2. RematchInv /\ [RematchNext]_rematchVars => RematchInv'
  <2> SUFFICES ASSUME RematchInv, [RematchNext]_rematchVars PROVE RematchInv' OBVIOUS
  <2>1. Shaped(statics) /\ "ticked" \in DOMAIN match BY DEF RematchInv
  <2>2. ASSUME Shaped(statics'), match' = NoMatch PROVE RematchInv'
    <3>1. match'.stage = NoneLoaded /\ "ticked" \in DOMAIN match' BY <2>2 DEF NoMatch
    <3> QED BY <2>2, <3>1 DEF RematchInv, FreshStart
  <2>3. CASE StartPage
    <3>1. PICK s \in Stages :
            statics' = [StageLoad(StageUnload(statics), s) EXCEPT !.chr.at = "moved", !.score.elapsed = "used"]
      BY <2>3 DEF StartPage
    <3> DEFINE e == StageLoad(StageUnload(statics), s)
    <3>2. Shaped(e) BY <2>1, UnloadIs, LoadIs DEF LoadedFrom
    <3>3. statics' = [e EXCEPT !.chr.at = "moved", !.score.elapsed = "used"] BY <3>1
    <3> HIDE DEF e
    <3>4. /\ statics' = [x \in Fields |-> statics'[x]] /\ statics'.rng = e.rng
          /\ statics'.score = [e.score EXCEPT !.elapsed = "used"]
      BY <3>2, <3>3 DEF Shaped, Fields
    <3>5. statics'.score = [x \in ScoreFields |-> statics'.score[x]]
      BY <3>2, <3>4 DEF Shaped, ScoreFields
    <3>6. Shaped(statics') BY <3>2, <3>4, <3>5 DEF Shaped
    <3> QED BY <2>2, <2>3, <3>6 DEF StartPage
  <2>4. CASE ChooseStage
    <3>1. match' = NoMatch BY <2>4 DEF ChooseStage
    <3>2. Shaped(statics')
      <4>1. ASSUME NEW s \in Stages, statics' = StageLoad(statics, s) PROVE Shaped(statics')
        BY <2>1, <4>1, LoadIs DEF LoadedFrom
      <4>2. CASE statics' = StageLoadFails(statics) BY <2>1, <4>2, UnloadIs DEF StageLoadFails
      <4> QED BY <2>4, <4>1, <4>2 DEF ChooseStage
    <3> QED BY <2>2, <3>1, <3>2
  <2>5. CASE ChooseSeats
    <3>1. match' = NoMatch BY <2>5 DEF ChooseSeats
    <3>2. PICK n \in 1 .. MaxSeats : statics' = [statics EXCEPT !.players = n]
      BY <2>5 DEF ChooseSeats
    <3>3. statics' = [x \in Fields |-> statics'[x]] /\ statics'.rng = statics.rng /\ statics'.score = statics.score
      BY <2>1, <3>2 DEF Shaped, Fields
    <3>4. Shaped(statics') BY <2>1, <3>3 DEF Shaped
    <3> QED BY <2>2, <3>1, <3>4
  <2>6. CASE StartMatch
    <3>1. PICK s \in Stages, n \in 2 .. MaxSeats, seed \in Seeds,
               scenario \in Scenarios, length \in Lengths, ok \in BOOLEAN :
            /\ statics' = BeginMatch(Configured(IF ok THEN StageLoad(statics, s) ELSE StageLoadFails(statics),
                                                scenario, length), n, seed)
            /\ match' = [stage |-> IF ok THEN s ELSE NoneLoaded, players |-> n,
                         seed |-> seed, length |-> length, ticked |-> FALSE]
      BY <2>6 DEF StartMatch
    <3>2. /\ match'.stage = (IF ok THEN s ELSE NoneLoaded) /\ match'.players = n /\ match'.seed = seed
          /\ match'.length = length /\ "ticked" \in DOMAIN match'
      BY <3>1
    <3>3. CASE ok
      <4>1. /\ Shaped(statics')
            /\ statics' = BeginMatch(Configured(StageLoad(PowerOn, s), Normal, length), n, seed)
        BY <2>1, <3>1, <3>3, StartIs
      <4> QED BY <4>1, <3>2, <3>3 DEF RematchInv, FreshStart
    <3>4. CASE ~ok
      <4>1. Shaped(statics') BY <2>1, <3>1, <3>4, FailedIs
      <4> QED BY <4>1, <3>2, <3>4 DEF RematchInv, FreshStart
    <3> QED BY <3>3, <3>4
  <2>7. CASE EndMatch BY <2>1, <2>2, <2>7 DEF EndMatch
  <2>8. CASE WalkTick \/ FightTick \/ PickupTick
    <3>1. Shaped(statics') BY <2>1, <2>8, TickIs
    <3>2. Ticking BY <2>8 DEF WalkTick, FightTick, PickupTick
    <3>3. CASE match = NoMatch BY <2>2, <3>1, <3>2, <3>3 DEF Ticking
    <3>4. CASE match # NoMatch
      <4>1. match' = [match EXCEPT !.ticked = TRUE] BY <3>2, <3>4 DEF Ticking
      <4>2. match'.ticked /\ "ticked" \in DOMAIN match' BY <4>1, <2>1
      <4> QED BY <3>1, <4>2 DEF RematchInv, FreshStart
    <3> QED BY <3>3, <3>4
  <2>9. CASE UNCHANGED rematchVars BY <2>9 DEF rematchVars, RematchInv, FreshStart
  <2> QED BY <2>3, <2>4, <2>5, <2>6, <2>7, <2>8, <2>9 DEF RematchNext
<1> QED BY <1>1, <1>2, PTL DEF RematchSpec

(* Peers with different pasts start a match from the same state, that of an *)
(* engine that has just been started.                                       *)
THEOREM MatchesStartFresh == RematchSpec => []FreshStart
<1>1. RematchInv => FreshStart BY DEF RematchInv
<1> QED BY <1>1, RematchInvHolds, PTL

-------------------------------------------------------------------------------
(* Who owns the engine's memory.                                           *)

(* malloc() finds as many blocks as are asked for, and nothing points at   *)
(* them.                                                                   *)
LEMMA FreshIs ==
  ASSUME NEW m, NEW S, IsFiniteSet(S), IsFiniteSet(m.heap), Pointers(m) \subseteq m.heap \union {0}
  PROVE  /\ Fresh(m, S) \in [S -> Nat \ {0}]
         /\ \A s \in S : Fresh(m, S)[s] \notin m.heap \union Pointers(m)
         /\ \A s, t \in S : Fresh(m, S)[s] = Fresh(m, S)[t] => s = t
         /\ IsFiniteSet(Range(Fresh(m, S)))
<1> DEFINE used == m.heap \union Pointers(m)
           N == Cardinality(used) + Cardinality(S)
           spare == (1 .. N) \ used
<1>1. IsFiniteSet(used)
  <2>1. IsFiniteSet(m.heap \union {0}) BY FS_AddElement
  <2> QED BY <2>1, FS_Subset
<1>2. Cardinality(used) \in Nat /\ Cardinality(S) \in Nat BY <1>1, FS_CardinalityType
<1>3. IsFiniteSet(spare) /\ Cardinality(spare) \in Nat /\ Cardinality(spare) >= Cardinality(S)
  <2>1. 1 \in Int /\ N \in Int BY <1>2
  <2> HIDE DEF N
  <2>2. IsFiniteSet(1 .. N) /\ Cardinality(1 .. N) = IF 1 > N THEN 0 ELSE N - 1 + 1 BY <2>1, FS_Interval
  <2>3. IsFiniteSet(spare) /\ Cardinality(spare) = Cardinality(1 .. N) - Cardinality((1 .. N) \cap used)
    BY <2>2, FS_Difference
  <2>4. Cardinality((1 .. N) \cap used) <= Cardinality(used) BY <1>1, FS_Subset
  <2>5. IsFiniteSet((1 .. N) \cap used) BY <1>1, FS_Subset
  <2>6. Cardinality((1 .. N) \cap used) \in Nat BY <2>5, FS_CardinalityType
  <2>7. Cardinality(spare) \in Nat BY <2>3, FS_CardinalityType
  <2>8. N = Cardinality(used) + Cardinality(S) BY DEF N
  <2> HIDE DEF spare, used
  <2> QED BY <1>2, <2>2, <2>3, <2>4, <2>6, <2>7, <2>8
<1>4. Injection(S, spare) # {}
  <2> HIDE DEF spare, used, N
  <2>1. PICK f \in Bijection(S, 1 .. Cardinality(S)) : TRUE
    <3>1. ExistsBijection(1 .. Cardinality(S), S) BY FS_CardinalityType
    <3>2. PICK g \in Bijection(1 .. Cardinality(S), S) : TRUE BY <3>1 DEF ExistsBijection
    <3> QED BY <3>2, Fun_BijInverse
  <2>2. PICK h \in Bijection(1 .. Cardinality(spare), spare) : TRUE
    BY <1>3, FS_CardinalityType DEF ExistsBijection
  <2>3. f \in [S -> 1 .. Cardinality(S)] /\ \A a, b \in S : f[a] = f[b] => a = b
    <3> DEFINE T == 1 .. Cardinality(S)
    <3>1. f \in Bijection(S, T) BY <2>1
    <3> HIDE DEF T
    <3>2. f \in [S -> T] /\ \A a, b \in S : f[a] = f[b] => a = b BY <3>1, Fun_BijectionProperties
    <3> QED BY <3>2 DEF T
  <2>4. /\ h \in [1 .. Cardinality(spare) -> spare]
        /\ \A a, b \in 1 .. Cardinality(spare) : h[a] = h[b] => a = b
    BY <2>2, Fun_BijectionProperties
  <2>5. 1 .. Cardinality(S) \subseteq 1 .. Cardinality(spare) BY <1>2, <1>3
  <2>6. [s \in S |-> h[f[s]]] \in [S -> spare] BY <2>3, <2>4, <2>5
  <2>7. \A a, b \in S : [s \in S |-> h[f[s]]][a] = [s \in S |-> h[f[s]]][b] => a = b
    BY <2>3, <2>4, <2>5
  <2>8. [s \in S |-> h[f[s]]] \in Injection(S, spare) BY <2>6, <2>7, Fun_IsInj
  <2> QED BY <2>8
<1>5. Fresh(m, S) \in Injection(S, spare)
  <2>1. Fresh(m, S) = CHOOSE b \in Injection(S, spare) : TRUE BY DEF Fresh
  <2> HIDE DEF spare
  <2> QED BY <2>1, <1>4
<1>6. Fresh(m, S) \in [S -> spare] /\ \A s, t \in S : Fresh(m, S)[s] = Fresh(m, S)[t] => s = t
  <2> HIDE DEF spare
  <2> QED BY <1>5, Fun_InjectionProperties
<1>7. spare \subseteq Nat \ {0}
  <2> N \in Nat BY <1>2
  <2> HIDE DEF N
  <2> QED OBVIOUS
<1>8. \A x \in spare : x \notin used OBVIOUS
<1>9. IsFiniteSet(Range(Fresh(m, S)))
  <2>1. Range(Fresh(m, S)) \subseteq spare BY <1>6 DEF Range
  <2> QED BY <2>1, <1>3, FS_Subset
<1> HIDE DEF spare
<1> QED BY <1>6, <1>7, <1>8, <1>9

(* What memory consists of, and its parts: what a level is loaded into, and *)
(* the rest.                                                                *)
MemFields == {"heap", "eng", "sound", "slot", "music", "stage"}
Whole(m) == m = [x \in MemFields |-> m[x]]
Quiet == [k \in SoundKinds |-> Silent]
Off == [ready |-> FALSE, copy |-> 0, open |-> 0]

MemTyped(m) ==
  /\ m.heap \subseteq Nat \ {0} /\ IsFiniteSet(m.heap)
  /\ m.eng \in [ready : BOOLEAN, copy : Nat, open : Nat]
  /\ m.sound \in [own : [Plain -> Nat], kept : [Varied -> {<< >>} \union [1 .. Variants -> Nat]],
                  bank : [SoundKinds -> Nat], next : [Varied -> 1 .. Variants]]
  /\ m.slot \in [SoundKinds -> [left : 0 .. Frames, pcm : Nat, bank : BOOLEAN]]
  /\ m.music \in [song : Nat, on : BOOLEAN, wave : Nat, inst : Nat, voice : Nat]
  /\ m.stage \in [bg : Nat, stan : Nat, rooms : SUBSET Nat, level : BOOLEAN]

OfLevel(m) == {m.stage.bg, m.stage.stan} \union m.stage.rooms
OfRest(m) == {m.eng.copy, m.music.song, m.music.wave} \union SoundOwned(m)

(* Every block has an owner, a level's are its own, and whatever is read is *)
(* null or a block of the module that reads it.                             *)
Good(m) ==
  /\ Whole(m) /\ MemTyped(m)
  /\ m.heap = (OfLevel(m) \union OfRest(m)) \ {0}
  /\ OfLevel(m) \intersect OfRest(m) \subseteq {0}
  /\ m.eng.open \in {0, m.eng.copy} /\ (m.eng.ready => m.eng.open # 0)
  /\ m.music.inst \in {0, m.music.wave} /\ m.music.voice \in {0, m.music.wave}
  /\ \A k \in SoundKinds : {m.sound.bank[k], m.slot[k].pcm} \subseteq {0} \union SoundOwned(m)

LEMMA OwnedIs == ASSUME NEW m PROVE Owned(m) = OfLevel(m) \union OfRest(m)
BY DEF Owned, OfLevel, OfRest

LEMMA SoundOwnedIs ==
  ASSUME NEW m, MemTyped(m), NEW x
  PROVE  x \in SoundOwned(m) <=>
           \/ \E k \in Plain : x = m.sound.own[k]
           \/ \E k \in Varied : \E i \in DOMAIN m.sound.kept[k] : x = m.sound.kept[k][i]
<1>1. DOMAIN m.sound.own = Plain BY DEF MemTyped
<1> QED BY <1>1 DEF SoundOwned, Range

(* All that is read is owned.                                               *)
LEMMA GoodIsAccounted ==
  ASSUME NEW m, Good(m)
  PROVE  /\ Heard(m) \union DrawnFrom(m) \union Looked(m) \subseteq m.heap \union {0}
         /\ Pointers(m) \subseteq m.heap \union {0}
         /\ m.heap = Owned(m) \ {0}
<1>1. OfLevel(m) \union OfRest(m) \subseteq m.heap \union {0} BY DEF Good
<1>2. SoundOwned(m) \subseteq m.heap \union {0} BY <1>1 DEF OfRest
<1>3. \A k \in SoundKinds : {m.sound.bank[k], m.slot[k].pcm} \subseteq m.heap \union {0}
  BY <1>2 DEF Good
<1>4. {m.eng.open, m.music.song, m.music.inst, m.music.voice} \subseteq m.heap \union {0}
  BY <1>1 DEF Good, OfRest
<1>5. Heard(m) \subseteq m.heap \union {0}
  <2>1. {m.slot[k].pcm : k \in {j \in Varied : m.slot[j].left > 0}} \subseteq m.heap \union {0}
    BY <1>3 DEF SoundKinds
  <2>2. {m.sound.bank[k] : k \in {j \in Plain : m.slot[j].left > 0 /\ m.slot[j].bank}} \subseteq m.heap \union {0}
    BY <1>3 DEF SoundKinds
  <2> QED BY <2>1, <2>2, <1>4 DEF Heard
<1>6. DrawnFrom(m) \subseteq m.heap \union {0} BY <1>1 DEF DrawnFrom, OfLevel
<1>7. Looked(m) \subseteq m.heap \union {0}
  <2>1. Range(m.sound.bank) \subseteq m.heap \union {0}
    <3>1. DOMAIN m.sound.bank = SoundKinds BY DEF Good, MemTyped
    <3> QED BY <3>1, <1>3 DEF Range
  <2>2. UNION {Range(m.sound.kept[k]) : k \in Varied} \subseteq m.heap \union {0} BY <1>2 DEF SoundOwned
  <2> QED BY <2>1, <2>2, <1>4 DEF Looked
<1>8. {m.slot[k].pcm : k \in SoundKinds} \subseteq m.heap \union {0} BY <1>3
<1>9. Owned(m) \subseteq m.heap \union {0} BY <1>1, OwnedIs
<1>10. Pointers(m) \subseteq m.heap \union {0} BY <1>5, <1>7, <1>8, <1>9 DEF Pointers
<1> QED BY <1>5, <1>6, <1>7, <1>10, OwnedIs DEF Good

LEMMA OnlyNoMusic ==
  ASSUME NEW x \in [song : {0}, on : {FALSE}, wave : {0}, inst : {0}, voice : {0}]
  PROVE  x = NoMusic
BY DEF NoMusic

LEMMA NoMusicIs ==
  ASSUME NEW x \in [song : Nat, on : BOOLEAN, wave : {0}, inst : {0}, voice : {0}]
  PROVE  [x EXCEPT !.song = 0, !.on = FALSE, !.voice = 0] = NoMusic
<1>1. [x EXCEPT !.song = 0, !.on = FALSE, !.voice = 0] \in
        [song : {0}, on : {FALSE}, wave : {0}, inst : {0}, voice : {0}]
  OBVIOUS
<1> QED BY <1>1, OnlyNoMusic

LEMMA NoMusicStays ==
  /\ [NoMusic EXCEPT !.song = 0, !.on = FALSE, !.voice = 0] = NoMusic
  /\ [NoMusic EXCEPT !.inst = 0, !.voice = 0, !.wave = 0] = NoMusic
<1>1. NoMusic \in [song : {0}, on : {FALSE}, wave : {0}, inst : {0}, voice : {0}] BY DEF NoMusic
<1>2. [NoMusic EXCEPT !.song = 0, !.on = FALSE, !.voice = 0] \in
        [song : {0}, on : {FALSE}, wave : {0}, inst : {0}, voice : {0}]
  BY <1>1
<1>3. [NoMusic EXCEPT !.inst = 0, !.voice = 0, !.wave = 0] \in
        [song : {0}, on : {FALSE}, wave : {0}, inst : {0}, voice : {0}]
  BY <1>1
<1> QED BY <1>2, <1>3, OnlyNoMusic

(* port_api_shutdown() frees all there is, and forgets it.                  *)
LEMMA ShutdownIs ==
  ASSUME NEW m, Whole(m), MemTyped(m)
  PROVE  LET r == ApiShutdown(m)
         IN  /\ Whole(r) /\ r.heap = m.heap \ Owned(m)
             /\ r.eng = Off /\ r.sound = NoSound /\ r.slot = Quiet
             /\ r.music = NoMusic /\ r.stage = NoLevel
<1> DEFINE a == LevelUnload(m)
           b == UnloadPackSfx(a)
           c == UnloadInstruments(b)
           d == UnloadSeq(c)
           e == AudioInit(d)
           f == PortShutdown(e)
           r == ApiShutdown(m)
<1>1. /\ Whole(a) /\ a.heap = m.heap \ OfLevel(m) /\ a.stage = NoLevel
      /\ a.eng = m.eng /\ a.sound = m.sound /\ a.music = m.music
  BY DEF LevelUnload, Freed, OfLevel, Whole, MemFields
<1>2. /\ Whole(b) /\ b.heap = a.heap \ SoundOwned(a) /\ b.stage = a.stage
      /\ b.eng = a.eng /\ b.sound = NoSound /\ b.music = a.music
  <2> HIDE DEF a
  <2> QED BY <1>1 DEF UnloadPackSfx, Freed, Whole, MemFields
<1>3. /\ Whole(c) /\ c.heap = b.heap \ {b.music.wave} /\ c.stage = b.stage
      /\ c.eng = b.eng /\ c.sound = b.sound
      /\ c.music = [b.music EXCEPT !.inst = 0, !.voice = 0, !.wave = 0]
  <2> HIDE DEF b
  <2> QED BY <1>2 DEF UnloadInstruments, Freed, Whole, MemFields
<1>4. /\ Whole(d) /\ d.heap = c.heap \ {c.music.song} /\ d.stage = c.stage
      /\ d.eng = c.eng /\ d.sound = c.sound
      /\ d.music = [c.music EXCEPT !.song = 0, !.on = FALSE, !.voice = 0]
  <2> HIDE DEF c
  <2> QED BY <1>3 DEF UnloadSeq, Freed, Whole, MemFields
<1>5. /\ Whole(e) /\ e.heap = d.heap \ {d.music.song} /\ e.stage = d.stage
      /\ e.eng = d.eng /\ e.sound = d.sound /\ e.slot = Quiet
      /\ e.music = [d.music EXCEPT !.song = 0, !.on = FALSE, !.voice = 0]
  <2> HIDE DEF d
  <2> QED BY <1>4 DEF AudioInit, UnloadSeq, Freed, Whole, MemFields, Quiet
<1>6. /\ Whole(f) /\ f.heap = e.heap /\ f.stage = e.stage
      /\ f.eng = [e.eng EXCEPT !.open = 0] /\ f.sound = e.sound /\ f.slot = e.slot
      /\ f.music = e.music
  <2> HIDE DEF e
  <2> QED BY <1>5 DEF PortShutdown, Whole, MemFields
<1>7. r = [Freed(f, {f.eng.copy}) EXCEPT !.eng.copy = 0, !.eng.ready = FALSE] BY DEF ApiShutdown
<1> HIDE DEF a, b, c, d, e, f, r
<1>8. /\ Whole(r) /\ r.heap = f.heap \ {f.eng.copy} /\ r.stage = f.stage
      /\ r.eng = [f.eng EXCEPT !.copy = 0, !.ready = FALSE] /\ r.sound = f.sound /\ r.slot = f.slot
      /\ r.music = f.music
  BY <1>6, <1>7 DEF Freed, Whole, MemFields
<1>9. r.eng = Off
  <2>1. f.eng = [m.eng EXCEPT !.open = 0] BY <1>1, <1>2, <1>3, <1>4, <1>5, <1>6
  <2>2. m.eng \in [ready : BOOLEAN, copy : Nat, open : Nat] BY DEF MemTyped
  <2> QED BY <1>8, <2>1, <2>2 DEF Off
<1>10. r.music = NoMusic /\ b.music = m.music /\ c.music.song = m.music.song /\ d.music.song = 0
  <2>1. m.music \in [song : Nat, on : BOOLEAN, wave : Nat, inst : Nat, voice : Nat] BY DEF MemTyped
  <2>2. c.music = [m.music EXCEPT !.inst = 0, !.voice = 0, !.wave = 0] BY <1>1, <1>2, <1>3
  <2>3. c.music \in [song : Nat, on : BOOLEAN, wave : {0}, inst : {0}, voice : {0}] BY <2>1, <2>2
  <2>4. d.music = NoMusic BY <2>3, <1>4, NoMusicIs
  <2>5. e.music = NoMusic BY <2>4, <1>5, NoMusicStays
  <2>6. c.music.song = m.music.song BY <2>1, <2>2
  <2>7. d.music.song = 0 BY <2>4 DEF NoMusic
  <2> QED BY <2>5, <2>6, <2>7, <1>1, <1>2, <1>6, <1>8
<1>11. r.heap = m.heap \ Owned(m)
  <2>1. f.eng.copy = m.eng.copy BY <1>1, <1>2, <1>3, <1>4, <1>5, <1>6 DEF MemTyped
  <2>2. SoundOwned(a) = SoundOwned(m) BY <1>1 DEF SoundOwned
  <2>3. r.heap = m.heap \ (OfLevel(m) \union OfRest(m) \union {0})
    BY <2>1, <2>2, <1>1, <1>2, <1>3, <1>4, <1>5, <1>6, <1>8, <1>10 DEF OfRest
  <2>4. 0 \notin m.heap BY DEF MemTyped
  <2> QED BY <2>3, <2>4, OwnedIs
<1>12. r.sound = NoSound /\ r.slot = Quiet /\ r.stage = NoLevel
  BY <1>1, <1>2, <1>3, <1>4, <1>5, <1>6, <1>8
<1> QED BY <1>8, <1>9, <1>10, <1>11, <1>12 DEF r

(* Memory with nothing in it but, if b is not 0, the copy of a pack.        *)
Bare(m, b) ==
  /\ Whole(m) /\ m.heap = {b} \ {0}
  /\ m.eng = [ready |-> FALSE, copy |-> b, open |-> b] /\ m.sound = NoSound /\ m.slot = Quiet
  /\ m.music = NoMusic /\ m.stage = NoLevel

LEMMA BareIsGood == ASSUME NEW m, NEW b \in Nat, Bare(m, b) PROVE Good(m)
<1>1. IsFiniteSet({b} \ {0}) BY FS_Singleton, FS_Subset
<1>2. MemTyped(m)
  <2>1. m.eng \in [ready : BOOLEAN, copy : Nat, open : Nat] BY DEF Bare
  <2>2. m.sound \in [own : [Plain -> Nat], kept : [Varied -> {<< >>} \union [1 .. Variants -> Nat]],
                     bank : [SoundKinds -> Nat], next : [Varied -> 1 .. Variants]]
    BY EngineAssumption DEF Bare, NoSound
  <2>3. m.slot \in [SoundKinds -> [left : 0 .. Frames, pcm : Nat, bank : BOOLEAN]]
    BY EngineAssumption DEF Bare, Quiet, Silent
  <2>4. m.music \in [song : Nat, on : BOOLEAN, wave : Nat, inst : Nat, voice : Nat] BY DEF Bare, NoMusic
  <2>5. m.stage \in [bg : Nat, stan : Nat, rooms : SUBSET Nat, level : BOOLEAN] BY DEF Bare, NoLevel
  <2>6. m.heap \subseteq Nat \ {0} /\ IsFiniteSet(m.heap) BY <1>1 DEF Bare
  <2> QED BY <2>1, <2>2, <2>3, <2>4, <2>5, <2>6 DEF MemTyped
<1>3. SoundOwned(m) \subseteq {0}
  <2>1. \A k \in Plain : m.sound.own[k] = 0 BY DEF Bare, NoSound
  <2>2. \A k \in Varied : DOMAIN m.sound.kept[k] = {} BY DEF Bare, NoSound
  <2> QED BY <2>1, <2>2, <1>2, SoundOwnedIs
<1>4. OfLevel(m) = {0} BY DEF Bare, NoLevel, OfLevel
<1>5. OfRest(m) \subseteq {b, 0} /\ b \in OfRest(m) BY <1>3 DEF Bare, NoMusic, OfRest
<1>6. \A k \in SoundKinds : m.sound.bank[k] = 0 /\ m.slot[k].pcm = 0 BY DEF Bare, NoSound, Quiet, Silent
<1>7. m.heap = (OfLevel(m) \union OfRest(m)) \ {0} BY <1>4, <1>5 DEF Bare
<1>8. Whole(m) /\ m.eng.open \in {0, m.eng.copy} /\ (m.eng.ready => m.eng.open # 0) BY DEF Bare
<1>9. m.music.inst \in {0, m.music.wave} /\ m.music.voice \in {0, m.music.wave} BY DEF Bare, NoMusic
<1> QED BY <1>2, <1>4, <1>6, <1>7, <1>8, <1>9 DEF Good

(* What changes no owner and no pointer.                                    *)
LEMMA SameIsSame ==
  ASSUME NEW m, NEW n, Whole(m), Whole(n), m.heap = n.heap, m.eng = n.eng, m.sound = n.sound,
         m.slot = n.slot, m.music = n.music, m.stage = n.stage
  PROVE  m = n
<1>1. \A x \in MemFields : m[x] = n[x] BY DEF MemFields
<1> QED BY <1>1 DEF Whole

(* The sounds of a pack are loaded into bare memory.                        *)
LEMMA LoadSfxIs ==
  ASSUME NEW m, NEW c \in Nat, Bare(m, c), NEW kinds \in SUBSET SoundKinds
  PROVE  LET r == LoadPackSfx(m, kinds)
         IN  Good(r) /\ r.music = NoMusic /\ r.eng = m.eng
<1> DEFINE p == UnloadPackSfx(m)
           S == Samples(kinds)
           b == Fresh(p, S)
           r == LoadPackSfx(m, kinds)
<1>1. Good(m) BY BareIsGood
<1>2. p = m
  <2>1. /\ Whole(p) /\ p.heap = m.heap \ SoundOwned(m) /\ p.eng = m.eng /\ p.sound = NoSound
        /\ p.music = m.music /\ p.stage = m.stage
        /\ p.slot = [k \in SoundKinds |-> IF k \in Plain THEN Silent ELSE m.slot[k]]
    BY DEF UnloadPackSfx, Freed, Bare, Whole, MemFields
  <2>2. p.slot = m.slot BY <2>1 DEF Bare, Quiet
  <2>3. SoundOwned(m) \subseteq {0}
    <3>1. \A k \in Plain : m.sound.own[k] = 0 BY DEF Bare, NoSound
    <3>2. \A k \in Varied : DOMAIN m.sound.kept[k] = {} BY DEF Bare, NoSound
    <3> QED BY <3>1, <3>2, <1>1, SoundOwnedIs DEF Good
  <2>4. p.heap = m.heap BY <2>1, <2>3, <1>1 DEF Good, MemTyped
  <2>5. p.sound = m.sound BY <2>1 DEF Bare
  <2> HIDE DEF p
  <2> QED BY <2>1, <2>2, <2>4, <2>5, SameIsSame DEF Bare
<1>3. IsFiniteSet(S)
  <2>1. IsFiniteSet(SoundKinds) BY EngineAssumption, FS_Union DEF SoundKinds
  <2>2. IsFiniteSet(kinds) BY <2>1, FS_Subset
  <2>3. 1 \in Int /\ Variants \in Int BY EngineAssumption
  <2>4. IsFiniteSet(1 .. Variants) BY <2>3, FS_Interval
  <2>5. IsFiniteSet(kinds \X (1 .. Variants)) BY <2>2, <2>4, FS_Product
  <2> QED BY <2>5, FS_Subset DEF Samples
<1>4. Pointers(m) \subseteq m.heap \union {0} BY <1>1, GoodIsAccounted
<1>5. /\ b \in [S -> Nat \ {0}] /\ IsFiniteSet(Range(b))
      /\ \A s \in S : b[s] \notin m.heap \union Pointers(m)
  BY <1>1, <1>2, <1>3, <1>4, FreshIs DEF Good, MemTyped
<1> DEFINE own == [k \in Plain |-> IF k \in kinds THEN b[<<k, 1>>] ELSE 0]
           kept == [k \in Varied |-> IF k \in kinds THEN [i \in 1 .. Variants |-> b[<<k, i>>]] ELSE << >>]
           bank == [k \in SoundKinds |-> IF k \in kinds THEN b[<<k, 1>>] ELSE 0]
<1>6. /\ Whole(r) /\ r.heap = m.heap \union Range(b) /\ r.eng = m.eng
      /\ r.sound = [own |-> own, kept |-> kept, bank |-> bank, next |-> [k \in Varied |-> 1]]
      /\ r.slot = m.slot /\ r.music = m.music /\ r.stage = m.stage
  <2>1. r = [m EXCEPT
               !.heap = @ \union Range(b),
               !.sound = [own |-> own, kept |-> kept, bank |-> bank, next |-> [k \in Varied |-> 1]]]
    BY <1>2 DEF LoadPackSfx
  <2> HIDE DEF r, b, own, kept, bank
  <2> QED BY <2>1 DEF Bare, Whole, MemFields
<1>7. \A k \in kinds : <<k, 1>> \in S BY EngineAssumption DEF Samples
<1>8. \A k \in kinds \ Plain : \A i \in 1 .. Variants : <<k, i>> \in S BY DEF Samples
<1> HIDE DEF b, S, r, p
<1>9. own \in [Plain -> Nat] /\ bank \in [SoundKinds -> Nat] BY <1>5, <1>7
<1>10. kept \in [Varied -> {<< >>} \union [1 .. Variants -> Nat]]
  <2>1. \A k \in Varied : k \notin Plain BY EngineAssumption
  <2> QED BY <1>5, <1>8, <2>1
<1>11. MemTyped(r)
  <2>1. r.heap \subseteq Nat \ {0} /\ IsFiniteSet(r.heap)
    <3>1. Range(b) \subseteq Nat \ {0} BY <1>5 DEF Range
    <3>2. m.heap \subseteq Nat \ {0} /\ IsFiniteSet(m.heap) BY <1>1 DEF Good, MemTyped
    <3>3. IsFiniteSet(Range(b)) BY <1>5
    <3>4. IsFiniteSet(m.heap \union Range(b)) BY <3>2, <3>3, FS_Union
    <3>5. r.heap = m.heap \union Range(b) BY <1>6
    <3> QED BY <3>1, <3>2, <3>4, <3>5
  <2>2. r.sound \in [own : [Plain -> Nat], kept : [Varied -> {<< >>} \union [1 .. Variants -> Nat]],
                     bank : [SoundKinds -> Nat], next : [Varied -> 1 .. Variants]]
    <3>1. [k \in Varied |-> 1] \in [Varied -> 1 .. Variants] BY EngineAssumption
    <3> HIDE DEF own, kept, bank
    <3> QED BY <3>1, <1>6, <1>9, <1>10
  <2> QED BY <2>1, <2>2, <1>6, <1>1 DEF Good, MemTyped
<1>12. \A x : x \in SoundOwned(r) =>
         \/ x = 0
         \/ x \in Range(b)
  <2> SUFFICES ASSUME NEW x \in SoundOwned(r) PROVE x = 0 \/ x \in Range(b) OBVIOUS
  <2>1. r.sound.own = own /\ r.sound.kept = kept
    <3> HIDE DEF own, kept, bank
    <3> QED BY <1>6
  <2>2. CASE \E k \in Plain : x = own[k]
    <3>1. PICK k \in Plain : x = own[k] BY <2>2
    <3>2. x = 0 \/ (k \in kinds /\ x = b[<<k, 1>>]) BY <3>1
    <3> QED BY <3>2, <1>5, <1>7 DEF Range
  <2>3. CASE \E k \in Varied : \E i \in DOMAIN kept[k] : x = kept[k][i]
    <3>1. PICK k \in Varied : \E i \in DOMAIN kept[k] : x = kept[k][i] BY <2>3
    <3>2. PICK i \in DOMAIN kept[k] : x = kept[k][i] BY <3>1
    <3>3. k \in kinds /\ i \in 1 .. Variants BY <3>2
    <3>4. x = b[<<k, i>>] BY <3>2, <3>3
    <3>5. k \notin Plain BY EngineAssumption
    <3> QED BY <3>3, <3>4, <3>5, <1>5, <1>8 DEF Range
  <2> HIDE DEF own, kept
  <2> QED BY <2>1, <2>2, <2>3, <1>11, SoundOwnedIs
<1>13. Range(b) \subseteq SoundOwned(r)
  <2> SUFFICES ASSUME NEW s \in S PROVE b[s] \in SoundOwned(r) BY <1>5 DEF Range
  <2>1. r.sound.own = own /\ r.sound.kept = kept
    <3> HIDE DEF own, kept, bank
    <3> QED BY <1>6
  <2>2. PICK k \in kinds, i \in 1 .. Variants : s = <<k, i>> /\ (k \in Plain => i = 1) BY DEF S, Samples
  <2>3. CASE k \in Plain
    <3>1. b[s] = own[k] BY <2>2, <2>3
    <3> HIDE DEF own, kept
    <3> QED BY <3>1, <2>1, <2>3, <1>11, SoundOwnedIs
  <2>4. CASE k \in Varied
    <3>1. i \in DOMAIN kept[k] /\ b[s] = kept[k][i] BY <2>2, <2>4
    <3> HIDE DEF own, kept
    <3> QED BY <3>1, <2>1, <2>4, <1>11, SoundOwnedIs
  <2> QED BY <2>3, <2>4 DEF SoundKinds
<1>14. r.heap = (OfLevel(r) \union OfRest(r)) \ {0} /\ OfLevel(r) = {0}
  <2>1. OfLevel(r) = {0} BY <1>6 DEF OfLevel, Bare, NoLevel
  <2>2. {r.eng.copy, r.music.song, r.music.wave} = {c, 0} BY <1>6 DEF Bare, NoMusic
  <2>3. r.heap = ({c} \ {0}) \union Range(b) BY <1>6 DEF Bare
  <2>4. 0 \notin Range(b) BY <1>5 DEF Range
  <2> HIDE DEF own, kept, bank
  <2> QED BY <2>1, <2>2, <2>3, <2>4, <1>12, <1>13 DEF OfRest
<1>15. \A k \in SoundKinds : {r.sound.bank[k], r.slot[k].pcm} \subseteq {0} \union SoundOwned(r)
  <2> SUFFICES ASSUME NEW k \in SoundKinds PROVE {r.sound.bank[k], r.slot[k].pcm} \subseteq {0} \union SoundOwned(r)
    OBVIOUS
  <2>1. r.sound.bank = bank
    <3> HIDE DEF own, kept, bank
    <3> QED BY <1>6
  <2>2. bank[k] = 0 \/ bank[k] \in Range(b) BY <1>5, <1>7 DEF Range
  <2>3. r.slot[k].pcm = 0 BY <1>6 DEF Bare, Quiet, Silent
  <2> HIDE DEF own, kept, bank
  <2> QED BY <2>1, <2>2, <2>3, <1>13
<1>16. /\ Whole(r) /\ r.eng = [ready |-> FALSE, copy |-> c, open |-> c]
       /\ r.music = NoMusic
  BY <1>6 DEF Bare
<1>17. Good(r)
  <2> HIDE DEF own, kept, bank
  <2> QED BY <1>11, <1>14, <1>15, <1>16 DEF Good, NoMusic
<1> QED BY <1>6, <1>16, <1>17 DEF r

(* The song and the instruments are loaded where there are none.            *)
LEMMA LoadMusicIs ==
  ASSUME NEW m, Good(m), m.music = NoMusic, NEW song \in BOOLEAN, NEW instruments \in BOOLEAN
  PROVE  LET r == LoadPackMusic(m, song, instruments)
         IN  Good(r) /\ r.eng = m.eng
<1> DEFINE p == UnloadInstruments(UnloadSeq(m))
           b == Fresh(p, 1 .. 2)
           s == [p EXCEPT !.heap = @ \union {b[1]}, !.music.song = b[1], !.music.on = TRUE]
           r == LoadPackMusic(m, song, instruments)
<1>1. p = m
  <2> DEFINE u == UnloadSeq(m)
  <2>1. /\ Whole(u) /\ u.heap = m.heap \ {m.music.song} /\ u.eng = m.eng /\ u.sound = m.sound
        /\ u.slot = m.slot /\ u.stage = m.stage
        /\ u.music = [m.music EXCEPT !.song = 0, !.on = FALSE, !.voice = 0]
    BY DEF UnloadSeq, Freed, Good, Whole, MemFields
  <2>2. u.music = NoMusic BY <2>1, NoMusicStays
  <2> HIDE DEF u
  <2>3. /\ Whole(p) /\ p.heap = u.heap \ {u.music.wave} /\ p.eng = u.eng /\ p.sound = u.sound
        /\ p.slot = u.slot /\ p.stage = u.stage
        /\ p.music = [u.music EXCEPT !.inst = 0, !.voice = 0, !.wave = 0]
    BY <2>1 DEF UnloadInstruments, Freed, Whole, MemFields, u
  <2>4. p.music = NoMusic BY <2>2, <2>3, NoMusicStays
  <2>5. p.heap = m.heap
    <3>1. u.music.wave = 0 /\ m.music.song = 0 BY <2>2 DEF NoMusic
    <3>2. 0 \notin m.heap BY DEF Good, MemTyped
    <3> QED BY <2>1, <2>3, <3>1, <3>2
  <2> HIDE DEF p
  <2> QED BY <2>1, <2>3, <2>4, <2>5, SameIsSame DEF Good
<1>2. IsFiniteSet(1 .. 2)
  <2>1. 1 \in Int /\ 2 \in Int OBVIOUS
  <2> QED BY <2>1, FS_Interval
<1>3. /\ b \in [1 .. 2 -> Nat \ {0}] /\ IsFiniteSet(Range(b)) /\ b[1] # b[2]
      /\ \A x \in 1 .. 2 : b[x] \notin m.heap \union Pointers(m)
  <2>1. Pointers(m) \subseteq m.heap \union {0} BY GoodIsAccounted
  <2>2. IsFiniteSet(m.heap) BY DEF Good, MemTyped
  <2>3. 1 \in 1 .. 2 /\ 2 \in 1 .. 2 /\ 1 # 2 OBVIOUS
  <2> HIDE DEF p
  <2> QED BY <1>1, <1>2, <2>1, <2>2, <2>3, FreshIs
<1>4. r = IF ~song THEN m
          ELSE IF ~instruments THEN s
          ELSE [s EXCEPT !.heap = @ \union {b[2]}, !.music.wave = b[2], !.music.inst = b[2]]
  BY <1>1 DEF LoadPackMusic
<1>5. s = [m EXCEPT !.heap = @ \union {b[1]}, !.music.song = b[1], !.music.on = TRUE] BY <1>1
<1> HIDE DEF p, b
<1>6. /\ Whole(s) /\ s.heap = m.heap \union {b[1]} /\ s.eng = m.eng /\ s.sound = m.sound
      /\ s.slot = m.slot /\ s.stage = m.stage
      /\ s.music = [NoMusic EXCEPT !.song = b[1], !.on = TRUE]
  <2> HIDE DEF s
  <2> QED BY <1>5 DEF Good, Whole, MemFields
<1> HIDE DEF s
<1>7. PICK w \in {0, b[2]} : \E on \in BOOLEAN, x \in {0, b[1]} :
        /\ Whole(r) /\ r.heap = m.heap \union ({w, x} \ {0}) /\ r.eng = m.eng /\ r.sound = m.sound
        /\ r.slot = m.slot /\ r.stage = m.stage
        /\ r.music = [song |-> x, on |-> on, wave |-> w, inst |-> w, voice |-> 0]
  <2> b[1] # 0 /\ b[2] # 0 BY <1>3
  <2>1. CASE ~song
    <3>1. r = m BY <1>4, <2>1
    <3>2. r.music = [song |-> 0, on |-> FALSE, wave |-> 0, inst |-> 0, voice |-> 0] BY <3>1 DEF NoMusic
    <3> HIDE DEF r
    <3> QED BY <3>1, <3>2 DEF Good
  <2>2. CASE song /\ ~instruments
    <3>1. r = s BY <1>4, <2>2
    <3>2. r.music = [song |-> b[1], on |-> TRUE, wave |-> 0, inst |-> 0, voice |-> 0]
      BY <3>1, <1>6 DEF NoMusic
    <3>3. r.heap = m.heap \union ({0, b[1]} \ {0}) BY <3>1, <1>6
    <3> HIDE DEF r
    <3> QED BY <3>1, <3>2, <3>3, <1>6
  <2>3. CASE song /\ instruments
    <3>1. r = [s EXCEPT !.heap = @ \union {b[2]}, !.music.wave = b[2], !.music.inst = b[2]]
      BY <1>4, <2>3
    <3> HIDE DEF r
    <3>2. /\ Whole(r) /\ r.heap = s.heap \union {b[2]} /\ r.eng = s.eng /\ r.sound = s.sound
          /\ r.slot = s.slot /\ r.stage = s.stage
          /\ r.music = [s.music EXCEPT !.wave = b[2], !.inst = b[2]]
      BY <3>1, <1>6 DEF Whole, MemFields
    <3>3. r.music = [song |-> b[1], on |-> TRUE, wave |-> b[2], inst |-> b[2], voice |-> 0]
      BY <3>2, <1>6 DEF NoMusic
    <3>4. r.heap = m.heap \union ({b[2], b[1]} \ {0}) BY <3>2, <1>6
    <3> QED BY <3>2, <3>3, <3>4, <1>6
  <2> QED BY <2>1, <2>2, <2>3
<1>8. PICK on \in BOOLEAN, x \in {0, b[1]} :
        /\ Whole(r) /\ r.heap = m.heap \union ({w, x} \ {0}) /\ r.eng = m.eng /\ r.sound = m.sound
        /\ r.slot = m.slot /\ r.stage = m.stage
        /\ r.music = [song |-> x, on |-> on, wave |-> w, inst |-> w, voice |-> 0]
  BY <1>7
<1> HIDE DEF r
<1>9. w \in Nat /\ x \in Nat BY <1>3
<1>10. MemTyped(r)
  <2>1. r.music \in [song : Nat, on : BOOLEAN, wave : Nat, inst : Nat, voice : Nat] BY <1>8, <1>9
  <2>2. IsFiniteSet({w, x} \ {0})
    <3>1. IsFiniteSet({x}) BY FS_Singleton
    <3>2. IsFiniteSet({x} \union {w}) BY <3>1, FS_AddElement
    <3> QED BY <3>2, FS_Subset
  <2>3. r.heap \subseteq Nat \ {0} BY <1>8, <1>9 DEF Good, MemTyped
  <2>4. IsFiniteSet(r.heap)
    <3>1. IsFiniteSet(m.heap) BY DEF Good, MemTyped
    <3>2. IsFiniteSet(m.heap \union ({w, x} \ {0})) BY <3>1, <2>2, FS_Union
    <3> QED BY <3>2, <1>8
  <2> QED BY <1>8, <2>1, <2>3, <2>4 DEF Good, MemTyped
<1>11. SoundOwned(r) = SoundOwned(m) BY <1>8 DEF SoundOwned
<1>12. OfLevel(r) = OfLevel(m) BY <1>8 DEF OfLevel
<1>13. OfRest(r) \union {0} = OfRest(m) \union {w, x, 0} BY <1>8, <1>11 DEF OfRest, NoMusic
<1>14. r.heap = (OfLevel(r) \union OfRest(r)) \ {0} BY <1>8, <1>12, <1>13 DEF Good
<1>15. OfLevel(r) \intersect OfRest(r) \subseteq {0}
  <2>1. OfLevel(m) \subseteq m.heap \union {0} BY DEF Good
  <2>2. w \notin m.heap /\ x \notin m.heap BY <1>3 DEF Good, MemTyped
  <2> QED BY <1>12, <1>13, <2>1, <2>2 DEF Good
<1>16. r.music.inst \in {0, r.music.wave} /\ r.music.voice \in {0, r.music.wave} BY <1>8
<1>17. \A k \in SoundKinds : {r.sound.bank[k], r.slot[k].pcm} \subseteq {0} \union SoundOwned(r)
  BY <1>8, <1>11 DEF Good
<1>18. Good(r) BY <1>8, <1>10, <1>14, <1>15, <1>16, <1>17 DEF Good
<1> QED BY <1>8, <1>18 DEF r

(* Ready or not is read with g_pack alone.                                  *)
LEMMA ReadyIs ==
  ASSUME NEW m, Good(m), NEW ready \in BOOLEAN, ready => m.eng.open # 0
  PROVE  Good([m EXCEPT !.eng.ready = ready])
<1> DEFINE r == [m EXCEPT !.eng.ready = ready]
<1>1. /\ Whole(r) /\ r.heap = m.heap /\ r.eng = [m.eng EXCEPT !.ready = ready] /\ r.sound = m.sound
      /\ r.slot = m.slot /\ r.music = m.music /\ r.stage = m.stage
  BY DEF Good, Whole, MemFields
<1> HIDE DEF r
<1>2. m.eng \in [ready : BOOLEAN, copy : Nat, open : Nat] BY DEF Good, MemTyped
<1>3. /\ r.eng \in [ready : BOOLEAN, copy : Nat, open : Nat]
      /\ r.eng.copy = m.eng.copy /\ r.eng.open = m.eng.open /\ r.eng.ready = ready
  BY <1>1, <1>2
<1>4. MemTyped(r) BY <1>1, <1>3 DEF Good, MemTyped
<1>5. SoundOwned(r) = SoundOwned(m) BY <1>1 DEF SoundOwned
<1>6. OfLevel(r) = OfLevel(m) /\ OfRest(r) = OfRest(m) BY <1>1, <1>3, <1>5 DEF OfLevel, OfRest
<1>7. Good(r) BY <1>1, <1>3, <1>4, <1>5, <1>6 DEF Good
<1> QED BY <1>7 DEF r

(* port_api_init(), whatever the engine was doing and whatever goes wrong.  *)
LEMMA InitIs ==
  ASSUME NEW m, Good(m), NEW wrong, NEW kinds \in SUBSET SoundKinds,
         NEW song \in BOOLEAN, NEW instruments \in BOOLEAN
  PROVE  Good(ApiInit(m, wrong, kinds, song, instruments))
<1> DEFINE n == [m EXCEPT !.eng.ready = FALSE]
           b == Fresh(n, {1})[1]
           h == [n EXCEPT !.heap = @ \union {b}]
           d == ApiShutdown(h)
           o == [d EXCEPT !.eng.copy = b, !.eng.open = b]
           a == AudioInit(o)
           s == LoadPackSfx(a, kinds)
           q == LoadPackMusic(s, song, instruments)
<1>1. Good(n) BY ReadyIs
<1> HIDE DEF n
<1>2. b \in Nat \ {0} /\ b \notin n.heap \union Pointers(n)
  <2>1. IsFiniteSet({1}) /\ 1 \in {1} BY FS_Singleton
  <2>2. IsFiniteSet(n.heap) /\ Pointers(n) \subseteq n.heap \union {0} BY <1>1, GoodIsAccounted DEF Good, MemTyped
  <2> QED BY <2>1, <2>2, FreshIs
<1> HIDE DEF b
<1>3. /\ Whole(h) /\ h.heap = n.heap \union {b} /\ h.eng = n.eng /\ h.sound = n.sound
      /\ h.slot = n.slot /\ h.music = n.music /\ h.stage = n.stage
  BY <1>1 DEF Good, Whole, MemFields
<1> HIDE DEF h
<1>4. MemTyped(h)
  <2>1. IsFiniteSet(n.heap) BY <1>1 DEF Good, MemTyped
  <2>2. IsFiniteSet(n.heap \union {b}) BY <2>1, FS_AddElement
  <2>3. h.heap \subseteq Nat \ {0} /\ IsFiniteSet(h.heap) BY <2>2, <1>1, <1>2, <1>3 DEF Good, MemTyped
  <2> QED BY <2>3, <1>1, <1>3 DEF Good, MemTyped
<1>5. Owned(h) = Owned(n) BY <1>3 DEF Owned, SoundOwned
<1>6. h.heap \ Owned(h) = {b}
  <2>1. n.heap = Owned(n) \ {0} BY <1>1, GoodIsAccounted
  <2>2. b \notin Owned(n) BY <1>2 DEF Pointers
  <2> QED BY <2>1, <2>2, <1>3, <1>5
<1>7. /\ Whole(d) /\ d.heap = {b} /\ d.eng = Off /\ d.sound = NoSound /\ d.slot = Quiet
      /\ d.music = NoMusic /\ d.stage = NoLevel
  BY <1>3, <1>4, <1>6, ShutdownIs
<1> HIDE DEF d
<1>8. Bare(o, b)
  <2>1. /\ Whole(o) /\ o.heap = d.heap /\ o.eng = [d.eng EXCEPT !.copy = b, !.open = b]
        /\ o.sound = d.sound /\ o.slot = d.slot /\ o.music = d.music /\ o.stage = d.stage
    BY <1>7 DEF Whole, MemFields
  <2>2. o.eng = [ready |-> FALSE, copy |-> b, open |-> b] 
    <3>1. d.eng \in [ready : {FALSE}, copy : {0}, open : {0}] BY <1>7 DEF Off
    <3>2. o.eng \in [ready : {FALSE}, copy : {b}, open : {b}] BY <2>1, <3>1
    <3> HIDE DEF o
    <3> QED BY <3>2
  <2>3. d.heap = {b} \ {0} BY <1>2, <1>7
  <2> HIDE DEF o
  <2> QED BY <2>1, <2>2, <2>3, <1>7 DEF Bare
<1> HIDE DEF o
<1>9. Good(o) BY <1>2, <1>8, BareIsGood
<1>10. Good(ApiShutdown(o))
  <2> DEFINE r == ApiShutdown(o)
  <2>1. /\ Whole(r) /\ r.heap = o.heap \ Owned(o) /\ r.eng = Off /\ r.sound = NoSound
        /\ r.slot = Quiet /\ r.music = NoMusic /\ r.stage = NoLevel
    BY <1>9, ShutdownIs DEF Good
  <2>2. b \in Owned(o) BY <1>8 DEF Bare, Owned
  <2>3. r.heap = {} BY <2>1, <2>2, <1>8 DEF Bare
  <2> HIDE DEF r
  <2>4. r.heap = {0} \ {0} BY <2>3
  <2>5. Bare(r, 0) BY <2>1, <2>4 DEF Bare, Off
  <2>6. Good(r) BY <2>5, BareIsGood
  <2> QED BY <2>6 DEF r
<1>11. Bare(a, b)
  <2>1. /\ Whole(a) /\ a.heap = o.heap \ {o.music.song} /\ a.eng = o.eng
        /\ a.sound = o.sound /\ a.slot = Quiet /\ a.stage = o.stage
        /\ a.music = [o.music EXCEPT !.song = 0, !.on = FALSE, !.voice = 0]
    BY <1>9 DEF AudioInit, UnloadSeq, Freed, Good, Whole, MemFields, Quiet
  <2>2. a.music = NoMusic BY <2>1, <1>8, NoMusicStays DEF Bare
  <2>3. a.heap = o.heap
    <3>1. o.music.song = 0 BY <1>8 DEF Bare, NoMusic
    <3> QED BY <3>1, <2>1, <1>8 DEF Bare
  <2> HIDE DEF a
  <2> QED BY <2>1, <2>2, <2>3, <1>8 DEF Bare
<1> HIDE DEF a
<1>12. Good(s) /\ s.music = NoMusic /\ s.eng = a.eng BY <1>2, <1>11, LoadSfxIs
<1> HIDE DEF s
<1>13. Good(q) /\ q.eng = s.eng BY <1>12, LoadMusicIs
<1> HIDE DEF q
<1>14. q.eng.open # 0 BY <1>2, <1>11, <1>12, <1>13 DEF Bare
<1>15. Good([q EXCEPT !.eng.ready = TRUE]) BY <1>13, <1>14, ReadyIs
<1>16. ApiInit(m, wrong, kinds, song, instruments) =
         IF wrong \in {"args", "oom"} THEN n
         ELSE IF wrong \in {"pack", "hash", "g1"} THEN ApiShutdown(o)
         ELSE [q EXCEPT !.eng.ready = TRUE]
  BY DEF ApiInit, n, b, h, d, o, a, s, q
<1> QED BY <1>1, <1>10, <1>15, <1>16

(* port_stage_load() *)
LEMMA LevelLoadIs ==
  ASSUME NEW m, Good(m), NEW wrong
  PROVE  Good(LevelLoad(m, wrong))
<1> DEFINE p == LevelUnload(m)
           b == Fresh(p, 1 .. 3)
           r == [p EXCEPT !.heap = @ \union Range(b),
                          !.stage = [bg |-> b[1], stan |-> b[2], rooms |-> {b[3]}, level |-> TRUE]]
<1>1. /\ Whole(p) /\ p.heap = m.heap \ OfLevel(m) /\ p.stage = NoLevel /\ p.eng = m.eng
      /\ p.sound = m.sound /\ p.slot = m.slot /\ p.music = m.music
  BY DEF Good, LevelUnload, Freed, OfLevel, Whole, MemFields
<1> HIDE DEF p
<1>2. MemTyped(p)
  <2>1. IsFiniteSet(m.heap) BY DEF Good, MemTyped
  <2>2. IsFiniteSet(p.heap) BY <2>1, <1>1, FS_Subset
  <2>3. p.heap \subseteq Nat \ {0} BY <1>1 DEF Good, MemTyped
  <2>4. p.stage \in [bg : Nat, stan : Nat, rooms : SUBSET Nat, level : BOOLEAN] BY <1>1 DEF NoLevel
  <2> QED BY <2>2, <2>3, <2>4, <1>1 DEF Good, MemTyped
<1>3. SoundOwned(p) = SoundOwned(m) BY <1>1 DEF SoundOwned
<1>4. OfLevel(p) = {0} BY <1>1 DEF OfLevel, NoLevel
<1>5. OfRest(p) = OfRest(m) BY <1>1, <1>3 DEF OfRest
<1>6. p.heap = OfRest(p) \ {0} BY <1>1, <1>5 DEF Good
<1>7. /\ p.eng.open \in {0, p.eng.copy} /\ (p.eng.ready => p.eng.open # 0)
      /\ p.music.inst \in {0, p.music.wave} /\ p.music.voice \in {0, p.music.wave}
      /\ \A k \in SoundKinds : {p.sound.bank[k], p.slot[k].pcm} \subseteq {0} \union SoundOwned(p)
  BY <1>1, <1>3 DEF Good
<1>8. Good(p) BY <1>1, <1>2, <1>4, <1>6, <1>7 DEF Good
<1>9. /\ b \in [1 .. 3 -> Nat \ {0}] /\ IsFiniteSet(Range(b))
      /\ \A x \in 1 .. 3 : b[x] \notin p.heap \union Pointers(p)
  <2>1. 1 \in Int /\ 3 \in Int OBVIOUS
  <2>2. IsFiniteSet(1 .. 3) BY <2>1, FS_Interval
  <2>3. Pointers(p) \subseteq p.heap \union {0} BY <1>8, GoodIsAccounted
  <2>4. IsFiniteSet(p.heap) BY <1>2 DEF MemTyped
  <2> QED BY <2>2, <2>3, <2>4, FreshIs
<1> HIDE DEF b
<1>10. /\ Whole(r) /\ r.heap = p.heap \union Range(b) /\ r.eng = p.eng /\ r.sound = p.sound
       /\ r.slot = p.slot /\ r.music = p.music
       /\ r.stage = [bg |-> b[1], stan |-> b[2], rooms |-> {b[3]}, level |-> TRUE]
  BY <1>1 DEF Whole, MemFields
<1> HIDE DEF r
<1>11. Range(b) = {b[1], b[2], b[3]}
  <2>1. DOMAIN b = 1 .. 3 BY <1>9
  <2>2. 1 .. 3 = {1, 2, 3} OBVIOUS
  <2> QED BY <2>1, <2>2 DEF Range
<1>12. OfLevel(r) = Range(b) BY <1>10, <1>11 DEF OfLevel
<1>13. SoundOwned(r) = SoundOwned(p) BY <1>10 DEF SoundOwned
<1>14. OfRest(r) = OfRest(p) BY <1>10, <1>13 DEF OfRest
<1>15. 0 \notin Range(b) /\ \A x \in Range(b) : x \in Nat /\ x \notin p.heap
  <2>1. 1 \in 1 .. 3 /\ 2 \in 1 .. 3 /\ 3 \in 1 .. 3 OBVIOUS
  <2> QED BY <1>9, <1>11, <2>1
<1>16. r.heap = (OfLevel(r) \union OfRest(r)) \ {0} BY <1>6, <1>10, <1>12, <1>14, <1>15
<1>17. OfLevel(r) \intersect OfRest(r) \subseteq {0} BY <1>6, <1>12, <1>14, <1>15
<1>18. MemTyped(r)
  <2>1. IsFiniteSet(p.heap) BY <1>2 DEF MemTyped
  <2>2. IsFiniteSet(p.heap \union Range(b)) BY <2>1, <1>9, FS_Union
  <2>3. r.heap \subseteq Nat \ {0} BY <1>2, <1>10, <1>15 DEF MemTyped
  <2>4. r.stage \in [bg : Nat, stan : Nat, rooms : SUBSET Nat, level : BOOLEAN]
    BY <1>10, <1>11, <1>15
  <2> QED BY <2>2, <2>3, <2>4, <1>2, <1>10 DEF MemTyped
<1>19. Good(r) BY <1>7, <1>10, <1>13, <1>16, <1>17, <1>18 DEF Good
<1>20. LevelLoad(m, wrong) = IF wrong \in {"no bg", "no stan", "bad header", "bad room 1"} THEN p ELSE r
  BY DEF LevelLoad, p, b, r
<1> QED BY <1>8, <1>19, <1>20

(* A sound is played: its own sample, or the next of its variants.          *)
LEMMA RotatedIs ==
  ASSUME NEW m, Good(m), NEW k \in Varied
  PROVE  Good(Rotated(m, k))
<1> DEFINE n == Len(m.sound.kept[k])
           x == m.sound.kept[k][m.sound.next[k]]
           next == [m.sound.next EXCEPT ![k] = (@ % n) + 1]
           bank == [m.sound.bank EXCEPT ![k] = x]
           s == [m.sound EXCEPT !.bank[k] = x, !.next[k] = (@ % n) + 1]
           r == [m EXCEPT !.sound = s]
<1>1. CASE m.sound.kept[k] = << >>
  <2>1. Len(m.sound.kept[k]) = 0 BY <1>1
  <2> QED BY <2>1 DEF Rotated
<1>2. CASE m.sound.kept[k] # << >>
  <2>1. m.sound \in [own : [Plain -> Nat], kept : [Varied -> {<< >>} \union [1 .. Variants -> Nat]],
                     bank : [SoundKinds -> Nat], next : [Varied -> 1 .. Variants]]
    BY DEF Good, MemTyped
  <2>2. m.sound.kept[k] \in [1 .. Variants -> Nat] /\ m.sound.next[k] \in 1 .. Variants
    BY <1>2, <2>1
  <2>3. n = Variants /\ Variants \in Nat \ {0} BY <2>2, EngineAssumption
  <2>4. r = Rotated(m, k) BY <2>3 DEF Rotated
  <2>5. x \in Nat /\ x \in SoundOwned(m)
    <3>1. m.sound.next[k] \in DOMAIN m.sound.kept[k] BY <2>2
    <3>2. MemTyped(m) BY DEF Good
    <3> QED BY <2>2, <3>1, <3>2, SoundOwnedIs
  <2> HIDE DEF x
  <2>6. (m.sound.next[k] % n) + 1 \in 1 .. Variants
    <3>1. m.sound.next[k] % Variants \in 0 .. (Variants - 1) BY <2>2, <2>3
    <3> QED BY <3>1, <2>3
  <2> HIDE DEF n
  <2>7. next \in [Varied -> 1 .. Variants] BY <2>1, <2>6
  <2>8. bank \in [SoundKinds -> Nat] BY <2>1, <2>5
  <2>9. /\ Whole(r) /\ r.heap = m.heap /\ r.eng = m.eng /\ r.slot = m.slot /\ r.music = m.music
        /\ r.stage = m.stage
        /\ r.sound = s
    <3> HIDE DEF s
    <3> QED BY DEF Good, Whole, MemFields
  <2> HIDE DEF r
  <2>10. r.sound.own = m.sound.own /\ r.sound.kept = m.sound.kept /\ r.sound.bank = bank /\ r.sound.next = next
    BY <2>1, <2>9
  <2>11. r.sound \in [own : [Plain -> Nat], kept : [Varied -> {<< >>} \union [1 .. Variants -> Nat]],
                      bank : [SoundKinds -> Nat], next : [Varied -> 1 .. Variants]]
    <3> DEFINE e == [m.sound EXCEPT !.bank = bank, !.next = next]
    <3>1. e \in [own : [Plain -> Nat], kept : [Varied -> {<< >>} \union [1 .. Variants -> Nat]],
                 bank : [SoundKinds -> Nat], next : [Varied -> 1 .. Variants]]
      <4> HIDE DEF bank, next
      <4> QED BY <2>1, <2>7, <2>8
    <3>2. r.sound = e BY <2>1, <2>9
    <3> QED BY <3>1, <3>2
  <2>12. MemTyped(r) BY <2>9, <2>11 DEF Good, MemTyped
  <2>13. SoundOwned(r) = SoundOwned(m) BY <2>10 DEF SoundOwned
  <2>14. OfLevel(r) = OfLevel(m) /\ OfRest(r) = OfRest(m) BY <2>9, <2>13 DEF OfLevel, OfRest
  <2>15. \A j \in SoundKinds : {r.sound.bank[j], r.slot[j].pcm} \subseteq {0} \union SoundOwned(r)
    <3>1. \A j \in SoundKinds : r.sound.bank[j] \in {m.sound.bank[j], x} BY <2>1, <2>10
    <3> QED BY <2>5, <2>9, <2>13, <3>1 DEF Good
  <2>16. Good(r) BY <2>9, <2>12, <2>13, <2>14, <2>15 DEF Good
  <2> QED BY <2>4, <2>16
<1> QED BY <1>1, <1>2

LEMMA QueuedIs ==
  ASSUME NEW m, Good(m), NEW k \in SoundKinds
  PROVE  Good(Queued(m, k))
<1> DEFINE e == [left |-> Frames, bank |-> m.sound.bank[k] # 0,
                 pcm |-> IF k \in Varied THEN m.sound.bank[k] ELSE 0]
           r == Queued(m, k)
<1>1. /\ Whole(r) /\ r.heap = m.heap /\ r.eng = m.eng /\ r.sound = m.sound /\ r.music = m.music
      /\ r.stage = m.stage /\ r.slot = [m.slot EXCEPT ![k] = e]
  BY DEF Queued, Good, Whole, MemFields
<1> HIDE DEF r
<1>2. m.slot \in [SoundKinds -> [left : 0 .. Frames, pcm : Nat, bank : BOOLEAN]]
      /\ m.sound.bank[k] \in Nat
  BY DEF Good, MemTyped
<1>3. e \in [left : 0 .. Frames, pcm : Nat, bank : BOOLEAN] BY <1>2, EngineAssumption
<1>4. e.pcm \in {0, m.sound.bank[k]} OBVIOUS
<1> HIDE DEF e
<1>5. MemTyped(r)
  <2>1. r.slot \in [SoundKinds -> [left : 0 .. Frames, pcm : Nat, bank : BOOLEAN]] BY <1>1, <1>2, <1>3
  <2>2. MemTyped(m) BY DEF Good
  <2> QED BY <1>1, <2>1, <2>2 DEF MemTyped
<1>6. SoundOwned(r) = SoundOwned(m) BY <1>1 DEF SoundOwned
<1>7. OfLevel(r) = OfLevel(m) /\ OfRest(r) = OfRest(m) BY <1>1, <1>6 DEF OfLevel, OfRest
<1>8. \A j \in SoundKinds : {r.sound.bank[j], r.slot[j].pcm} \subseteq {0} \union SoundOwned(r)
  <2> SUFFICES ASSUME NEW j \in SoundKinds
               PROVE  {r.sound.bank[j], r.slot[j].pcm} \subseteq {0} \union SoundOwned(r)
    OBVIOUS
  <2>1. r.slot[j] = m.slot[j] \/ r.slot[j].pcm \in {0, m.sound.bank[k]} BY <1>1, <1>2, <1>4
  <2>2. {m.sound.bank[j], m.slot[j].pcm, m.sound.bank[k]} \subseteq {0} \union SoundOwned(m) BY DEF Good
  <2> QED BY <2>1, <2>2, <1>1, <1>6
<1>9. Good(r) BY <1>1, <1>5, <1>6, <1>7, <1>8 DEF Good
<1> QED BY <1>9 DEF r

-------------------------------------------------------------------------------
(* The variables are the memory.                                           *)
MemoryInv == Good(Now)

LEMMA BecomesGood ==
  ASSUME NEW m, Good(m), Becomes(m)
  PROVE  MemoryInv'
<1>1. m.heap \ {0} = m.heap BY DEF Good, MemTyped
<1>2. m = [heap |-> m.heap, eng |-> m.eng, sound |-> m.sound, slot |-> m.slot, music |-> m.music, stage |-> m.stage]
  <2> DEFINE w == [heap |-> m.heap, eng |-> m.eng, sound |-> m.sound, slot |-> m.slot, music |-> m.music, stage |-> m.stage]
  <2>1. Whole(w) BY DEF Whole, MemFields
  <2>2. w.heap = m.heap /\ w.eng = m.eng /\ w.sound = m.sound /\ w.slot = m.slot /\ w.music = m.music /\ w.stage = m.stage
    OBVIOUS
  <2> HIDE DEF w
  <2>3. m = w BY <2>1, <2>2, SameIsSame DEF Good
  <2> QED BY <2>3 DEF w
<1>3. Now' = m BY <1>1, <1>2 DEF Now, Becomes
<1> QED BY <1>3 DEF MemoryInv

LEMMA AudioCbIs == ASSUME MemoryInv, AudioCb PROVE MemoryInv'
<1> DEFINE m == Now
           r == Now'
<1>1. /\ m.heap = heap /\ m.eng = eng /\ m.sound = sound /\ m.slot = slot /\ m.music = music /\ m.stage = stage
      /\ r.heap = heap' /\ r.eng = eng' /\ r.sound = sound' /\ r.slot = slot' /\ r.music = music' /\ r.stage = stage'
      /\ Whole(r)
  BY DEF Now, Whole, MemFields
<1>2. Good(m) BY DEF MemoryInv
<1> HIDE DEF m, r
<1>3. PICK v \in {music.inst, music.voice, 0} : music' = [music EXCEPT !.voice = v]
  BY DEF AudioCb
<1>4. /\ slot' = [k \in SoundKinds |-> [slot[k] EXCEPT !.left = IF @ > 0 THEN @ - 1 ELSE 0]]
      /\ heap' = heap /\ eng' = eng /\ sound' = sound /\ stage' = stage
  BY DEF AudioCb
<1>5. music \in [song : Nat, on : BOOLEAN, wave : Nat, inst : Nat, voice : Nat]
  BY <1>1, <1>2 DEF Good, MemTyped
<1>6. slot \in [SoundKinds -> [left : 0 .. Frames, pcm : Nat, bank : BOOLEAN]]
  BY <1>1, <1>2 DEF Good, MemTyped
<1>7. /\ music' \in [song : Nat, on : BOOLEAN, wave : Nat, inst : Nat, voice : Nat]
      /\ music'.song = music.song /\ music'.wave = music.wave /\ music'.inst = music.inst /\ music'.voice = v
  BY <1>3, <1>5
<1>8. /\ slot' \in [SoundKinds -> [left : 0 .. Frames, pcm : Nat, bank : BOOLEAN]]
      /\ \A k \in SoundKinds : slot'[k].pcm = slot[k].pcm
  <2>1. \A k \in SoundKinds : /\ slot'[k] \in [left : 0 .. Frames, pcm : Nat, bank : BOOLEAN]
                              /\ slot'[k].pcm = slot[k].pcm
    <3> SUFFICES ASSUME NEW k \in SoundKinds
                 PROVE  /\ slot'[k] \in [left : 0 .. Frames, pcm : Nat, bank : BOOLEAN]
                        /\ slot'[k].pcm = slot[k].pcm
      OBVIOUS
    <3>1. slot[k] \in [left : 0 .. Frames, pcm : Nat, bank : BOOLEAN] BY <1>6
    <3>2. slot'[k] = [slot[k] EXCEPT !.left = IF slot[k].left > 0 THEN slot[k].left - 1 ELSE 0] BY <1>4
    <3>3. (IF slot[k].left > 0 THEN slot[k].left - 1 ELSE 0) \in 0 .. Frames BY <3>1, EngineAssumption
    <3> QED BY <3>1, <3>2, <3>3
  <2> QED BY <2>1, <1>4
<1>9. MemTyped(r) BY <1>1, <1>2, <1>4, <1>7, <1>8 DEF Good, MemTyped
<1>10. SoundOwned(r) = SoundOwned(m) BY <1>1, <1>4 DEF SoundOwned
<1>11. OfLevel(r) = OfLevel(m) /\ OfRest(r) = OfRest(m) BY <1>1, <1>4, <1>7, <1>10 DEF OfLevel, OfRest
<1>12. r.music.inst \in {0, r.music.wave} /\ r.music.voice \in {0, r.music.wave}
  BY <1>1, <1>2, <1>7 DEF Good
<1>13. \A k \in SoundKinds : {r.sound.bank[k], r.slot[k].pcm} \subseteq {0} \union SoundOwned(r)
  BY <1>1, <1>2, <1>4, <1>8, <1>10 DEF Good
<1>14. Good(r) BY <1>1, <1>2, <1>4, <1>9, <1>11, <1>12, <1>13 DEF Good
<1> QED BY <1>14 DEF MemoryInv, r

LEMMA MemoryInvHolds == EngineSpec => []MemoryInv
<1>1. EngineInit => MemoryInv
  <2> SUFFICES ASSUME EngineInit PROVE MemoryInv OBVIOUS
  <2> DEFINE m == Now
  <2>1. /\ Whole(m) /\ m.heap = {} /\ m.eng = Off /\ m.sound = NoSound /\ m.slot = Quiet
        /\ m.music = NoMusic /\ m.stage = NoLevel
    BY DEF Now, EngineInit, Whole, MemFields, Off, Quiet
  <2> HIDE DEF m
  <2>2. m.heap = {0} \ {0} BY <2>1
  <2>3. Bare(m, 0) BY <2>1, <2>2 DEF Bare, Off
  <2>4. Good(m) BY <2>3, BareIsGood
  <2> QED BY <2>4 DEF MemoryInv, m
<1>2. MemoryInv /\ [EngineNext]_memoryVars => MemoryInv'
  <2> SUFFICES ASSUME MemoryInv, [EngineNext]_memoryVars PROVE MemoryInv' OBVIOUS
  <2>0. Good(Now) BY DEF MemoryInv
  <2>1. CASE BootApi
    <3>1. PICK song, instruments \in BOOLEAN, kinds \in SUBSET SoundKinds :
            Becomes(ApiInit(Now, "nothing", kinds, song, instruments))
      BY <2>1 DEF BootApi
    <3> QED BY <2>0, <3>1, InitIs, BecomesGood
  <2>2. CASE FailedBootApi
    <3>1. PICK wrong \in {"args", "oom", "pack", "hash", "g1"} : Becomes(ApiInit(Now, wrong, {}, FALSE, FALSE))
      BY <2>2 DEF FailedBootApi
    <3>2. {} \in SUBSET SoundKinds /\ FALSE \in BOOLEAN OBVIOUS
    <3>3. Good(ApiInit(Now, wrong, {}, FALSE, FALSE)) BY <2>0, <3>2, InitIs
    <3> QED BY <3>1, <3>3, BecomesGood
  <2>3. CASE Shutdown
    <3> DEFINE r == ApiShutdown(Now)
    <3>1. /\ Whole(r) /\ r.heap = Now.heap \ Owned(Now) /\ r.eng = Off /\ r.sound = NoSound
          /\ r.slot = Quiet /\ r.music = NoMusic /\ r.stage = NoLevel
      BY <2>0, ShutdownIs DEF Good
    <3> HIDE DEF r
    <3>2. Now.heap = Owned(Now) \ {0} BY <2>0, GoodIsAccounted
    <3>3. r.heap = {0} \ {0} BY <3>1, <3>2
    <3>4. Bare(r, 0) BY <3>1, <3>3 DEF Bare, Off
    <3>5. Good(r) BY <3>4, BareIsGood
    <3>6. Becomes(r) BY <2>3 DEF Shutdown, r
    <3> QED BY <3>5, <3>6, BecomesGood
  <2>4. CASE LoadStage
    <3>1. PICK wrong \in {"no bg", "no stan", "bad header", "bad room 1", "nothing"} : Becomes(LevelLoad(Now, wrong))
      BY <2>4 DEF LoadStage
    <3> QED BY <2>0, <3>1, LevelLoadIs, BecomesGood
  <2>5. ASSUME NEW k \in SoundKinds, Play(k) PROVE MemoryInv'
    <3>1. Good(IF k \in Varied THEN Rotated(Now, k) ELSE Now) BY <2>0, RotatedIs
    <3> QED BY <2>5, <3>1, QueuedIs, BecomesGood DEF Play
  <2>6. CASE AudioCb BY <2>6, AudioCbIs
  <2>7. CASE UNCHANGED memoryVars BY <2>7 DEF memoryVars, MemoryInv, Now
  <2> QED BY <2>1, <2>2, <2>3, <2>4, <2>5, <2>6, <2>7 DEF EngineNext
<1> QED BY <1>1, <1>2, PTL DEF EngineSpec

(* The types of the memory's variables, and that an engine that says it is  *)
(* ready reads an opened pack.                                              *)
THEOREM MemoryTypes == EngineSpec => []EngineTypeOK
<1>1. MemoryInv => EngineTypeOK
  <2> SUFFICES ASSUME MemoryInv PROVE EngineTypeOK OBVIOUS
  <2>1. Good(Now) /\ Now.heap = heap /\ Now.slot = slot /\ Now.eng = eng BY DEF MemoryInv, Now
  <2> QED BY <2>1 DEF Good, MemTyped, EngineTypeOK
<1> QED BY <1>1, MemoryInvHolds, PTL

(* Nothing that is mixed, drawn or played next was freed, and nothing that  *)
(* is in use is without an owner: whichever sounds play while packs, songs  *)
(* and stages are loaded, and at whichever step a load fails (port_api.c,   *)
(* bank.c, mixer.c, stage.c).                                               *)
THEOREM MemoryAccounted == EngineSpec => []Accounted
<1>1. MemoryInv => Accounted
  <2> SUFFICES ASSUME MemoryInv PROVE Accounted OBVIOUS
  <2>1. Good(Now) /\ Now.heap = heap BY DEF MemoryInv, Now
  <2>2. /\ Heard(Now) \union DrawnFrom(Now) \union Looked(Now) \subseteq heap \union {0}
        /\ heap = Owned(Now) \ {0}
    BY <2>1, GoodIsAccounted
  <2> QED BY <2>2 DEF Accounted, NoFreed, NoLeak
<1> QED BY <1>1, MemoryInvHolds, PTL

-------------------------------------------------------------------------------
(* How a song sounds.                                                      *)

(* A set of natural numbers has a least one.                               *)
LEMMA NatMin == ASSUME NEW S \in SUBSET Nat, S # {} PROVE \E m \in S : \A x \in S : m <= x
<1> DEFINE R == OpToRel(<, Nat)
<1>1. IsWellFoundedOn(R, Nat) BY NatLessThanWellFounded
<1>2. \E m \in S : \A y \in S : ~ (<<y, m>> \in R)
  <2> HIDE DEF R
  <2> QED BY <1>1, WFMin
<1>3. \A x, y \in Nat : <<x, y>> \in R <=> x < y BY DEF OpToRel
<1> HIDE DEF R
<1> PICK m \in S : \A y \in S : ~ (<<y, m>> \in R) BY <1>2
<1>4. \A y \in S : m <= y
  <2> TAKE y \in S
  <2>1. ~ (<<y, m>> \in R) OBVIOUS
  <2>2. y \in Nat /\ m \in Nat OBVIOUS
  <2> QED BY <2>1, <2>2, <1>3
<1> QED BY <1>4

(* Min() of natural numbers, and Max() of two numbers.                     *)
LEMMA MinOfNats ==
  ASSUME NEW S \in SUBSET Nat, S # {}
  PROVE  Min(S) \in S /\ \A x \in S : Min(S) <= x
BY NatMin DEF Min

LEMMA MaxOfTwo ==
  ASSUME NEW a \in Int, NEW b \in Int PROVE Max({a, b}) = IF a <= b THEN b ELSE a
<1>1. \E x \in {a, b} : \A y \in {a, b} : x >= y OBVIOUS
<1>. QED  BY <1>1 DEF Max

(* A number from its quotient and its remainder, and back.                 *)
LEMMA Divided ==
  ASSUME NEW n \in Nat, NEW d \in Nat \ {0}
  PROVE  /\ n \div d \in Nat /\ n % d \in 0 .. d - 1
         /\ n = d * (n \div d) + (n % d)
OBVIOUS

LEMMA QuotientIs ==
  ASSUME NEW d \in Nat \ {0}, NEW q \in Int, NEW r \in 0 .. d - 1, d * q + r \in Nat
  PROVE  (d * q + r) \div d = q
<1>. DEFINE n == d * q + r
            p == n \div d
            u == n % d
<1>1. p \in Nat /\ u \in 0 .. d - 1 /\ n = d * p + u
  BY Divided
<1>. HIDE DEF p, u
<1>2. d * (p - q) = r - u
  BY <1>1
<1>3. CASE p > q
  <2>1. p - q >= 1 /\ p - q \in Int
    BY <1>1, <1>3
  <2>2. \A k \in Int : k >= 1 => d * k >= d
    OBVIOUS
  <2>. QED  BY <1>1, <1>2, <2>1, <2>2
<1>4. CASE p < q
  <2>1. q - p >= 1 /\ q - p \in Int /\ d * (q - p) = u - r
    BY <1>1, <1>2, <1>4
  <2>2. \A k \in Int : k >= 1 => d * k >= d
    OBVIOUS
  <2>. QED  BY <1>1, <2>1, <2>2
<1>. QED  BY <1>1, <1>3, <1>4 DEF p

(* The states of voices, walkers and moments. *)
VoiceStates ==
  [alive : BOOLEAN, left : Nat, note : Nat, ch : Nat,
   phase : {"none", "attack", "decay", "sustain", "release"}, env : Nat, pos : Nat]
VoiceOK(v) ==
  /\ v \in VoiceStates
  /\ v.alive => v.ch \in Tracks
  /\ v.alive /\ v.left = 0 => v.phase = "release"

LEMMA HushedOK == VoiceOK(Hushed)
BY DEF VoiceOK, VoiceStates, Hushed

LEMMA LetGoOK ==
  ASSUME NEW v \in VoiceStates, v.alive, v.ch \in Tracks
  PROVE  VoiceOK(LetGo(v))
<1>1. Timbre[v.ch].rel \in Nat
  BY MusicAssumption
<1>. QED  BY <1>1, HushedOK DEF LetGo, VoiceOK, VoiceStates

LEMMA EnvStarts ==
  ASSUME NEW v \in VoiceStates, v.ch \in Tracks
  PROVE  LET a == EnvAttack(v)
             d == EnvDecay(v)
         IN  /\ a \in VoiceStates /\ a.alive = v.alive /\ a.left = v.left /\ a.ch = v.ch
             /\ d \in VoiceStates /\ d.alive = v.alive /\ d.left = v.left /\ d.ch = v.ch
<1>1. Timbre[v.ch].atk \in Nat /\ Timbre[v.ch].dec \in Int
  BY MusicAssumption
<1>. DEFINE Same(w) == w \in VoiceStates /\ w.alive = v.alive /\ w.left = v.left /\ w.ch = v.ch
<1>2. ASSUME NEW p \in {"attack", "sustain", "decay"}, NEW n \in Nat
      PROVE  Same([v EXCEPT !.phase = p, !.env = n])
  BY <1>2 DEF VoiceStates
<1>3. Same(EnvDecay(v))
  <2>1. CASE Timbre[v.ch].dec < 0
    BY <1>2, <2>1 DEF EnvDecay, EnvSustain
  <2>2. CASE ~(Timbre[v.ch].dec < 0)
    <3>1. Timbre[v.ch].dec \in Nat
      BY <1>1, <2>2
    <3>. QED  BY <1>2, <2>2, <3>1 DEF EnvDecay
  <2>. QED  BY <2>1, <2>2
<1>4. Same(EnvAttack(v))
  <2>1. CASE Timbre[v.ch].atk = 0
    BY <1>3, <2>1 DEF EnvAttack
  <2>2. CASE Timbre[v.ch].atk # 0
    BY <1>1, <1>2, <2>2 DEF EnvAttack
  <2>. QED  BY <2>1, <2>2
<1>. QED  BY <1>3, <1>4

LEMMA EnvStepOK ==
  ASSUME NEW v \in VoiceStates, v.ch \in Tracks
  PROVE  LET w == EnvStep(v)
         IN  /\ w \in VoiceStates /\ w.alive = v.alive /\ w.left = v.left /\ w.ch = v.ch
             /\ v.phase = "release" => w.phase = "release"
<1>. DEFINE w == [v EXCEPT !.env = Max({@ - 1, 0})]
<1>1. v.env \in Nat /\ Max({v.env - 1, 0}) \in Nat
  BY MaxOfTwo DEF VoiceStates
<1>2. w \in VoiceStates /\ w.alive = v.alive /\ w.left = v.left /\ w.ch = v.ch /\ w.phase = v.phase
  BY <1>1 DEF VoiceStates
<1>. HIDE DEF w
<1>3. /\ EnvDecay(w) \in VoiceStates /\ EnvDecay(w).alive = v.alive
      /\ EnvDecay(w).left = v.left /\ EnvDecay(w).ch = v.ch
  BY <1>2, EnvStarts
<1>4. /\ EnvSustain(w) \in VoiceStates /\ EnvSustain(w).alive = v.alive
      /\ EnvSustain(w).left = v.left /\ EnvSustain(w).ch = v.ch
  BY <1>2 DEF EnvSustain, VoiceStates
<1>5. EnvStep(v) = v \/ EnvStep(v) = w \/ (v.phase # "release" /\ EnvStep(v) \in {EnvDecay(w), EnvSustain(w)})
  BY DEF EnvStep, w
<1>. QED  BY <1>2, <1>3, <1>4, <1>5

(* What one sample makes of a voice: its time runs out into its release. *)
LEMMA PlayedOK == ASSUME NEW v, VoiceOK(v) PROVE VoiceOK(Played(v))
<1>1. CASE ~v.alive
  BY <1>1, HushedOK DEF Played
<1>2. CASE v.alive
  <2>. DEFINE l == Timbre[v.ch].len
              x == [v EXCEPT !.pos = IF l = 0 THEN 0 ELSE @ + 1]
              w == EnvStep(x)
  <2>1. l \in Nat /\ v \in VoiceStates /\ v.ch \in Tracks
    BY <1>2, MusicAssumption DEF VoiceOK
  <2>2. x \in VoiceStates /\ x.alive /\ x.left = v.left /\ x.ch = v.ch /\ x.phase = v.phase
    BY <1>2, <2>1 DEF VoiceStates
  <2>3. /\ w \in VoiceStates /\ w.alive /\ w.left = v.left /\ w.ch = v.ch
        /\ v.phase = "release" => w.phase = "release"
    <3>. HIDE DEF x
    <3>. QED  BY <2>1, <2>2, EnvStepOK
  <2>4. Played(v) = IF l > 0 /\ v.pos >= l THEN Hushed
                    ELSE IF v.left = 1 THEN LetGo([w EXCEPT !.left = 0])
                    ELSE IF v.left > 1 THEN [w EXCEPT !.left = @ - 1]
                    ELSE IF Released(w) THEN Hushed ELSE w
    BY <1>2 DEF Played
  <2>. HIDE DEF x, w, l
  <2>5. v.left = 1 => VoiceOK(LetGo([w EXCEPT !.left = 0]))
    <3>1. [w EXCEPT !.left = 0] \in VoiceStates /\ [w EXCEPT !.left = 0].alive /\ [w EXCEPT !.left = 0].ch = v.ch
      BY <2>3 DEF VoiceStates
    <3>. QED  BY <2>1, <3>1, LetGoOK
  <2>6. v.left > 1 => VoiceOK([w EXCEPT !.left = @ - 1])
    BY <2>1, <2>3 DEF VoiceOK, VoiceStates
  <2>7. v.left = 0 => VoiceOK(w)
    BY <1>2, <2>1, <2>3 DEF VoiceOK
  <2>8. v.left \in Nat
    BY <2>1 DEF VoiceStates
  <2>. QED  BY <2>4, <2>5, <2>6, <2>7, <2>8, HushedOK
<1>. QED  BY <1>1, <1>2 DEF VoiceOK, VoiceStates

(* All voices, and what events make of them. *)
Sounding(vs) == vs \in [Voices -> VoiceStates] /\ \A i \in Voices : VoiceOK(vs[i])

LEMMA NoteOffOK ==
  ASSUME NEW vs, Sounding(vs), NEW note PROVE Sounding(NoteOff(vs, note))
<1>1. \A i \in Voices : VoiceOK(NoteOff(vs, note)[i])
  BY LetGoOK DEF NoteOff, Sounding, VoiceOK
<1>. QED  BY <1>1 DEF Sounding, NoteOff, VoiceOK

LEMMA NoteOnOK ==
  ASSUME NEW vs, Sounding(vs), NEW ch \in Tracks, NEW note \in Nat, NEW dur \in Nat
  PROVE  Sounding(NoteOn(vs, ch, note, dur))
<1>. DEFINE v == [Hushed EXCEPT !.alive = TRUE, !.note = note, !.ch = ch, !.left = Max({dur, 2})]
            u == IF Timbre[ch].env THEN EnvAttack(v) ELSE v
<1>1. Max({dur, 2}) \in Nat /\ Max({dur, 2}) >= 2
  BY MaxOfTwo
<1>2. v \in VoiceStates /\ v.alive /\ v.ch = ch /\ v.left >= 2
  <2>1. ch \in Nat
    BY MusicAssumption
  <2>. QED  BY <1>1, <2>1 DEF VoiceStates, Hushed
<1>. HIDE DEF v
<1>3. VoiceOK(u)
  BY <1>2, EnvStarts DEF VoiceOK
<1>4. NoteOn(vs, ch, note, dur) = [vs EXCEPT ![VoiceFor(vs)] = u]
  BY DEF NoteOn, v
<1>. HIDE DEF u
<1>. QED  BY <1>3, <1>4 DEF Sounding, VoiceOK

(* The states of the walker.  A track's next event is Ahead ticks away.     *)
Moments == [ticks : Nat, time : Nat]
Walks ==
  [on : BOOLEAN, valid : SUBSET Tracks, loc : [Tracks -> Nat], delta : [Tracks -> Nat],
   last : Nat, flag : BOOLEAN, wait : Nat, pending : BOOLEAN, frac : 0 .. Den - 1,
   tempo : Nat, count : [Tracks -> Seq(Nat)], vs : [Voices -> VoiceStates],
   due : [Tracks -> Moments], now : Moments]
InTrack(s) == \A t \in Tracks : s.loc[t] \in 1 .. Len(tune[t]) + 1 /\ Len(s.count[t]) = Len(tune[t])
Ahead(s, t) == IF s.flag THEN s.delta[t] - s.last ELSE s.delta[t]

WalkOK(s) ==
  /\ s \in Walks
  /\ InTrack(s)
  /\ Sounding(s.vs)
  /\ \A t \in s.valid : Ahead(s, t) >= 0

(* The deltas that a track has passed are the ticks of the song.           *)
TracksAgree(s) ==
  \A t \in s.valid :
    s.now.ticks + Ahead(s, t) - (IF s.pending THEN FirstDelta(s) ELSE 0) = s.due[t].ticks + DeltaOf(s, t)

LEMMA DeltasAre ==
  ASSUME NEW s, WalkOK(s)
  PROVE  /\ UpToDate(s) \in [Tracks -> Nat]
         /\ \A t \in s.valid : UpToDate(s)[t] = Ahead(s, t) /\ Ahead(s, t) \in Nat
<1>1. s.valid \subseteq Tracks /\ s.delta \in [Tracks -> Nat] /\ s.last \in Nat /\ s.flag \in BOOLEAN
  BY DEF WalkOK, Walks
<1>2. \A t \in Tracks : s.delta[t] \in Nat /\ s.delta[t] - s.last \in Int
  BY <1>1
<1>3. \A t \in Tracks : Max({0, s.delta[t] - s.last}) = IF 0 <= s.delta[t] - s.last THEN s.delta[t] - s.last ELSE 0
  BY <1>2, MaxOfTwo
<1>. QED  BY <1>1, <1>2, <1>3 DEF UpToDate, Ahead, WalkOK

LEMMA FirstIs ==
  ASSUME NEW s, WalkOK(s), s.valid # {}
  PROVE  /\ FirstDelta(s) \in Nat
         /\ \A t \in s.valid : FirstDelta(s) <= Ahead(s, t)
         /\ {u \in s.valid : UpToDate(s)[u] = FirstDelta(s)} # {}
<1>. DEFINE S == {UpToDate(s)[t] : t \in s.valid}
<1>1. S \in SUBSET Nat /\ S # {}
  BY DeltasAre
<1>2. FirstDelta(s) = Min(S)
  BY DEF FirstDelta
<1>3. Min(S) \in S /\ \A x \in S : Min(S) <= x
  <2>. HIDE DEF S
  <2>. QED  BY <1>1, MinOfNats
<1>. QED  BY <1>1, <1>2, <1>3, DeltasAre

(* An event of the song, and what it says. *)
LEMMA EventIs ==
  ASSUME tune \in Songs, NEW s, s \in Walks, InTrack(s), NEW t \in Tracks
  PROVE  /\ ~AtEnd(s, t) => /\ EventAt(s, t) \in Events /\ EventAt(s, t).back < s.loc[t]
                            /\ s.loc[t] \in 1 .. Len(tune[t])
         /\ DeltaOf(s, t) \in Nat
<1>1. tune[t] \in Seq(Events) /\ \A k \in 1 .. Len(tune[t]) : tune[t][k].back < k
  BY MusicAssumption
<1>2. Len(tune[t]) \in Nat /\ s.loc[t] \in 1 .. Len(tune[t]) + 1
  BY <1>1 DEF InTrack
<1>3. ~AtEnd(s, t) => s.loc[t] \in 1 .. Len(tune[t])
  BY <1>2 DEF AtEnd
<1>4. ~AtEnd(s, t) => EventAt(s, t) \in Events /\ EventAt(s, t).back < s.loc[t]
  BY <1>1, <1>3 DEF EventAt
<1>. QED  BY <1>3, <1>4 DEF DeltaOf, Events

(* What an event leaves alone. *)
Applied(s, t, a) ==
  /\ a \in Walks /\ InTrack(a) /\ Sounding(a.vs)
  /\ a.valid \in {s.valid, s.valid \ {t}}
  /\ \A u \in Tracks \ {t} : a.loc[u] = s.loc[u]
  /\ a.on = s.on /\ a.delta = s.delta /\ a.wait = s.wait /\ a.pending = s.pending
  /\ a.frac = s.frac /\ a.due = s.due /\ a.now = s.now

LEMMA PassedIs ==
  ASSUME tune \in Songs, NEW s, s \in Walks, InTrack(s), Sounding(s.vs), NEW t \in Tracks, ~AtEnd(s, t)
  PROVE  Applied(s, t, Passed(s, t)) /\ Passed(s, t).vs = s.vs /\ Passed(s, t).tempo = s.tempo
           /\ Passed(s, t).count = s.count /\ Passed(s, t).loc = [s.loc EXCEPT ![t] = @ + 1]
<1>. DEFINE a == Passed(s, t)
<1>1. s.loc[t] \in 1 .. Len(tune[t]) /\ s.loc \in [Tracks -> Nat]
  BY EventIs DEF Walks
<1>2. a = [s EXCEPT !.loc = [s.loc EXCEPT ![t] = @ + 1]] /\ [s.loc EXCEPT ![t] = @ + 1] \in [Tracks -> Nat]
  BY <1>1 DEF Passed, Walks
<1>3. a \in Walks /\ a.loc = [s.loc EXCEPT ![t] = @ + 1]
  BY <1>2 DEF Walks
<1>4. Len(tune[t]) \in Nat
  BY MusicAssumption
<1>5. InTrack(a)
  <2>1. a.count = s.count
    BY <1>2 DEF Walks
  <2>. QED  BY <1>1, <1>3, <1>4, <2>1 DEF InTrack
<1>. QED  BY <1>2, <1>3, <1>5 DEF Applied, Walks

LEMMA LoopIs ==
  ASSUME tune \in Songs, NEW s, s \in Walks, InTrack(s), Sounding(s.vs), NEW t \in Tracks, ~AtEnd(s, t)
  PROVE  Applied(s, t, LoopEnd(s, t))
<1>. DEFINE k == s.loc[t]
            e == EventAt(s, t)
            p == Passed(s, t)
<1>1. k \in 1 .. Len(tune[t]) /\ e \in Events /\ e.back < k
  BY EventIs
<1>2. e.arg \in Nat /\ e.back \in Nat /\ k - e.back \in 1 .. Len(tune[t]) /\ Len(tune[t]) \in Nat
  <2>1. Len(tune[t]) \in Nat
    BY MusicAssumption
  <2>2. e.arg \in Nat /\ e.back \in Nat
    BY <1>1 DEF Events
  <2>. HIDE DEF e, k
  <2>. QED  BY <1>1, <2>1, <2>2
<1>3. s.count \in [Tracks -> Seq(Nat)] /\ Len(s.count[t]) = Len(tune[t]) /\ s.count[t] \in Seq(Nat)
      /\ s.count[t][k] \in Nat
  BY <1>1 DEF Walks, InTrack
<1>. HIDE DEF k, e
<1>4. ASSUME NEW n \in Nat
      PROVE  LET c == [s.count EXCEPT ![t][k] = n]
             IN  c \in [Tracks -> Seq(Nat)] /\ \A u \in Tracks : Len(c[u]) = Len(s.count[u])
  <2>. DEFINE q == [s.count[t] EXCEPT ![k] = n]
  <2>1. q \in Seq(Nat) /\ Len(q) = Len(s.count[t])
    BY <1>1, <1>3
  <2>. HIDE DEF q
  <2>2. [s.count EXCEPT ![t][k] = n] = [s.count EXCEPT ![t] = q]
    BY <1>3 DEF q
  <2>. QED  BY <1>3, <2>1, <2>2
<1>5. CASE s.count[t][k] = 0
  <2>. DEFINE c == [s.count EXCEPT ![t][k] = e.arg]
              a == [p EXCEPT !.count = c]
  <2>1. LoopEnd(s, t) = [p EXCEPT !.count[t][k] = e.arg]
    BY <1>5 DEF LoopEnd, k, e
  <2>2. Applied(s, t, p) /\ p.count = s.count /\ p \in Walks
    <3>1. Applied(s, t, p) /\ p.count = s.count
      BY PassedIs
    <3>. QED  BY <3>1 DEF Applied
  <2>3. LoopEnd(s, t) = a
    BY <2>1, <2>2 DEF Walks
  <2>4. c \in [Tracks -> Seq(Nat)] /\ \A u \in Tracks : Len(c[u]) = Len(s.count[u])
    BY <1>2, <1>4
  <2>. HIDE DEF c, p
  <2>5. a \in Walks /\ a.count = c /\ a.loc = p.loc /\ a.vs = p.vs /\ a.valid = p.valid
    BY <2>2, <2>4 DEF Walks
  <2>6. InTrack(a)
    BY <2>2, <2>4, <2>5 DEF InTrack, Applied
  <2>. QED  BY <2>2, <2>3, <2>4, <2>5, <2>6 DEF Applied, Walks
<1>6. CASE s.count[t][k] # 0
  <2>. DEFINE n == s.count[t][k] - 1
              c == [s.count EXCEPT ![t][k] = n]
              l == [s.loc EXCEPT ![t] = k - e.back]
              a == [s EXCEPT !.count = c, !.loc = l]
  <2>1. LoopEnd(s, t) = [s EXCEPT !.count[t][k] = @ - 1, !.loc[t] = k - e.back]
    BY <1>6 DEF LoopEnd, k, e
  <2>2. LoopEnd(s, t) = a
    BY <2>1, <1>3 DEF Walks
  <2>3. c \in [Tracks -> Seq(Nat)] /\ \A u \in Tracks : Len(c[u]) = Len(s.count[u])
    <3>1. n \in Nat
      BY <1>3, <1>6
    <3>. HIDE DEF n
    <3>. QED  BY <3>1, <1>4
  <2>4. l \in [Tracks -> Nat] /\ l[t] = k - e.back /\ \A u \in Tracks \ {t} : l[u] = s.loc[u]
    BY <1>2 DEF Walks
  <2>. HIDE DEF c, l
  <2>5. a \in Walks /\ a.count = c /\ a.loc = l /\ a.vs = s.vs /\ a.valid = s.valid
    BY <2>3, <2>4 DEF Walks
  <2>6. InTrack(a)
    <3>1. a.loc[t] \in 1 .. Len(tune[t]) + 1
      BY <1>2, <2>4, <2>5
    <3>2. \A u \in Tracks : Len(a.count[u]) = Len(tune[u])
      BY <2>3, <2>5 DEF InTrack
    <3>3. \A u \in Tracks \ {t} : a.loc[u] \in 1 .. Len(tune[u]) + 1
      BY <2>4, <2>5 DEF InTrack
    <3>. HIDE DEF a
    <3>. QED  BY <3>1, <3>2, <3>3 DEF InTrack
  <2>. QED  BY <2>2, <2>4, <2>5, <2>6 DEF Applied, Walks
<1>. QED  BY <1>5, <1>6

LEMMA ApplyIs ==
  ASSUME tune \in Songs, NEW s, s \in Walks, InTrack(s), Sounding(s.vs), NEW t \in Tracks
  PROVE  Applied(s, t, Apply(s, t))
<1>1. Applied(s, t, Ended(s, t))
  <2>. DEFINE a == Ended(s, t)
  <2>1. a \in Walks /\ a.loc = s.loc /\ a.count = s.count /\ a.vs = s.vs /\ a.valid = s.valid \ {t}
    BY DEF Ended, Walks
  <2>2. InTrack(a)
    BY <2>1 DEF InTrack
  <2>. QED  BY <2>1, <2>2 DEF Applied, Ended, Walks
<1>2. CASE AtEnd(s, t)
  BY <1>1, <1>2 DEF Apply
<1>3. CASE ~AtEnd(s, t)
  <2>. DEFINE e == EventAt(s, t)
              p == Passed(s, t)
  <2>1. e \in Events
    BY <1>3, EventIs
  <2>2. e.kind \in {"on", "off", "tempo", "loop", "eot"} /\ e.arg \in Nat /\ e.dur \in Nat
    BY <2>1 DEF Events
  <2>3. Applied(s, t, p) /\ p.vs = s.vs /\ p.tempo = s.tempo
    BY <1>3, PassedIs
  <2>4. p \in Walks
    BY <2>3 DEF Applied
  <2>. HIDE DEF e, p
  <2>5. ASSUME NEW n \in Nat PROVE Applied(s, t, [p EXCEPT !.tempo = n])
    <3>. DEFINE a == [p EXCEPT !.tempo = n]
    <3>1. a \in Walks /\ a.loc = p.loc /\ a.count = p.count /\ a.vs = p.vs
      BY <2>4 DEF Walks
    <3>2. InTrack(a)
      BY <2>3, <3>1 DEF InTrack, Applied
    <3>. QED  BY <2>3, <2>4, <3>1, <3>2 DEF Applied, Walks
  <2>6. ASSUME NEW vs, Sounding(vs) PROVE Applied(s, t, [p EXCEPT !.vs = vs])
    <3>. DEFINE a == [p EXCEPT !.vs = vs]
    <3>1. a \in Walks /\ a.loc = p.loc /\ a.count = p.count /\ a.vs = vs
      BY <2>4, <2>6 DEF Walks, Sounding
    <3>2. InTrack(a)
      BY <2>3, <3>1 DEF InTrack, Applied
    <3>. QED  BY <2>3, <2>4, <2>6, <3>1, <3>2 DEF Applied, Walks
  <2>7. Apply(s, t) =
          CASE e.kind = "eot" -> Ended(s, t)
            [] e.kind = "loop" -> LoopEnd(s, t)
            [] e.kind = "tempo" -> [p EXCEPT !.tempo = IF e.arg = 0 THEN @ ELSE e.arg]
            [] e.kind = "on" -> [p EXCEPT !.vs = NoteOn(@, t, e.arg, e.dur)]
            [] e.kind = "off" -> [p EXCEPT !.vs = NoteOff(@, e.arg)]
    BY <1>3 DEF Apply, e, p
  <2>8. CASE e.kind = "eot"
    BY <1>1, <2>7, <2>8
  <2>9. CASE e.kind = "loop"
    <3>1. Apply(s, t) = LoopEnd(s, t)
      BY <2>7, <2>9
    <3>. QED  BY <1>3, <3>1, LoopIs
  <2>10. CASE e.kind = "tempo"
    <3>. PICK n : n = IF e.arg = 0 THEN p.tempo ELSE e.arg
      OBVIOUS
    <3>1. n \in Nat
      BY <2>2, <2>4 DEF Walks
    <3>2. Apply(s, t) = [p EXCEPT !.tempo = n]
      BY <2>4, <2>7, <2>10 DEF Walks
    <3>. QED  BY <2>5, <3>1, <3>2
  <2>11. CASE e.kind = "on"
    <3>1. Apply(s, t) = [p EXCEPT !.vs = NoteOn(p.vs, t, e.arg, e.dur)]
      BY <2>4, <2>7, <2>11 DEF Walks
    <3>2. Sounding(NoteOn(p.vs, t, e.arg, e.dur))
      BY <2>2, <2>3, NoteOnOK
    <3>. QED  BY <2>6, <3>1, <3>2
  <2>12. CASE e.kind = "off"
    <3>1. Apply(s, t) = [p EXCEPT !.vs = NoteOff(p.vs, e.arg)]
      BY <2>4, <2>7, <2>12 DEF Walks
    <3>2. Sounding(NoteOff(p.vs, e.arg))
      BY <2>3, NoteOffOK
    <3>. QED  BY <2>6, <3>1, <3>2
  <2>. QED  BY <2>2, <2>8, <2>9, <2>10, <2>11, <2>12
<1>. QED  BY <1>2, <1>3

(* The walker's relations do not look at all of its fields.                *)
LEMMA DeltaAlike ==
  ASSUME NEW s, NEW r, NEW t, r.loc[t] = s.loc[t]
  PROVE  DeltaOf(r, t) = DeltaOf(s, t)
BY DEF DeltaOf, AtEnd, EventAt

LEMMA FirstAlike ==
  ASSUME NEW s, NEW r, r.valid = s.valid, r.delta = s.delta, r.flag = s.flag, r.last = s.last
  PROVE  FirstDelta(r) = FirstDelta(s) /\ \A t : Ahead(r, t) = Ahead(s, t)
<1>1. UpToDate(r) = UpToDate(s)
  BY DEF UpToDate
<1>. QED  BY <1>1 DEF FirstDelta, Ahead

(* The next event, once the walker has waited for it or when none is        *)
(* needed.                                                                  *)
LEMMA NextEventIs ==
  ASSUME tune \in Songs, NEW s, WalkOK(s), TracksAgree(s), s.valid # {}, s.pending \/ FirstDelta(s) = 0
  PROVE  LET e == [NextEvent(s) EXCEPT !.pending = FALSE]
         IN  /\ WalkOK(e) /\ TracksAgree(e) /\ ~e.pending
             /\ e.on = s.on /\ e.wait = s.wait /\ e.frac = s.frac /\ e.now = s.now
             /\ ~s.pending => e = NextEvent(s)
<1>. DEFINE d == UpToDate(s)
            t == Min({u \in s.valid : d[u] = FirstDelta(s)})
            r == [s EXCEPT !.delta = d]
            a == Apply(r, t)
            n == d[t] + DeltaOf(a, t)
            l == IF t \in a.valid THEN [d EXCEPT ![t] = n] ELSE d
            m == [s.due EXCEPT ![t] = s.now]
            e == [NextEvent(s) EXCEPT !.pending = FALSE]
<1>1. s \in Walks /\ InTrack(s) /\ Sounding(s.vs)
  BY DEF WalkOK
<1>2. d \in [Tracks -> Nat] /\ \A u \in s.valid : d[u] = Ahead(s, u) /\ Ahead(s, u) \in Nat
  BY DeltasAre
<1>3. t \in s.valid /\ t \in Tracks /\ d[t] = FirstDelta(s)
  <2>. DEFINE S == {u \in s.valid : d[u] = FirstDelta(s)}
  <2>1. S # {}
    BY FirstIs
  <2>2. S \in SUBSET Nat
    BY <1>1, MusicAssumption DEF Walks
  <2>3. t \in S
    <3>. HIDE DEF S
    <3>1. Min(S) \in S
      BY <2>1, <2>2, MinOfNats
    <3>. QED  BY <3>1 DEF S
  <2>. QED  BY <2>3, <1>1 DEF Walks
<1>4. \A u \in s.valid : d[t] <= d[u]
  BY <1>2, <1>3, FirstIs
<1>. HIDE DEF d, t
<1>5. r \in Walks /\ r.loc = s.loc /\ r.valid = s.valid /\ r.count = s.count /\ r.vs = s.vs /\ r.delta = d
      /\ r.on = s.on /\ r.wait = s.wait /\ r.pending = s.pending /\ r.frac = s.frac /\ r.due = s.due /\ r.now = s.now
  BY <1>1, <1>2 DEF Walks
<1>6. InTrack(r)
  BY <1>1, <1>5 DEF InTrack
<1>. HIDE DEF r
<1>7. Applied(r, t, a)
  BY <1>1, <1>3, <1>5, <1>6, ApplyIs
<1>. HIDE DEF a
<1>8. a \in Walks /\ InTrack(a) /\ Sounding(a.vs) /\ a.delta = d /\ a.due = s.due
  BY <1>5, <1>7 DEF Applied
<1>9. DeltaOf(a, t) \in Nat /\ n \in Nat
  BY <1>2, <1>3, <1>8, EventIs
<1>10. l \in [Tracks -> Nat] /\ m \in [Tracks -> Moments]
  BY <1>1, <1>2, <1>9 DEF Walks
<1>11. NextEvent(s) = [a EXCEPT !.last = d[t], !.flag = TRUE, !.due = m, !.delta = l]
  <2>1. NextEvent(s) = [a EXCEPT !.last = d[t], !.flag = TRUE, !.due[t] = s.now,
                                 !.delta[t] = IF t \in a.valid THEN @ + DeltaOf(a, t) ELSE @]
    BY DEF NextEvent, d, t, r, a
  <2>2. d = [d EXCEPT ![t] = d[t]]
    BY <1>2
  <2>. QED  BY <1>2, <1>3, <1>8, <2>1, <2>2 DEF Walks
<1>. HIDE DEF l, m
<1>12. /\ e \in Walks /\ e.last = d[t] /\ e.flag /\ e.due = m /\ e.delta = l /\ e.loc = a.loc
       /\ e.vs = a.vs /\ e.count = a.count /\ e.valid = a.valid /\ ~e.pending
       /\ e.on = a.on /\ e.wait = a.wait /\ e.frac = a.frac /\ e.now = a.now
  <2>1. d[t] \in Nat
    BY <1>2, <1>3
  <2>. QED  BY <1>8, <1>10, <1>11, <2>1 DEF Walks
<1>13. ~s.pending => e = NextEvent(s)
  <2>1. a.pending = s.pending
    BY <1>5, <1>7 DEF Applied
  <2>2. d[t] \in Nat
    BY <1>2, <1>3
  <2>3. NextEvent(s) \in Walks /\ NextEvent(s).pending = s.pending
    BY <1>8, <1>10, <1>11, <2>1, <2>2 DEF Walks
  <2>4. ASSUME NEW x \in Walks, ~x.pending PROVE [x EXCEPT !.pending = FALSE] = x
    BY <2>4 DEF Walks
  <2>. QED  BY <2>3, <2>4
<1>. HIDE DEF e
<1>14. e.on = s.on /\ e.wait = s.wait /\ e.frac = s.frac /\ e.now = s.now
  BY <1>5, <1>7, <1>12 DEF Applied
<1>15. InTrack(e)
  BY <1>8, <1>12 DEF InTrack
<1>16. \A u \in e.valid : u \in s.valid /\ u \in Tracks
  BY <1>1, <1>5, <1>7, <1>12 DEF Applied, Walks
<1>17. ASSUME NEW u \in e.valid
       PROVE  /\ Ahead(e, u) = IF u = t THEN DeltaOf(a, t) ELSE d[u] - d[t]
              /\ Ahead(e, u) >= 0
  <2>1. u \in s.valid /\ u \in Tracks /\ d[u] \in Nat /\ d[t] \in Nat /\ d[t] <= d[u]
    BY <1>2, <1>3, <1>4, <1>16
  <2>2. l[u] = IF u = t THEN n ELSE d[u]
    BY <1>2, <1>12, <2>1 DEF l
  <2>. QED  BY <1>9, <1>12, <2>1, <2>2 DEF Ahead
<1>18. WalkOK(e)
  BY <1>8, <1>12, <1>15, <1>17 DEF WalkOK
<1>19. TracksAgree(e)
  <2>. SUFFICES ASSUME NEW u \in e.valid
                PROVE  e.now.ticks + Ahead(e, u) - 0 = e.due[u].ticks + DeltaOf(e, u)
    BY <1>12 DEF TracksAgree
  <2>1. s.now \in Moments /\ s.now.ticks \in Nat
    BY <1>1 DEF Walks, Moments
  <2>2. CASE u = t
    <3>1. e.due[u] = s.now
      BY <1>1, <1>3, <1>12, <2>2 DEF m, Walks
    <3>2. DeltaOf(e, u) = DeltaOf(a, t)
      BY <1>12, <2>2, DeltaAlike
    <3>. QED  BY <1>9, <1>14, <1>17, <2>1, <2>2, <3>1, <3>2
  <2>3. CASE u # t
    <3>1. u \in s.valid /\ u \in Tracks
      BY <1>16
    <3>2. e.due[u] = s.due[u] /\ s.due[u].ticks \in Nat
      BY <1>1, <1>12, <2>3, <3>1 DEF m, Walks, Moments
    <3>3. e.loc[u] = s.loc[u]
      BY <1>5, <1>7, <1>12, <2>3, <3>1 DEF Applied
    <3>4. DeltaOf(e, u) = DeltaOf(s, u) /\ DeltaOf(s, u) \in Nat
      BY <1>1, <3>1, <3>3, DeltaAlike, EventIs
    <3>5. s.now.ticks + Ahead(s, u) - (IF s.pending THEN FirstDelta(s) ELSE 0) = s.due[u].ticks + DeltaOf(s, u)
      BY <3>1 DEF TracksAgree
    <3>6. s.now.ticks + d[u] - d[t] = s.due[u].ticks + DeltaOf(s, u)
      BY <1>2, <1>3, <2>1, <3>1, <3>5
    <3>7. d[u] \in Nat /\ d[t] \in Nat
      BY <1>2, <1>3, <3>1
    <3>. QED  BY <1>14, <1>17, <2>1, <2>3, <3>2, <3>4, <3>6, <3>7
  <2>. QED  BY <2>2, <2>3
<1>. QED  BY <1>12, <1>13, <1>14, <1>18, <1>19 DEF e

(* Time: the samples of a song until now, and the wait, are its time at the *)
(* tempos it had, but for the fraction of a sample.                         *)
Timed(s, b) == s.now.time = Den * (b + s.wait) + s.frac

Playing(s, b) == WalkOK(s) /\ TracksAgree(s) /\ Timed(s, b)

LEMMA StopsIs ==
  ASSUME NEW s, NEW b, Playing(s, b), NEW o \in BOOLEAN
  PROVE  Playing([s EXCEPT !.on = o], b)
<1>. DEFINE r == [s EXCEPT !.on = o]
<1>1. s \in Walks
  BY DEF Playing, WalkOK
<1>2. r \in Walks /\ \A t : r.loc = s.loc /\ r.count = s.count /\ r.vs = s.vs /\ r.due = s.due /\ r.now = s.now
        /\ r.wait = s.wait /\ r.frac = s.frac /\ r.pending = s.pending
  BY <1>1 DEF Walks
<1>3. r.valid = s.valid /\ r.delta = s.delta /\ r.flag = s.flag /\ r.last = s.last
  BY <1>1 DEF Walks
<1>. HIDE DEF r
<1>4. FirstDelta(r) = FirstDelta(s) /\ \A t : Ahead(r, t) = Ahead(s, t)
  BY <1>3, FirstAlike
<1>5. WalkOK(r)
  BY <1>2, <1>3, <1>4 DEF Playing, WalkOK, InTrack
<1>6. TracksAgree(r)
  BY <1>2, <1>3, <1>4, DeltaAlike DEF Playing, TracksAgree
<1>7. Timed(r, b)
  BY <1>2 DEF Playing, Timed
<1>. QED  BY <1>5, <1>6, <1>7 DEF Playing, r

(* The deltas are brought up to date and not once more. *)
LEMMA NextDeltaIs ==
  ASSUME NEW s, NEW b, Playing(s, b)
  PROVE  LET q == NextDelta(s)
         IN  /\ Playing(q, b) /\ FirstDelta(q) = FirstDelta(s)
             /\ q.valid = s.valid /\ q.pending = s.pending /\ q.wait = s.wait
<1>. DEFINE d == UpToDate(s)
            q == NextDelta(s)
<1>1. s \in Walks /\ WalkOK(s)
  BY DEF Playing, WalkOK
<1>2. d \in [Tracks -> Nat] /\ \A u \in s.valid : d[u] = Ahead(s, u) /\ Ahead(s, u) \in Nat
  BY <1>1, DeltasAre
<1>. HIDE DEF d
<1>3. q = [s EXCEPT !.delta = d, !.flag = FALSE]
  BY DEF NextDelta, d
<1>4. q \in Walks /\ q.loc = s.loc /\ q.count = s.count /\ q.vs = s.vs /\ q.due = s.due /\ q.now = s.now
        /\ q.wait = s.wait /\ q.frac = s.frac /\ q.pending = s.pending /\ q.valid = s.valid
  BY <1>1, <1>2, <1>3 DEF Walks
<1>5. q.delta = d /\ q.flag = FALSE
  BY <1>1, <1>2, <1>3 DEF Walks
<1>. HIDE DEF q
<1>6. UpToDate(q) = d
  BY <1>2, <1>5 DEF UpToDate
<1>7. FirstDelta(q) = FirstDelta(s)
  BY <1>4, <1>6 DEF FirstDelta, d
<1>8. \A t \in s.valid : Ahead(q, t) = Ahead(s, t)
  BY <1>2, <1>5 DEF Ahead
<1>9. WalkOK(q)
  BY <1>1, <1>2, <1>4, <1>8 DEF WalkOK, InTrack
<1>10. TracksAgree(q)
  BY <1>4, <1>7, <1>8, DeltaAlike DEF Playing, TracksAgree
<1>11. Timed(q, b)
  BY <1>4 DEF Playing, Timed
<1>. QED  BY <1>4, <1>7, <1>9, <1>10, <1>11 DEF Playing, q

(* A wait is rounded down, and what that leaves is carried on. *)
LEMMA WaitIs ==
  ASSUME NEW s, NEW b \in Int, Playing(s, b), s.valid # {}, s.wait = 0, ~s.pending
  PROVE  Playing(WaitFor(s, FirstDelta(s)), b)
<1>. DEFINE k == FirstDelta(s)
            num == k * s.tempo + s.frac
            r == WaitFor(s, k)
<1>1. s \in Walks /\ WalkOK(s) /\ TracksAgree(s) /\ Den \in Nat \ {0}
  BY MusicAssumption DEF Playing, WalkOK
<1>2. k \in Nat
  BY <1>1, FirstIs
<1>. HIDE DEF k
<1>3. s.tempo \in Nat /\ s.frac \in 0 .. Den - 1 /\ s.now \in Moments /\ s.now.ticks \in Nat /\ s.now.time \in Nat
  BY <1>1 DEF Walks, Moments
<1>. PICK x : x = k * s.tempo
  OBVIOUS
<1>4. x \in Nat
  BY <1>2, <1>3
<1>5. num \in Nat /\ num = x + s.frac
  BY <1>1, <1>3, <1>4
<1>. HIDE DEF num
<1>6. num \div Den \in Nat /\ num % Den \in 0 .. Den - 1 /\ num = Den * (num \div Den) + (num % Den)
  BY <1>1, <1>5, Divided
<1>. DEFINE moment == [ticks |-> s.now.ticks + k, time |-> s.now.time + x]
<1>7. moment \in Moments
  BY <1>2, <1>3, <1>4 DEF Moments
<1>8. r = [s EXCEPT !.wait = num \div Den, !.frac = num % Den, !.pending = TRUE, !.now = moment]
  BY <1>1 DEF WaitFor, num, Walks
<1>. HIDE DEF moment
<1>9. r \in Walks /\ r.loc = s.loc /\ r.count = s.count /\ r.vs = s.vs /\ r.due = s.due /\ r.now = moment
        /\ r.wait = num \div Den /\ r.frac = num % Den /\ r.pending
  BY <1>1, <1>6, <1>7, <1>8 DEF Walks
<1>10. r.valid = s.valid /\ r.delta = s.delta /\ r.flag = s.flag /\ r.last = s.last
  BY <1>1, <1>6, <1>7, <1>8 DEF Walks
<1>. HIDE DEF r
<1>11. FirstDelta(r) = k /\ \A t : Ahead(r, t) = Ahead(s, t)
  BY <1>10, FirstAlike DEF k
<1>12. WalkOK(r)
  BY <1>1, <1>9, <1>10, <1>11 DEF WalkOK, InTrack
<1>13. TracksAgree(r)
  <2>. SUFFICES ASSUME NEW t \in s.valid
                PROVE  r.now.ticks + Ahead(r, t) - k = r.due[t].ticks + DeltaOf(r, t)
    BY <1>9, <1>10, <1>11 DEF TracksAgree
  <2>1. s.now.ticks + Ahead(s, t) - 0 = s.due[t].ticks + DeltaOf(s, t)
    BY <1>1 DEF TracksAgree
  <2>2. Ahead(s, t) \in Nat
    BY <1>1, DeltasAre
  <2>3. r.now.ticks = s.now.ticks + k
    BY <1>9 DEF moment
  <2>4. r.now.ticks + Ahead(r, t) - k = s.now.ticks + Ahead(s, t) - 0
    BY <1>2, <1>3, <1>11, <2>2, <2>3
  <2>. QED  BY <1>9, <2>1, <2>4, DeltaAlike
<1>14. Timed(r, b)
  <2>1. s.now.time = Den * (b + 0) + s.frac
    BY DEF Playing, Timed
  <2>2. r.now.time = s.now.time + x
    BY <1>9 DEF moment
  <2>3. PICK w \in Nat : w = num \div Den
    BY <1>6
  <2>4. PICK f \in Nat : f = num % Den
    BY <1>6
  <2>5. x + s.frac = Den * w + f
    BY <1>5, <1>6, <2>3, <2>4
  <2>6. Den * (b + w) = Den * b + Den * w
    BY <1>1
  <2>. QED  BY <1>1, <1>3, <1>4, <1>9, <2>1, <2>2, <2>3, <2>4, <2>5, <2>6 DEF Timed
<1>. QED  BY <1>12, <1>13, <1>14 DEF Playing, r, k

(* One round of the pump. *)
LEMMA PumpOnceIs ==
  ASSUME tune \in Songs, NEW s, NEW b \in Int, Playing(s, b), s.wait = 0
  PROVE  Playing(PumpOnce(s), b)
<1>. DEFINE p == IF s.pending THEN [NextEvent(s) EXCEPT !.pending = FALSE] ELSE s
            q == NextDelta(p)
            e == NextEvent(q)
<1>1. s \in Walks /\ WalkOK(s) /\ TracksAgree(s) /\ Timed(s, b)
  BY DEF Playing, WalkOK
<1>2. ASSUME s.pending, s.valid = {} PROVE Playing(p, b) /\ ~p.pending /\ p.wait = 0
  <2>1. p = [s EXCEPT !.pending = FALSE]
    BY <1>2 DEF NextEvent
  <2>2. p \in Walks /\ p.valid = {} /\ p.loc = s.loc /\ p.count = s.count /\ p.vs = s.vs /\ p.now = s.now
          /\ p.wait = s.wait /\ p.frac = s.frac /\ ~p.pending
    BY <1>1, <1>2, <2>1 DEF Walks
  <2>3. WalkOK(p) /\ TracksAgree(p) /\ Timed(p, b)
    <3>. HIDE DEF p
    <3>. QED  BY <1>1, <2>2 DEF WalkOK, InTrack, TracksAgree, Timed
  <2>. QED  BY <2>2, <2>3 DEF Playing
<1>3. ASSUME s.pending, s.valid # {} PROVE Playing(p, b) /\ ~p.pending /\ p.wait = 0
  <2>1. /\ WalkOK(p) /\ TracksAgree(p) /\ ~p.pending
        /\ p.wait = s.wait /\ p.frac = s.frac /\ p.now = s.now
    BY <1>1, <1>3, NextEventIs
  <2>. HIDE DEF p
  <2>2. Timed(p, b)
    BY <1>1, <2>1 DEF Timed
  <2>. QED  BY <2>1, <2>2 DEF Playing
<1>4. Playing(p, b) /\ ~p.pending /\ p.wait = 0
  BY <1>2, <1>3
<1>5. PumpOnce(s) = IF p.valid = {} THEN [p EXCEPT !.on = FALSE]
                    ELSE IF FirstDelta(p) > 0 THEN WaitFor(q, FirstDelta(p))
                    ELSE [e EXCEPT !.on = e.valid # {}]
  BY DEF PumpOnce
<1>. HIDE DEF p
<1>6. CASE p.valid = {}
  BY <1>4, <1>5, <1>6, StopsIs
<1>7. CASE p.valid # {}
  <2>1. /\ Playing(q, b) /\ FirstDelta(q) = FirstDelta(p)
        /\ q.valid = p.valid /\ ~q.pending /\ q.wait = 0
    BY <1>4, NextDeltaIs
  <2>2. FirstDelta(p) \in Nat
    BY <1>4, <1>7, FirstIs DEF Playing
  <2>. HIDE DEF q
  <2>3. CASE FirstDelta(p) > 0
    BY <1>5, <1>7, <2>1, <2>3, WaitIs
  <2>4. CASE FirstDelta(p) = 0
    <3>. DEFINE r == [NextEvent(q) EXCEPT !.pending = FALSE]
    <3>1. /\ WalkOK(r) /\ TracksAgree(r) /\ r = e
          /\ r.wait = q.wait /\ r.frac = q.frac /\ r.now = q.now
      BY <1>7, <2>1, <2>4, NextEventIs DEF Playing
    <3>. HIDE DEF r, e
    <3>2. Playing(e, b)
      BY <2>1, <3>1 DEF Playing, Timed
    <3>3. PumpOnce(s) = [e EXCEPT !.on = e.valid # {}]
      BY <1>5, <1>7, <2>2, <2>4
    <3>. PICK o \in BOOLEAN : o <=> e.valid # {}
      OBVIOUS
    <3>4. PumpOnce(s) = [e EXCEPT !.on = o]
      <4>1. o = (e.valid # {})
        OBVIOUS
      <4>. QED  BY <3>3, <4>1
    <3>. QED  BY <3>2, <3>4, StopsIs
  <2>. QED  BY <2>2, <2>3, <2>4
<1>. QED  BY <1>6, <1>7

(* The rounds of the pump: the function that Pumped() says so with exists, *)
(* by a least counterexample.                                              *)
Round(p) == IF p.on /\ p.wait = 0 THEN PumpOnce(p) ELSE p
IsPump(f, n, s) == f = [k \in 0 .. n |-> IF k = 0 THEN s ELSE Round(f[k - 1])]

LEMMA PumpDefined == ASSUME NEW s, NEW n \in Nat PROVE \E f : IsPump(f, n, s)
<1>. DEFINE Bad == {k \in Nat : ~ \E f : IsPump(f, k, s)}
<1>. SUFFICES ASSUME Bad # {} PROVE FALSE
  OBVIOUS
<1>1. PICK m \in Bad : \A k \in Bad : m <= k
  <2>. HIDE DEF Bad
  <2>1. Bad \in SUBSET Nat
    BY DEF Bad
  <2>. QED  BY <2>1, NatMin
<1>2. CASE m = 0
  <2>. DEFINE f == [k \in 0 .. 0 |-> s]
  <2>1. \A k \in 0 .. 0 : k = 0
    OBVIOUS
  <2>2. IsPump(f, 0, s)
    BY <2>1 DEF IsPump
  <2>. QED  BY <1>2, <2>2
<1>3. CASE m # 0
  <2>1. m - 1 \in Nat /\ m - 1 \notin Bad
    BY <1>1, <1>3
  <2>2. PICK f : IsPump(f, m - 1, s)
    BY <2>1
  <2>. DEFINE h == [k \in 0 .. m |-> IF k = m THEN Round(f[m - 1]) ELSE f[k]]
  <2>3. ASSUME NEW k \in 0 .. m PROVE h[k] = IF k = 0 THEN s ELSE Round(h[k - 1])
    <3>1. m \in Nat \ {0}
      BY <1>3
    <3>2. CASE k = m
      BY <3>1, <3>2
    <3>3. CASE k # m /\ k = 0
      <4>1. f[0] = s
        BY <2>2, <3>1 DEF IsPump
      <4>. QED  BY <4>1, <3>3
    <3>4. CASE k # m /\ k # 0
      <4>1. k \in 0 .. m - 1 /\ k - 1 \in 0 .. m /\ k - 1 # m
        BY <3>4, <3>1
      <4>2. f[k] = Round(f[k - 1])
        BY <2>2, <4>1, <3>4 DEF IsPump
      <4>. QED  BY <4>1, <4>2, <3>4
    <3>. QED  BY <3>2, <3>3, <3>4
  <2>4. h = [k \in 0 .. m |-> IF k = 0 THEN s ELSE Round(h[k - 1])]
    BY <2>3
  <2>5. IsPump(h, m, s)
    BY <2>4 DEF IsPump
  <2>. QED  BY <2>5
<1>. QED  BY <1>2, <1>3

LEMMA PumpedIs ==
  ASSUME tune \in Songs, NEW s, NEW b \in Int, Playing(s, b)
  PROVE  Playing(Pumped(s), b)
<1>. DEFINE f == CHOOSE f : IsPump(f, PumpMax, s)
<1>1. PumpMax \in Nat
  BY MusicAssumption
<1>2. IsPump(f, PumpMax, s)
  BY <1>1, PumpDefined
<1>3. Pumped(s) = f[PumpMax]
  BY DEF Pumped, IsPump, Round
<1>. HIDE DEF f
<1>4. \A k \in 0 .. PumpMax : f[k] = IF k = 0 THEN s ELSE Round(f[k - 1])
  <2>1. \A k \in 0 .. PumpMax : f[k] = [j \in 0 .. PumpMax |-> IF j = 0 THEN s ELSE Round(f[j - 1])][k]
    BY <1>2 DEF IsPump
  <2>. QED  BY <2>1
<1>. DEFINE Bad == {k \in 0 .. PumpMax : ~Playing(f[k], b)}
<1>5. Bad = {}
  <2>. SUFFICES ASSUME Bad # {} PROVE FALSE
    OBVIOUS
  <2>1. PICK m \in Bad : \A k \in Bad : m <= k
    <3>1. Bad \in SUBSET Nat
      BY <1>1
    <3>. HIDE DEF Bad
    <3>. QED  BY <3>1, NatMin
  <2>2. m # 0
    BY <1>1, <1>4
  <2>3. m - 1 \in 0 .. PumpMax /\ m - 1 \notin Bad
    BY <1>1, <2>1, <2>2
  <2>4. Playing(f[m - 1], b) /\ f[m] = Round(f[m - 1])
    BY <1>4, <2>2, <2>3
  <2>5. Playing(f[m], b)
    BY <2>4, PumpOnceIs DEF Round
  <2>. QED  BY <2>5
<1>. QED  BY <1>1, <1>3, <1>5

(* The song and its voices.  A sample that begins with a wait of zero, and  *)
(* is not the first, comes one late.                                       *)
SongInv ==
  /\ tune \in Songs
  /\ clock \in Nat /\ late \in Nat
  /\ WalkOK(seq) /\ TracksAgree(seq)
  /\ clock = 0 => late = 0 /\ seq.wait = 0
  /\ seq.on => Timed(seq, IF clock = 0 THEN 0 ELSE clock - 1 - late)

LEMMA PrimedIs == ASSUME MusicInit PROVE SongInv
<1>1. tune \in Songs /\ seq = Primed(tune) /\ clock = 0 /\ late = 0
  BY DEF MusicInit
<1>2. tune \in [Tracks -> Seq(Events)] /\ Den \in Nat \ {0} /\ Tempo0 \in Nat
  BY <1>1, MusicAssumption
<1>3. ASSUME NEW t \in Tracks
      PROVE  /\ tune[t] \in Seq(Events) /\ Len(tune[t]) \in Nat /\ Len(tune[t]) >= 1
             /\ tune[t][1].delta \in Nat /\ DOMAIN tune[t] = 1 .. Len(tune[t])
             /\ [k \in DOMAIN tune[t] |-> tune[t][k].arg] \in Seq(Nat)
             /\ Len([k \in DOMAIN tune[t] |-> tune[t][k].arg]) = Len(tune[t])
  <2>1. tune[t] \in Seq(Events) /\ tune[t] # <<>>
    BY <1>1, <1>2, MusicAssumption
  <2>2. Len(tune[t]) \in Nat /\ Len(tune[t]) >= 1 /\ DOMAIN tune[t] = 1 .. Len(tune[t])
    BY <2>1
  <2>3. \A k \in 1 .. Len(tune[t]) : tune[t][k] \in Events
    BY <2>1
  <2>4. \A k \in 1 .. Len(tune[t]) : tune[t][k].arg \in Nat /\ tune[t][k].delta \in Nat
    BY <2>3 DEF Events
  <2>5. [k \in 1 .. Len(tune[t]) |-> tune[t][k].arg] \in Seq(Nat)
        /\ Len([k \in 1 .. Len(tune[t]) |-> tune[t][k].arg]) = Len(tune[t])
    BY <2>2, <2>4
  <2>. QED  BY <2>1, <2>2, <2>4, <2>5
<1>4. Outset \in Moments /\ Outset.ticks = 0 /\ Outset.time = 0
  BY DEF Outset, Moments
<1>5. Sounding([i \in Voices |-> Hushed])
  BY HushedOK DEF Sounding, VoiceOK
<1>6. seq \in Walks
  <2>1. [t \in Tracks |-> tune[t][1].delta] \in [Tracks -> Nat]
        /\ [t \in Tracks |-> [k \in DOMAIN tune[t] |-> tune[t][k].arg]] \in [Tracks -> Seq(Nat)]
    BY <1>3
  <2>. QED  BY <1>1, <1>2, <1>4, <1>5, <2>1 DEF Primed, Walks, Sounding
<1>7. /\ seq.valid = Tracks /\ seq.flag = TRUE /\ seq.last = 0 /\ seq.pending = FALSE
      /\ seq.wait = 0 /\ seq.frac = 0 /\ seq.now = Outset
      /\ seq.vs = [i \in Voices |-> Hushed]
  BY <1>1 DEF Primed
<1>8. \A t \in Tracks : seq.loc[t] = 1 /\ seq.delta[t] = tune[t][1].delta /\ seq.due[t] = Outset
  BY <1>1 DEF Primed
<1>9. \A t \in Tracks : Len(seq.count[t]) = Len(tune[t])
  <2>1. \A t \in Tracks : seq.count[t] = [k \in DOMAIN tune[t] |-> tune[t][k].arg]
    BY <1>1 DEF Primed
  <2>. QED  BY <1>3, <2>1
<1>10. \A t \in Tracks : Len(tune[t]) \in Nat /\ Len(tune[t]) >= 1 /\ tune[t][1].delta \in Nat
  BY <1>3
<1>11. InTrack(seq)
  BY <1>8, <1>9, <1>10 DEF InTrack
<1>12. \A t \in Tracks : Ahead(seq, t) = tune[t][1].delta
  BY <1>7, <1>8, <1>10 DEF Ahead
<1>13. WalkOK(seq)
  BY <1>5, <1>6, <1>7, <1>10, <1>11, <1>12 DEF WalkOK
<1>14. TracksAgree(seq)
  <2>1. \A t \in Tracks : DeltaOf(seq, t) = tune[t][1].delta
    BY <1>8, <1>10 DEF DeltaOf, AtEnd, EventAt
  <2>. QED  BY <1>4, <1>7, <1>8, <1>10, <1>12, <2>1 DEF TracksAgree
<1>15. Timed(seq, 0)
  BY <1>2, <1>4, <1>7 DEF Timed
<1>. QED  BY <1>1, <1>7, <1>13, <1>14, <1>15 DEF SongInv

(* One sample.                                                             *)
LEMMA SampleKeeps == ASSUME SongInv, MixMusic PROVE SongInv'
<1>. DEFINE w == [seq EXCEPT !.wait = Max({@ - 1, 0})]
            p == IF ~seq.on THEN seq ELSE IF w.wait = 0 THEN Pumped(w) ELSE w
            vs == [i \in Voices |-> Played(p.vs[i])]
            b == IF clock = 0 THEN 0 ELSE clock - 1 - late
            c == IF clock > 0 /\ seq.wait > 0 THEN b + 1 ELSE b
<1>1. tune \in Songs /\ WalkOK(seq) /\ TracksAgree(seq) /\ seq \in Walks /\ Den \in Nat \ {0}
  BY MusicAssumption DEF SongInv, WalkOK
<1>2. clock \in Nat /\ late \in Nat /\ b \in Int /\ c \in Int /\ seq.wait \in Nat
  BY <1>1 DEF SongInv, Walks
<1>3. /\ tune' = tune
      /\ seq' = [p EXCEPT !.vs = [i \in Voices |-> Played(@[i])]]
      /\ clock' = IF seq.on THEN clock + 1 ELSE clock
      /\ late' = IF seq.on /\ clock > 0 /\ seq.wait = 0 THEN late + 1 ELSE late
  BY DEF MixMusic
<1>4. w.wait = (IF seq.wait > 0 THEN seq.wait - 1 ELSE 0) /\ w \in Walks
  <2>1. Max({seq.wait - 1, 0}) = IF seq.wait > 0 THEN seq.wait - 1 ELSE 0
    BY <1>2, MaxOfTwo
  <2>2. Max({seq.wait - 1, 0}) \in Nat
    BY <1>2, <2>1
  <2>. QED  BY <1>1, <2>1, <2>2 DEF Walks
<1>5. WalkOK(w) /\ TracksAgree(w) /\ w.on = seq.on /\ w.now = seq.now /\ w.frac = seq.frac
  <2>1. /\ w.on = seq.on /\ w.now = seq.now /\ w.frac = seq.frac /\ w.loc = seq.loc /\ w.count = seq.count
        /\ w.vs = seq.vs /\ w.due = seq.due /\ w.pending = seq.pending
    BY <1>1 DEF Walks
  <2>2. w.valid = seq.valid /\ w.delta = seq.delta /\ w.flag = seq.flag /\ w.last = seq.last
    BY <1>1 DEF Walks
  <2>. HIDE DEF w
  <2>3. FirstDelta(w) = FirstDelta(seq) /\ \A t : Ahead(w, t) = Ahead(seq, t)
    BY <2>2, FirstAlike
  <2>4. WalkOK(w)
    BY <1>1, <1>4, <2>1, <2>2, <2>3 DEF WalkOK, InTrack
  <2>5. TracksAgree(w)
    BY <1>1, <2>1, <2>2, <2>3, DeltaAlike DEF TracksAgree
  <2>. QED  BY <2>1, <2>4, <2>5
<1>6. seq.on => Playing(w, c)
  <2>. HAVE seq.on
  <2>1. seq.now.time = Den * (b + seq.wait) + seq.frac
    BY DEF SongInv, Timed
  <2>2. b + seq.wait = c + w.wait
    BY <1>2, <1>4 DEF SongInv
  <2>. HIDE DEF w, b, c
  <2>3. Timed(w, c)
    BY <1>5, <2>1, <2>2 DEF Timed
  <2>. QED  BY <1>5, <2>3 DEF Playing
<1>. HIDE DEF w, b, c
<1>7. seq.on => Playing(p, c)
  BY <1>1, <1>2, <1>6, PumpedIs
<1>8. WalkOK(p) /\ TracksAgree(p) /\ p \in Walks
  BY <1>1, <1>7 DEF Playing, WalkOK
<1>9. ~seq.on => p = seq
  OBVIOUS
<1>. HIDE DEF p
<1>10. Sounding(vs)
  BY <1>8, PlayedOK DEF WalkOK, Sounding, VoiceOK
<1>11. seq' = [p EXCEPT !.vs = vs]
  BY <1>3, <1>8 DEF Walks
<1>. HIDE DEF vs
<1>. PICK r : r = [p EXCEPT !.vs = vs]
  OBVIOUS
<1>12. /\ r \in Walks /\ r.vs = vs
       /\ r.on = p.on /\ r.now = p.now /\ r.frac = p.frac /\ r.loc = p.loc /\ r.count = p.count
       /\ r.due = p.due /\ r.pending = p.pending /\ r.wait = p.wait
  BY <1>8, <1>10 DEF Walks, Sounding
<1>13. r.valid = p.valid /\ r.delta = p.delta /\ r.flag = p.flag /\ r.last = p.last
  BY <1>8 DEF Walks
<1>14. FirstDelta(r) = FirstDelta(p) /\ \A t : Ahead(r, t) = Ahead(p, t)
  BY <1>13, FirstAlike
<1>15. WalkOK(r)
  BY <1>8, <1>10, <1>12, <1>13, <1>14 DEF WalkOK, InTrack
<1>16. TracksAgree(r)
  <2>1. \A t : DeltaOf(r, t) = DeltaOf(p, t)
    BY <1>12, DeltaAlike
  <2>2. TracksAgree(p)
    BY <1>8
  <2>. QED  BY <1>12, <1>13, <1>14, <2>1, <2>2 DEF TracksAgree
<1>17. seq' = r
  BY <1>11
<1>18. WalkOK(seq)'
  BY <1>3, <1>15, <1>17 DEF WalkOK, InTrack
<1>19. TracksAgree(seq)'
  <2>1. \A t : DeltaOf(seq, t)' = DeltaOf(r, t)
    BY <1>3, <1>17 DEF DeltaOf, AtEnd, EventAt
  <2>. QED  BY <1>16, <1>17, <2>1 DEF TracksAgree
<1>20. seq'.on => Timed(r, IF clock' = 0 THEN 0 ELSE clock' - 1 - late')
  <2>. SUFFICES ASSUME r.on PROVE Timed(r, IF clock' = 0 THEN 0 ELSE clock' - 1 - late')
    BY <1>17
  <2>1. seq.on
    BY <1>9, <1>12
  <2>2. Timed(p, c)
    BY <1>7, <2>1 DEF Playing
  <2>3. clock' # 0 /\ clock' - 1 - late' = c
    BY <1>2, <1>3, <2>1 DEF b, c, SongInv
  <2>. QED  BY <1>12, <2>2, <2>3 DEF Timed
<1>21. clock' \in Nat /\ late' \in Nat /\ (clock' = 0 => late' = 0 /\ seq'.wait = 0)
  <2>1. CASE seq.on
    BY <1>2, <1>3, <2>1
  <2>2. CASE ~seq.on
    BY <1>2, <1>3, <1>9, <1>12, <1>17, <2>2 DEF SongInv
  <2>. QED  BY <2>1, <2>2
<1>22. (seq.on => Timed(seq, IF clock = 0 THEN 0 ELSE clock - 1 - late))'
  BY <1>17, <1>20 DEF Timed
<1>. QED  BY <1>1, <1>3, <1>18, <1>19, <1>21, <1>22 DEF SongInv

THEOREM SongInvHolds == MusicSpec => []SongInv
<1>1. SongInv /\ [MixMusic]_musicVars => SongInv'
  <2>. SUFFICES ASSUME SongInv, [MixMusic]_musicVars PROVE SongInv'
    OBVIOUS
  <2>1. CASE UNCHANGED musicVars
    BY <2>1 DEF musicVars, SongInv, WalkOK, InTrack, TracksAgree, Ahead, Timed, DeltaOf, AtEnd, EventAt
  <2>. QED  BY <2>1, SampleKeeps
<1>. QED  BY <1>1, PrimedIs, PTL DEF MusicSpec

(* The types of the player's variables.                                    *)
THEOREM MusicTypes == MusicSpec => []MusicTypeOK
<1>1. SongInv => MusicTypeOK
  <2>. SUFFICES ASSUME SongInv PROVE MusicTypeOK
    OBVIOUS
  <2>1. seq \in Walks /\ InTrack(seq) /\ Sounding(seq.vs) /\ clock \in Nat /\ late \in Nat
    BY DEF SongInv, WalkOK
  <2>2. \A i \in Voices : seq.vs[i] \in VoiceStates
    BY <2>1 DEF Sounding
  <2>. QED  BY <2>1, <2>2 DEF MusicTypeOK, InTrack, Walks, VoiceStates
<1>. QED  BY <1>1, SongInvHolds, PTL

(* Each event of a song is played at the sample it is due, however its      *)
(* tracks take turns, loop and change the tempo (seq_next_delta(),          *)
(* seq_next_event(), seq_ticks_to_samples()), save for whole samples in     *)
(* which more was due than seq_pump_due() takes; and no note hangs          *)
(* (seq_mix_sample()).                                                     *)
THEOREM PlayedAsWritten == MusicSpec => []AsWritten
<1>1. SongInv => AsWritten
  <2>. SUFFICES ASSUME SongInv PROVE AsWritten
    OBVIOUS
  <2>1. Together
    BY DEF SongInv, TracksAgree, Together, Ahead
  <2>2. NoHungNote
    BY DEF SongInv, WalkOK, Sounding, VoiceOK, NoHungNote
  <2>3. NoDrift
    <3>. SUFFICES ASSUME seq.on, clock > 0
                  PROVE  clock - 1 + seq.wait = (seq.now.time \div Den) + late
      BY DEF NoDrift
    <3>1. clock \in Nat /\ late \in Nat /\ seq \in Walks /\ Den \in Nat \ {0}
      BY MusicAssumption DEF SongInv, WalkOK
    <3>2. seq.wait \in Nat /\ seq.frac \in 0 .. Den - 1 /\ seq.now.time \in Nat
      BY <3>1 DEF Walks, Moments
    <3>. PICK q \in Int : q = clock - 1 - late + seq.wait
      BY <3>1, <3>2
    <3>3. seq.now.time = Den * q + seq.frac
      BY <3>1 DEF SongInv, Timed
    <3>4. seq.now.time \div Den = q
      BY <3>1, <3>2, <3>3, QuotientIs
    <3>. QED  BY <3>1, <3>2, <3>4
  <2>. QED  BY <2>1, <2>2, <2>3 DEF AsWritten
<1>. QED  BY <1>1, SongInvHolds, PTL
===============================================================================
