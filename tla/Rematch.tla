-------------------------------- MODULE Rematch --------------------------------
(***************************************************************************)
(* What a match starts from (port_api.c, stage.c, prop.c, stan_walk.c,     *)
(* move.c, random.c, score.c, patrol.c; startLockstep in main.ts).  The    *)
(* engine keeps its state in static variables of a dozen files; a match    *)
(* begins with a load of its stage, the choice of its length and           *)
(* begin_match, after any amount of local play, other matches and failed   *)
(* loads.  Peers with different pasts must start from the same state.      *)
(*                                                                         *)
(* Abstracted: a static is `fresh', or `used' once a tick has changed it,  *)
(* or names the stage, seed or place it was computed from.  What only      *)
(* draws, sounds or is rewritten before it is read again is left out.      *)
(***************************************************************************)
EXTENDS Integers, FiniteSets

CONSTANTS
  Stages,    \* stages whose files are in the pack
  HasSetup,  \* HasSetup[s]: there is a setup file
  Intros,    \* Intros[s]: how many spawns the setup lists, 0 or more
  MaxSeats,  \* PORT_MAX_PLAYERS
  Seeds, Lengths, Scenarios,
  NoneLoaded,  \* level -1
  MaxLoads   \* loads before the ordinal of a load is no longer followed (bound)

ASSUME RematchAssumption == NoneLoaded \notin Stages /\ MaxSeats \in Nat \ {0}

VARIABLES
  statics,   \* the static variables that ticks read
  match      \* what the last begin_match was given, and whether its load went well

rematchVars == <<statics, match>>

Seats == 0 .. MaxSeats - 1
Normal == "normal"  \* PORT_SCENARIO_NORMAL

Stan(s) == [of |-> s, doors |-> "none", bodies |-> "none", use |-> "fresh", floors |-> "fresh"]
Props(s) == [of |-> s, rankedFrom |-> "pad", guards |-> "fresh", drops |-> "fresh",
             pickup |-> "fresh", fireCd |-> "fresh"]
SeatState(place) == [at |-> place, life |-> "fresh", gun |-> "fresh"]
Score(scenario, length) ==
  [scenario |-> scenario, length |-> length, kills |-> "fresh", elapsed |-> "fresh"]

(* The statics of a program that has just been started. *)
PowerOn ==
  [rng |-> [match |-> 0, loads |-> 0, seed |-> <<0, 0>>, drawn |-> 0],
   players |-> 1, origin |-> NoneLoaded, intro |-> {},
   seats |-> [i \in Seats |-> SeatState("zero")],
   chr |-> [age |-> <<0, 0>>, at |-> "zero"],
   score |-> Score(Normal, 0),
   stan |-> Stan(NoneLoaded), props |-> Props(NoneLoaded)]

NoMatch == [stage |-> NoneLoaded, players |-> 0, seed |-> 0, length |-> 0, ticked |-> FALSE]

-------------------------------------------------------------------------------
(* port_rng_on_stage_load(): the seed of the match mixed with the ordinal   *)
(* of the load.                                                             *)
RngOnStageLoad(g) ==
  [g EXCEPT !.seed = <<g.match, g.loads>>, !.drawn = 0,
            !.loads = IF @ < MaxLoads THEN @ + 1 ELSE @]

\* Mutant: the ordinal goes on counting from match to match.
RngBeginMatchCounting(g, seed) == RngOnStageLoad([g EXCEPT !.match = seed])

(* port_rng_begin_match() *)
RngBeginMatch(g, seed) == RngOnStageLoad([g EXCEPT !.match = seed, !.loads = 0])

(* port_score_reset(): the limits and the length stay, the scenario that   *)
(* was configured does not.                                                *)
ScoreReset(s) == Score(Normal, s.length)

(* place_extra_seats(): beside the first seat; a seat that is not played is *)
(* not moved off walls.                                                     *)
Beside(e, s) ==
  [i \in Seats |-> SeatState(IF i = 0 THEN <<"origin", s>> ELSE <<"beside", s, i < e.players>>)]

(* port_player_spawn(): everybody stands at the origin of the stage, if it  *)
(* has one, or at a fixed place; guns, the patrol and the score start anew. *)
Spawned(e) ==
  LET seats == IF e.origin = NoneLoaded THEN [i \in Seats |-> SeatState("pad")]
               ELSE [i \in Seats |->
                       IF i \in e.intro /\ i < e.players THEN SeatState(<<"intro", e.origin>>)
                       ELSE Beside(e, e.origin)[i]]
  IN  [e EXCEPT !.seats = seats, !.stan.floors = "fresh",
                !.chr = [age |-> <<e.rng.seed, e.rng.drawn>>, at |-> "fresh"],
                !.rng.drawn = @ + 1,
                !.score = ScoreReset(@)]

-------------------------------------------------------------------------------
\* Mutant: the origin of the last stage is kept.
StageUnloadKeepsOrigin(e) == [e EXCEPT !.stan = Stan(NoneLoaded)]

(* port_stage_unload(): the tiles and the origin go; props, players, score  *)
(* and the generator stay.                                                  *)
StageUnload(e) == [e EXCEPT !.stan = Stan(NoneLoaded), !.origin = NoneLoaded, !.intro = {}]

\* Mutant: what is read again is dropped, not what ticks have counted since.
PropLoadKeepsCounters(e, s) ==
  [e EXCEPT !.props = [Props(IF HasSetup[s] THEN s ELSE NoneLoaded) EXCEPT !.fireCd = e.props.fireCd]]

(* port_prop_load(): unloads first, whatever comes of the rest. *)
PropLoad(e, s) == [e EXCEPT !.props = Props(IF HasSetup[s] THEN s ELSE NoneLoaded)]

(* Doors shut and a cylinder where each guard stands. *)
Registered(e) == [e EXCEPT !.stan.doors = "fresh", !.stan.bodies = "fresh"]

(* The first spawn of the setup becomes the origin, the others the places   *)
(* of the next seats.                                                       *)
WithOrigin(e, s) ==
  IF Intros[s] = 0 \/ ~HasSetup[s] THEN e
  ELSE LET extra == {i \in Seats \ {0} : i < Intros[s]}
       IN  [e EXCEPT !.origin = s, !.intro = extra, !.stan.floors = "fresh",
                     !.seats = [i \in Seats |->
                        IF i \in extra THEN SeatState(<<"intro", s>>) ELSE Beside(e, s)[i]]]

(* port_prop_place_walker_near_spawn(): ranked from where seat 0 stands. *)
WalkerPlaced(e) ==
  [e EXCEPT !.props.rankedFrom = e.seats[0].at, !.stan.floors = "used"]

(* port_stage_load() when the pack has the files. *)
StageLoad(e, s) ==
  LET unloaded == StageUnload(e)
      tiles == [unloaded EXCEPT !.rng = RngOnStageLoad(@), !.stan = Stan(s)]
      props == Registered(PropLoad(Spawned(tiles), s))
  IN  WalkerPlaced(WithOrigin(props, s))

(* port_stage_load() when a file is missing or will not inflate. *)
StageLoadFails(e) == StageUnload(e)

(* port_api_configure_match() *)
Configured(e, scenario, length) ==
  [e EXCEPT !.score = [@ EXCEPT !.scenario = scenario, !.length = length, !.elapsed = "fresh"]]

(* port_api_begin_match() *)
BeginMatch(e, n, seed) ==
  Spawned([e EXCEPT !.rng = RngBeginMatch(@, seed), !.players = n])

-------------------------------------------------------------------------------
RematchInit == statics = PowerOn /\ match = NoMatch

(* startEngine(): the statics outlive port_api_init(), which unloads the    *)
(* stage; then the first stage is loaded and ticked once.                   *)
StartPage ==
  /\ \E s \in Stages :
       statics' = [StageLoad(StageUnload(statics), s) EXCEPT !.chr.at = "moved", !.score.elapsed = "used"]
  /\ match' = NoMatch

(* The stage list, which is not heard during a match. *)
ChooseStage ==
  /\ match = NoMatch
  /\ \/ \E s \in Stages : statics' = StageLoad(statics, s)
     \/ statics' = StageLoadFails(statics)
  /\ UNCHANGED match

(* Keys 1-4 *)
ChooseSeats ==
  /\ match = NoMatch
  /\ \E n \in 1 .. MaxSeats : statics' = [statics EXCEPT !.players = n]
  /\ UNCHANGED match

(* startLockstep(); one that could not load its stage goes on all the same. *)
StartMatch ==
  \E s \in Stages, n \in 2 .. MaxSeats, seed \in Seeds,
     scenario \in Scenarios, length \in Lengths, ok \in BOOLEAN :
    LET loaded == IF ok THEN StageLoad(statics, s) ELSE StageLoadFails(statics)
    IN  /\ statics' = BeginMatch(Configured(loaded, scenario, length), n, seed)
        /\ match' = [stage |-> IF ok THEN s ELSE NoneLoaded, players |-> n,
                     seed |-> seed, length |-> length, ticked |-> FALSE]

EndMatch == match # NoMatch /\ match' = NoMatch /\ UNCHANGED statics

Ticking == match' = IF match = NoMatch THEN NoMatch ELSE [match EXCEPT !.ticked = TRUE]

(* Seats walk and use doors. *)
WalkTick ==
  /\ statics' = [statics EXCEPT !.seats = [i \in Seats |-> IF i < statics.players THEN [@[i] EXCEPT !.at = "moved"] ELSE @[i]],
                        !.stan.floors = "used", !.stan.doors = "used", !.stan.use = "used",
                        !.chr.at = "moved", !.score.elapsed = "used"]
  /\ Ticking

(* Seats and guards shoot, hit and kill each other. *)
FightTick ==
  /\ statics' = [statics EXCEPT !.seats = [i \in Seats |-> IF i < statics.players
                                     THEN [@[i] EXCEPT !.life = "used", !.gun = "used"] ELSE @[i]],
                        !.stan.bodies = "used", !.props.guards = "used", !.props.drops = "used",
                        !.props.fireCd = "used", !.score.kills = "used",
                        !.chr.at = "moved", !.score.elapsed = "used"]
  /\ Ticking

(* A seat takes the pickup. *)
PickupTick ==
  /\ \E i \in 0 .. statics.players - 1 :
       statics' = [statics EXCEPT !.props.pickup = "used", !.seats[i] = [@ EXCEPT !.life = "used", !.gun = "used"],
                          !.chr.at = "moved", !.score.elapsed = "used"]
  /\ Ticking

RematchNext ==
  \/ StartPage \/ ChooseStage \/ ChooseSeats \/ StartMatch \/ EndMatch
  \/ WalkTick \/ FightTick \/ PickupTick

RematchSpec == RematchInit /\ [][RematchNext]_rematchVars

-------------------------------------------------------------------------------
(* Whatever was played before, a match whose stage was loaded starts from   *)
(* the state of an engine that has just been started: the same on every     *)
(* peer.                                                                    *)
FreshStart ==
  match.stage # NoneLoaded /\ ~match.ticked =>
    statics = BeginMatch(Configured(StageLoad(PowerOn, match.stage), Normal, match.length),
                     match.players, match.seed)
===============================================================================
