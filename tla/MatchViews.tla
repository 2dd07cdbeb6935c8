------------------------------ MODULE MatchViews ------------------------------
(***************************************************************************)
(* Two peers of one online match: two engines that start alike and are     *)
(* given the same pads, each showing its own seat (startLockstep() in      *)
(* web/shell/src/main.ts: applyPresenterView() calls setViewSeat(mySeat)). *)
(* Where the worlds are equal so is their geometry: the same rays hit the  *)
(* same things, and the same guards see the same seats.                    *)
(***************************************************************************)
EXTENDS MatchSim

CONSTANT Other    \* the seat the second peer shows

VARIABLES
  limit2, ply2, gun2, guard2, cd2, held2, floor2, score2,
  turn2, phase2, pad2, shots2, given2, slain2

Peer == INSTANCE MatchSim WITH
  View <- Other, limit <- limit2, ply <- ply2, gun <- gun2, guard <- guard2, cd <- cd2,
  held <- held2, floor <- floor2, score <- score2, turn <- turn2, phase <- phase2,
  pad <- pad2, shots <- shots2, given <- given2, slain <- slain2

both == <<vars, Peer!vars>>

InitBoth == Init /\ Peer!Init /\ limit = limit2

(* One part of a tick, done by both engines with the same pads. *)
NextBoth ==
  \/ \E s \in Seats :
       \/ \E b \in SUBSET Buttons, door \in BOOLEAN, placed \in Drops :
            PlayerTick(s, b, door, placed) /\ Peer!PlayerTick(s, b, door, placed)
       \/ \E i \in floor : TakePickup(s, i) /\ Peer!TakePickup(s, i)
       \/ \E target \in Targets(s), near \in SUBSET LivingGuards :
            GunTick(s, target, near) /\ Peer!GunTick(s, target, near)
  \/ \E sees \in Sights, hit \in SUBSET Guards, placed \in Drops :
       WorldTick(sees, hit, placed) /\ Peer!WorldTick(sees, hit, placed)

SpecBoth == InitBoth /\ [][NextBoth]_both

(* Given the same pads, both peers compute the same world. *)
SameWorld == turn = 0 /\ phase = "player" => world = Peer!world
===============================================================================
