--------------------------------- MODULE Online --------------------------------
(***************************************************************************)
(* What lies about a match, side by side: the page's engine (Boot), the    *)
(* room it enters (Lobby) with the limits of its server (Limits), its      *)
(* connections to the other peers (Mesh), the wait for their pads          *)
(* (StallTimer), the config of the match (Config), the way of a pad (Wire) *)
(* and the rings that hold it (TwoRings).  None of them reads what another *)
(* one writes.                                                             *)
(***************************************************************************)
EXTENDS StallTimer, Limits, Lobby, Mesh, Boot, Config, Wire, TwoRings

OnlineInit == StallInit /\ LimitsInit /\ LobbyInit /\ MeshInit /\ BootInit /\ ConfigInit /\ WireInit /\ RingsInit

(* A page and its peers come together, whatever overtakes what: the pack it *)
(* shows is its engine's and is still found after a reload, no candidate is *)
(* lost, and its pads reach every peer.                                     *)
Connects == HashIsEngines /\ NextVisitFinds /\ EveryoneReached /\ NoCandidateLost
(* What one side plays the other plays: it begins the match of the config   *)
(* that was published, the pads it reads off the wire are those that were   *)
(* sent, every one of them, and the shell's ring and the engine's run the   *)
(* same.                                                                    *)
SamePlay == SameMatch /\ SamePads /\ WholeDatagram /\ SameAnswers
===============================================================================
