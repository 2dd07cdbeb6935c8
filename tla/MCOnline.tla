-------------------------------- MODULE MCOnline -------------------------------
(***************************************************************************)
(* What lies about a match, and the places where two programs do the same  *)
(* work.  They share no state: a behaviour is one of `part', and the other *)
(* parts rest as they begin.  Those of Online have their own variables;    *)
(* the rest are instances, on the first of y1, ..., y7, which are parked   *)
(* otherwise.                                                              *)
(***************************************************************************)
EXTENDS Online, TLC

CONSTANTS NoFile, Unusable  \* of Archive

(* A ROM of the region, and one of another. *)
TwoRegions == [us |-> "U", jp |-> "J"]

VARIABLES part, y1, y2, y3, y4, y5, y6, y7

(* Every action, some that cancel; a mouse that turns 130 degrees and one   *)
(* that turns 13; the largest checksum.                                     *)
HeldKeys ==
  {{"up", "right", "fire"}, {"left", "right", "use", "pointer", "lookUp"},
   {"left", "down", "run", "lookDown"}}
MouseTravel == {-1300, 130}
Checksums == {<<0, 1>>, <<65535, 40000>>}

(* Hashes and an id of bytes. *)
TwoHashes == {[i \in 1 .. 32 |-> i + 100], [i \in 1 .. 32 |-> 0]}
SomeBuild == [i \in 1 .. 20 |-> i + 60]

(* One ROM in the three byte orders, cut short and unknown; names out of    *)
(* order, rows without bytes, a file at the ROM's end and one behind it.    *)
Row(offset, size, name, packed) ==
  [offset |-> offset, size |-> size, name |-> name, compressed |-> packed]
Image(offset, size) == [offset |-> offset, size |-> size]
BigEndian == <<128, 55, 18, 64, 17, 114, 5, 6, 7, 8, 9, 10>>
Paths == <<"anim", "bg", "bgless", "img1", "img2", "stan">>
A == INSTANCE Archive WITH
       given <- y1, web <- y2, tool <- y3, pack <- y4, read <- y5,
       Roms <- {BigEndian, <<55, 128, 64, 18, 114, 17, 6, 5, 8, 7, 10, 9>>,
                <<64, 18, 55, 128, 6, 5, 114, 17, 10, 9, 8, 7>>, <<55, 128, 64, 18, 1>>,
                <<64, 18, 55, 128, 6, 5>>, <<1, 2, 3, 4>>, SubSeq(BigEndian, 1, 8)},
       Names <- Paths,
       EndsIn <- [p \in {Paths[i] : i \in DOMAIN Paths} |-> {p}],
       Component <- [p \in {Paths[i] : i \in DOMAIN Paths} |-> p],
       FileLists <- {<<Row(4, 4, "stan", TRUE), Row(8, 2, "bg", FALSE), Row(0, 0, "x", FALSE)>>,
                     <<Row(2, 2, "stan", FALSE), Row(4, 3, "bg", FALSE), Row(7, 3, "anim", FALSE)>>},
       ImageLists <- {<<Image(1, 1), Image(0, 0), Image(2, 2)>>, <<Image(5, 1), Image(6, 1)>>, <<>>},
       ImageDefs <- {<<"img2", "img1">>, <<"img1">>, <<"img1", "bgless", "img2">>},
       AnimTable <- <<Row(7, 3, "anim", FALSE), Row(9, 9, "late", FALSE)>>,
       Addresses <- {0, 1, 9, 11, 2} \X {4, 8, 9}

(* A tick of one player, a door, two guards and a gun to pick up: a shot     *)
(* kills a guard, who drops a gun and alerts the other; the pads are a step  *)
(* back and the three buttons.                                               *)
Seat0 ==
  [pose |-> <<0, 0, 0>>, ammo |-> 7, life |-> 8, pad |-> [x |-> 0, y |-> 0, b |-> 0], turn |-> 0]
LoadedEngine ==
  [rng |-> <<0, 0>>, players |-> <<Seat0>>, chr |-> <<0>>, doors |-> <<[open |-> FALSE, frac |-> 0]>>,
   cyls |-> <<[at |-> 5, hit |-> FALSE], [at |-> 7, hit |-> FALSE]>>,
   guards |-> <<[at |-> 5, alerted |-> FALSE], [at |-> 7, alerted |-> FALSE]>>,
   pickup |-> FALSE, drops |-> <<>>, score |-> <<0>>]
PadOf(x, y, b) == [x |-> x, y |-> y, b |-> b]
FireButton == 8192
UseButton == 16384
TakeButton == 16
Alive(e) == {i \in DOMAIN e.cyls : ~e.cyls[i].hit}
Lying(e) == {i \in DOMAIN e.drops : ~e.drops[i].hidden}
Lowest(s) == CHOOSE i \in s : \A j \in s : i <= j
Moved(e) ==
  LET p == e.players[1]
  IN  [e EXCEPT !.players[1].pose = <<@[1] + p.pad.x, @[2] + p.pad.y, @[3] + p.turn>>,
                !.chr = <<@[1] + 1>>]
Shot(e, i) ==
  [e EXCEPT !.cyls[i].hit = TRUE, !.guards[3 - i].alerted = TRUE, !.score = <<@[1] + 1>>,
            !.drops = Append(@, [model |-> i, hidden |-> FALSE, at |-> e.cyls[i].at]),
            !.rng = <<(@[1] + 1) % 4, @[2] + ((@[1] + 1) \div 4)>>]
Acted(e, b) ==
  CASE b = FireButton /\ Alive(e) # {} -> Shot(e, Lowest(Alive(e)))
    [] b = UseButton -> [e EXCEPT !.doors[1] = [open |-> ~@.open, frac |-> @.frac + 1]]
    [] b = TakeButton /\ Lying(e) # {} -> [e EXCEPT !.drops[Lowest(Lying(e))].hidden = TRUE]
    [] b = TakeButton /\ Lying(e) = {} -> [e EXCEPT !.pickup = TRUE]
    [] OTHER -> e
SimTick(e, pads) == Acted(Moved(e), pads[1].b)

P == INSTANCE Tape WITH
       eng <- y1, twin <- y2, frames <- y3, seed <- y4, tape <- y5, altered <- y6, result <- y7,
       Tick <- SimTick, Loaded <- LoadedEngine, Seeds <- {1},
       Pads <- {PadOf(0 - 70, 3, 0), PadOf(0, 0, FireButton), PadOf(0, 0, UseButton),
                PadOf(0, 0, TakeButton)},
       Turns <- {0, 5}, NSeats <- 1, MaxSeats <- 4, MaxFrames <- 3, Version <- 1

Parked(v) == v = "-"
From5Parked == Parked(y5) /\ Parked(y6) /\ Parked(y7)

Extended == {"stall", "limits", "lobby", "mesh", "boot", "config", "wire", "rings"}
PartsInit ==
  /\ OnlineInit
  /\ \/ part \in Extended /\ y1 = "-" /\ y2 = "-" /\ y3 = "-" /\ y4 = "-" /\ From5Parked
     \/ part = "archive" /\ A!Init /\ Parked(y6) /\ Parked(y7)
     \/ part = "tape" /\ P!Init

instances == <<y1, y2, y3, y4, y5, y6, y7>>
Rest(p) == part = p /\ UNCHANGED <<part, instances>>
InStall == Rest("stall") /\ UNCHANGED <<limitVars, lobbyVars, meshVars, bootVars, configVars, wireVars, ringVars>>
InLimits == Rest("limits") /\ UNCHANGED <<stallVars, lobbyVars, meshVars, bootVars, configVars, wireVars, ringVars>>
InLobby == Rest("lobby") /\ UNCHANGED <<stallVars, limitVars, meshVars, bootVars, configVars, wireVars, ringVars>>
InMesh == Rest("mesh") /\ UNCHANGED <<stallVars, limitVars, lobbyVars, bootVars, configVars, wireVars, ringVars>>
InBoot == Rest("boot") /\ UNCHANGED <<stallVars, limitVars, lobbyVars, meshVars, configVars, wireVars, ringVars>>
InConfig == Rest("config") /\ UNCHANGED <<stallVars, limitVars, lobbyVars, meshVars, bootVars, wireVars, ringVars>>
InWire == Rest("wire") /\ UNCHANGED <<stallVars, limitVars, lobbyVars, meshVars, bootVars, configVars, ringVars>>
InRings == Rest("rings") /\ UNCHANGED <<stallVars, limitVars, lobbyVars, meshVars, bootVars, configVars, wireVars>>
In(p) ==
  part = p /\ UNCHANGED <<part, stallVars, limitVars, lobbyVars, meshVars, bootVars, configVars, wireVars, ringVars>>
Five(p) == In(p) /\ UNCHANGED <<y6, y7>>

TimePasses == InStall /\ Pass
PadsArrive == InStall /\ \E complete \in BOOLEAN : Arrive(complete)
TabHidden == InStall /\ HiddenSlice
TabVisible == InStall /\ VisibleSlice
MatchEnds == InStall /\ EndMatch

Later == InLimits /\ ClockGoes
Create == InLimits /\ Request
RelayPads == InLimits /\ \E n \in Sizes : Relay(n)

JoinRoom == InLobby /\ \E g \in Guests : Join(g)
LeaveRoom == InLobby /\ \E g \in Guests : Leave(g)
ServerReads == InLobby /\ ServerTakes
ClientReads == InLobby /\ \E c \in Clients : Told(c)
HostStarts == InLobby /\ PressStart
ClientBegins == InLobby /\ \E c \in Clients : BeginMesh(c)
ClientStarts == InLobby /\ \E c \in Clients : StartLockstep(c)

SampleMouse == InWire /\ MoveMouse
PadSlice == InWire /\ CommitSlice
Receive == InWire /\ ReceiveDatagram

PublishConfig == InConfig /\ PublishCfg
StartWith == InConfig /\ BeginMatch

Submit ==
  InRings
  /\ \E tick \in 0 .. MaxTick + Ring, seat \in 0 .. NSeats, pad \in Pads : SubmitBoth(tick, seat, pad)
RunTick == InRings /\ RunBoth
MissingSeat == InRings /\ MissingBoth

ExtractRom == Five("archive") /\ A!Extract
BuildPack == Five("archive") /\ A!Pack
OpenPack == Five("archive") /\ A!OpenPack
Dma == Five("archive") /\ A!Dma

MeshBegins == InMesh /\ \E s \in Peers : Begin(s)
OfferMade == InMesh /\ \E s \in Peers : OfferTo(s)
MeshStarts == InMesh /\ \E s \in Peers : StartSession(s)
CandidateFound == InMesh /\ \E s \in Peers : \E r \in Other(s) : Candidate(s, r)
MessageRead == InMesh /\ \E s \in Peers : \E r \in Other(s) : Deliver(r, s)
Answered == InMesh /\ \E s \in Peers : \E r \in Other(s) : Answer(s, r)
ChannelOpens ==
  InMesh /\ \E s \in Peers, channel \in Channels : \E r \in Other(s) : Open(s, r, channel)
ConnectionFails == InMesh /\ \E s \in Peers : \E r \in Other(s) : Fail(s, r)

VisitGoesOn == InBoot /\ (KvGet \/ PackGet)
PageReloaded == InBoot /\ Reload
FileDropped == InBoot /\ \E f \in FileFlows : Drop(f)
FileVerified == InBoot /\ \E f \in FileFlows : Verify(f)
FileExtracted == InBoot /\ \E f \in FileFlows : Extract(f)
PackStored == InBoot /\ \E f \in FileFlows : Store(f)
EngineStarts == InBoot /\ \E f \in Flows : StartEngine(f)
EngineLoaded == InBoot /\ \E f \in Flows : Fetched(f)

RecordTick == In("tape") /\ P!Record
SaveTape == In("tape") /\ P!Save
AlterTape == In("tape") /\ P!Alter
ReplayTape == In("tape") /\ P!ReplayTape

PartsNext ==
  \/ TimePasses \/ PadsArrive \/ TabHidden \/ TabVisible \/ MatchEnds
  \/ Later \/ Create \/ RelayPads
  \/ JoinRoom \/ LeaveRoom \/ ServerReads \/ ClientReads
  \/ HostStarts \/ ClientBegins \/ ClientStarts
  \/ SampleMouse \/ PadSlice \/ Receive \/ PublishConfig \/ StartWith
  \/ Submit \/ RunTick \/ MissingSeat \/ ExtractRom \/ BuildPack \/ OpenPack \/ Dma
  \/ MeshBegins \/ OfferMade \/ MeshStarts \/ CandidateFound \/ MessageRead \/ Answered
  \/ ChannelOpens \/ ConnectionFails
  \/ VisitGoesOn \/ PageReloaded \/ FileDropped \/ FileVerified \/ FileExtracted
  \/ PackStored \/ EngineStarts \/ EngineLoaded
  \/ RecordTick \/ SaveTape \/ AlterTape \/ ReplayTape

partsVars == <<part, instances, stallVars, limitVars, lobbyVars, meshVars, bootVars, configVars, wireVars, ringVars>>

(* The fairness of StallTimer. *)
Parts == PartsInit /\ [][PartsNext]_partsVars /\ WF_partsVars(TimePasses) /\ WF_partsVars(TabVisible)

-------------------------------------------------------------------------------
(* Two programs that do the same work do it the same: the two extractors and *)
(* the readers of a pack, a match and its tape.                             *)
TwoSides ==
  CASE part = "archive" -> A!SamePack /\ A!ReadsBack
    [] part = "tape" -> P!SumsTell /\ P!Replays
    [] OTHER -> TRUE
===============================================================================
