-------------------------------- MODULE MCParts --------------------------------
(***************************************************************************)
(* The smaller parts of the engine.  They share no state: a behaviour is   *)
(* one of `part', and the other parts rest as they begin.  Those that      *)
(* theorems are about are extended; the rest are instances, on the first   *)
(* of x1, ..., x8, which are parked otherwise.                             *)
(***************************************************************************)
EXTENDS Doors, Guards, Floors, Engine, Rematch, Faces, Frame, Music, PartInputs

VARIABLES part, x1, x2, x3, x4, x5, x6, x7, x8

(* The place of three actors in a passage; the posts of two guards; where   *)
(* the player begins on the stair; spawns of a stage with a setup.          *)
Starts == (0 :> 3) @@ (1 :> 14) @@ (2 :> 10)
GuardPosts == <<3, 5>>
StairSeat == (1 :> <<1, 0>>)
Setups == [s \in {"facility", "complex"} |-> s = "facility"]
SpawnCounts == [s \in {"facility", "complex"} |-> IF s = "facility" THEN 2 ELSE 0]

(* Two rooms of a hall, and others behind them; more surfaces than the table *)
(* and a room have space for.                                               *)
HallRooms == [x \in 0 .. 11 |-> IF x < 6 THEN 1 ELSE 2]
Opening(a, b, place, hung) == [a |-> a, b |-> b, place |-> place, hung |-> hung]
FaceLevels ==
  <<[faces |-> <<<<1, 2, 9>>, <<10, 11, 7>>, <<5>>>>,
     gates |-> <<Opening(1, 2, 6, TRUE), Opening(1, 3, 2, FALSE)>>],
    [faces |-> <<<<4>>, <<8, 0>>, <<3, 9>>, <<>>>>,
     gates |-> <<Opening(1, 2, 6, FALSE), Opening(2, 3, 9, TRUE)>>]>>

(* Two tracks of every kind, of which more events may be due at once than    *)
(* one sample takes; channel 1 has an envelope, channel 2 plucks.           *)
Event(kind, arg, dur, back) == [delta |-> 0, kind |-> kind, arg |-> arg, dur |-> dur, back |-> back]
After(d, e) == [e EXCEPT !.delta = d]
Notes == {Event("on", 1, 1, 0), Event("on", 2, 6, 0), Event("off", 1, 0, 0), Event("tempo", 5, 0, 0)}
Ends == {Event("eot", 0, 0, 0), Event("loop", 1, 0, 1), Event("loop", 2, 0, 2)}
LongTracks ==
  {<<After(d, e), After(f, g), After(1, h)>> :
     d \in {0, 2}, e \in Notes, f \in {0, 1}, g \in Notes \ {Event("on", 1, 1, 0)}, h \in Ends}
ShortTracks ==
  {<<After(d, e), After(1, h)>> : d \in {0, 3}, e \in Notes, h \in Ends \ {Event("loop", 2, 0, 2)}}

Lullaby == (1 :> <<After(0, Event("eot", 0, 0, 0))>>) @@ (2 :> <<After(0, Event("eot", 0, 0, 0))>>)
SongBook == {Lullaby} \cup  {(1 :> a) @@ (2 :> b) : a \in LongTracks, b \in ShortTracks}
Timbres ==
  (1 :> [env |-> TRUE, atk |-> 1, dec |-> 1, rel |-> 2, len |-> 0]) @@
  (2 :> [env |-> FALSE, atk |-> 0, dec |-> -1, rel |-> 0, len |-> 4])

(* Lists choose a texture by its id alone. *)
Renamed == Permutations(Textures)

(* A room, a fitted prop and a character; fewer texture slots than textures. *)
Drawable(kind, vtx, seg4, seg5) == [kind |-> kind, vtx |-> vtx, seg4 |-> seg4, seg5 |-> seg5]
Drawables ==
  {Drawable("room", "verts", "-", "-"), Drawable("prop", "-", "bank", "door"),
   Drawable("chr", "-", "-", "guard")}

(* Six rooms and a seventh that is not drawn, doors at two places on two     *)
(* floors, and more rooms in reach than are drawn.                           *)
Portal(a, b, place, doorlike) == [a |-> a, b |-> b, place |-> place, doorlike |-> doorlike]
V == INSTANCE VisibleRooms WITH
       portals <- x1, shut <- x2, camera <- x3, drawn <- x4, current <- x5,
       Rooms <- 1 .. 6, SameFloor <- 400, WalkDepth <- 2, FarDepth <- 4, Cap <- 5,
       Pads <- {"q"}, Catwalk <- {6}, Lab <- {1, 2},
       Paired <- LAMBDA a, b : {a, b} \in {{1, 2}, {2, 3}},
       Height <- <<-400, -300, -400, -425, -106, 200>>,
       Maps <- {<<Portal(1, 2, "p", TRUE), Portal(5, x, "p", TRUE), Portal(2, y, "q", TRUE),
                  Portal(3, 4, "r", z), Portal(4, 5, "s", FALSE), Portal(1, v, "t", TRUE)>> :
                  x \in {1, 6}, y \in {3, 5}, z \in BOOLEAN, v \in {3, 7}}

(* Every format and every encoding, by four texels; all weights of a tree of *)
(* three symbols, and trees of the size of a channel.                        *)
Img(fmt, method, w, h, px, freqs) ==
  [fmt |-> fmt, method |-> method, w |-> w, h |-> h, px |-> px, freqs |-> freqs, pal |-> <<>>]
Weights(n) == [i \in 1 .. n |-> ((7 * i) % 5) + 1]
Rgba == <<<<31, 0, 17, 1>>, <<31, 0, 17, 0>>, <<31, 0, 17, 1>>, <<31, 0, 2, 1>>>>
Rgb == [i \in 1 .. 4 |-> SubSeq(Rgba[i], 1, 3)]
Gray4 == <<<<5, 1>>, <<5, 0>>, <<5, 1>>, <<2, 1>>>>
Gray16 == [i \in 1 .. 4 |-> <<Gray4[i][1] * 51, Gray4[i][2] * 200>>]
Gray == <<<<9>>, <<9>>, <<9>>, <<14>>>>
NoHuffman == {"uncompressed1", "rle", "lookup", "rleLookup", "rleBlur"}
Images ==
  {Img("RGBA16", m, 2, 2, Rgba, Weights(32)) :
     m \in NoHuffman \cup {"huffman", "huffmanPerChannel", "huffmanBlur"}}
  \cup {Img("RGB15", m, 1, 3, Tail(Rgb), Weights(32)) : m \in {"uncompressed0", "huffman", "rle", "lookup"}}
  \cup {Img("IA4", m, 2, 2, Gray4, Weights(8)) : m \in {"uncompressed1", "huffmanBlur", "rle", "rleLookup"}}
  \cup {Img("IA8", m, 3, 1, SubSeq(Gray4, 1, 3), Weights(16)) : m \in {"uncompressed0", "huffmanPerChannel", "lookup"}}
  \cup {Img("IA16", m, 2, 2, Gray16, <<>>) : m \in NoHuffman}
  \cup {Img("I8", m, 3, 1, Tail(Gray), <<>>) : m \in NoHuffman}
  \cup {Img("I4", m, 4, 1, Gray, Weights(16)) : m \in {"uncompressed1", "huffmanBlur", "rle", "rleLookup"}}
  \cup {Img("RGB24", m, 3, 1, SubSeq(Rgb, 1, 3), <<>>) : m \in {"rle", "uncompressed1"}}
  \cup {Img("RGBA32", m, 2, 2, Rgba, <<>>) : m \in {"rle", "uncompressed1"}}
  \cup {Img("IA16", "huffmanLookup", 4, 1, <<<<9, 1>>, <<9, 2>>, <<9, 3>>, <<9, 2>>>>, f) : f \in [1 .. 3 -> {0, 1, 3}]}
  \cup {[Img(f, "zlib", 2, 2, <<2, 0, 1, 1>>, <<>>) EXCEPT !.pal = IF f \in {"CI4", "CI8"} THEN Rgba ELSE Gray16] :
            f \in {"CI4", "CI8", "IA16_CI4", "IA16_CI8"}}

X == INSTANCE TexBank WITH
       scratch <- x1, tile <- x2, image <- x3, loads <- x4,
       Gone <- 9999, MaxLoads <- 2

(* Two guards, in setup files of a guard and three other records in every    *)
(* order, with two thirds of the models in one of the packs; and intros.    *)
Rec(type, model, pad, flags, chr) ==
  [type |-> type, model |-> model, pad |-> pad, flags |-> flags, chr |-> chr]
Guard1 == Rec("guard", "body", 2, {}, 1)
SetupRecords ==
  {Rec("guard", "body", 3, {}, 2), Rec("door", "door", 1, {}, 0),
   Rec("collectable", "kf7", 1, {"assigned"}, 0), Rec("collectable", "mp5k", 1, {"assigned"}, 0),
   Rec("collectable", "kf7", 3, {}, 0), Rec("magazine", "clip", 0 - 1, {"embedded"}, 0),
   Rec("armour", "vest", 0, {}, 0), Rec("collectable", "mp5k", 2, {}, 0), Rec("end", "-", 0, {}, 0)}
Intro(pad, demo) == [pad |-> pad, demo |-> demo]
Intros3 ==
  [1 .. 3 -> {Intro(0, FALSE), Intro(1, TRUE), Intro(7, FALSE), Intro(0 - 1, TRUE), Intro(2, FALSE)}]
Place(dist, slab, ground) ==
  [dist |-> dist, slab |-> slab, firebox |-> FALSE, on |-> TRUE, near |-> ground, ground |-> ground]
PadPlaces == <<Place(9, FALSE, TRUE), Place(1, TRUE, TRUE), Place(7, FALSE, FALSE), Place(5, FALSE, TRUE)>>

U == INSTANCE Setup WITH
       setup <- x1, has <- x2, props <- x3, cands <- x4, spawns <- x5, pickup <- x6,
       drops <- x7, step <- x8,
       Setups <- {[file |-> IF first THEN <<Guard1>> \o r ELSE r \o <<Guard1>>, intro |-> <<>>] :
                    r \in [1 .. 3 -> SetupRecords], first \in BOOLEAN}
                 \cup {[file |-> <<Guard1>>, intro |-> i] : i \in Intros3},
       Pads <- [p \in 0 .. 3 |-> PadPlaces[p + 1]], Chrs <- 1 .. 2,
       Packs <- {{"body", "door", "kf7", "mp5k", "vest", "clip"}, {"body", "mp5k", "clip"}},
       MaxProps <- 4, MaxCands <- 2, MaxIntro <- 2, None <- 99

(* The files of PartInputs, smaller than the code's. *)
S == INSTANCE StageFile WITH
       stage <- x1, loaded <- x2,
       MaxPortals <- 1, MaxTiles <- 3, MaxPoints <- 4, Prefix <- 16, Stages <- StageFiles

(* Two guards who change places in the ranking, of two bodies, or of one     *)
(* without the aiming pose, and one guard alone; two openings.              *)
Dressed(x) == [body |-> x, gun |-> "kf7"]
Stood(all, aim, d, e) ==
  [guards |-> all, aim |-> aim, far |-> d, snapped |-> e]
Q == INSTANCE Looks WITH
       cast <- x1, guard <- x2, model <- x3, rest <- x4, frame <- x5,
       WalkStart <- 1, WalkLen <- 2, DieLen <- 6, Rate <- 4, Cap <- 8, Pool <- 2,
       Casts <- {Stood(<<Dressed("a"), Dressed("b")>>, TRUE, <<5, 1>>, <<4, 5>>),
                 Stood(<<Dressed("a"), Dressed("a")>>, FALSE, <<5, 1>>, <<4, 5>>),
                 Stood(<<Dressed("a")>>, TRUE, <<2>>, <<2>>)},
       Fit <- [m \in {"idle", "walk"} \X {"a", "b"} |->
                 IF m[1] = "idle" THEN IF m[2] = "a" THEN 4 ELSE 5 ELSE IF m[2] = "a" THEN 6 ELSE 7],
       Sights <- {[doors |-> 0, holes |-> <<>>], [doors |-> 1, holes |-> <<3, 5>>]}

-------------------------------------------------------------------------------
Parked3 == x3 = "-" /\ x4 = "-" /\ x5 = "-"
Parked6 == x6 = "-" /\ x7 = "-" /\ x8 = "-"

Extended == {"floors", "doors", "guards", "engine", "rematch", "faces", "frame", "music"}
Beginning ==
  DoorsInit /\ GuardsInit /\ FloorsInit /\ EngineInit /\ RematchInit /\ FacesInit /\ FrameInit
Init ==
  /\ \/ part \in Extended /\ x1 = "-" /\ x2 = "-" /\ Parked3 /\ Parked6
     \/ part = "rooms" /\ V!Init /\ Parked6
     \/ part = "textures" /\ X!Init /\ x5 = "-" /\ Parked6
     \/ part = "setup" /\ U!Init
     \/ part = "looks" /\ Q!Init /\ Parked6
     \/ part = "stage" /\ S!Init /\ Parked3 /\ Parked6
  /\ Beginning
  /\ part # "floors" => gpos = [g \in Walkers |-> StairSeat[1]]
  /\ IF part = "music" THEN tune \in Songs ELSE tune = Lullaby
  /\ MusicInit


instances == <<x1, x2, x3, x4, x5, x6, x7, x8>>
Rest(p) == part = p /\ UNCHANGED <<part, instances>>
InFloors == Rest("floors") /\ UNCHANGED <<doorVars, guardVars, memoryVars, rematchVars, faceVars, frameVars, musicVars>>
InDoors == Rest("doors") /\ UNCHANGED <<floorVars, guardVars, memoryVars, rematchVars, faceVars, frameVars, musicVars>>
InGuards == Rest("guards") /\ UNCHANGED <<floorVars, doorVars, memoryVars, rematchVars, faceVars, frameVars, musicVars>>
InEngine == Rest("engine") /\ UNCHANGED <<floorVars, doorVars, guardVars, rematchVars, faceVars, frameVars, musicVars>>
InRematch == Rest("rematch") /\ UNCHANGED <<floorVars, doorVars, guardVars, memoryVars, faceVars, frameVars, musicVars>>
InFaces == Rest("faces") /\ UNCHANGED <<floorVars, doorVars, guardVars, memoryVars, rematchVars, frameVars, musicVars>>
InFrame == Rest("frame") /\ UNCHANGED <<floorVars, doorVars, guardVars, memoryVars, rematchVars, faceVars, musicVars>>
InMusic == Rest("music") /\ UNCHANGED <<floorVars, doorVars, guardVars, memoryVars, rematchVars, faceVars, frameVars>>
In(p) ==
  /\ part = p
  /\ UNCHANGED <<part, floorVars, doorVars, guardVars, memoryVars, rematchVars, faceVars, frameVars, musicVars>>
Two(p) == In(p) /\ UNCHANGED <<x3, x4, x5, x6, x7, x8>>
Five(p) == In(p) /\ UNCHANGED <<x6, x7, x8>>

StepOnStair == InFloors /\ \E p \in Players : PlayerStep(p)
RespawnOnStair == InFloors /\ \E p \in Players : RespawnStep(p)
WalkOnStair == InFloors /\ \E g \in Walkers : WalkerStep(g)

PassageTick == InDoors /\ \E p \in Users : PlayerTick(p)
ChaseTick == InDoors /\ DoorsAndGuard

QuietGuards == InGuards /\ QuietTick
FireAtGuards == InGuards /\ FireTick
RespawnAtGuards == InGuards /\ RespawnTick

StepInHall == InFaces /\ TakeStep
UseInHall == InFaces /\ UseGate
DrawHall == InFaces /\ DrawSome
LoadHall == InFaces /\ LoadSome

SampleMixed == InMusic /\ MixMusic

BootEngine == InEngine /\ (BootApi \/ FailedBootApi)
ShutEngine == InEngine /\ Shutdown
LoadLevel == InEngine /\ LoadStage
PlaySound == InEngine /\ \E k \in SoundKinds : Play(k)
MixSample == InEngine /\ AudioCb

FrameBegins == InFrame /\ BeginFrame
PartBegins == InFrame /\ \E p \in Parts : BeginPart(p)
PartEnds == InFrame /\ (EndPart \/ EndFrame)
TextureBound == InFrame /\ Bind
VertsLoaded == InFrame /\ LoadVerts
Emitted == InFrame /\ Emit
Branched == InFrame /\ (Branch \/ Return)

Draw == Five("rooms") /\ V!Draw
Swing == Five("rooms") /\ V!Swing
GoOn == Five("rooms") /\ V!Walk

StartEngine == InRematch /\ StartPage
ListStage == InRematch /\ ChooseStage
ListSeats == InRematch /\ ChooseSeats
BeginMatches == InRematch /\ StartMatch
EndMatches == InRematch /\ EndMatch
WalkAbout == InRematch /\ WalkTick
Fight == InRematch /\ FightTick
TakePickup == InRematch /\ PickupTick

LoadTexture == In("textures") /\ UNCHANGED <<x5, x6, x7, x8>> /\ X!Load

LoadProps == In("setup") /\ U!LoadProps
ChoosePickup == In("setup") /\ U!ChoosePickup
Unload == In("setup") /\ U!Unload
Die == In("setup") /\ \E i \in DOMAIN x3 : U!Die(i)

TickGuards == Five("looks") /\ Q!Tick
DrawProps == Five("looks") /\ Q!DrawProps

LoadFiles == Two("stage") /\ S!LoadStage

Next ==
  \/ StepOnStair \/ RespawnOnStair \/ WalkOnStair
  \/ PassageTick \/ ChaseTick
  \/ QuietGuards \/ FireAtGuards \/ RespawnAtGuards
  \/ StepInHall \/ UseInHall \/ DrawHall \/ LoadHall
  \/ SampleMixed
  \/ BootEngine \/ ShutEngine \/ LoadLevel \/ PlaySound \/ MixSample
  \/ FrameBegins \/ PartBegins \/ PartEnds \/ TextureBound \/ VertsLoaded \/ Emitted \/ Branched
  \/ Draw \/ Swing \/ GoOn
  \/ StartEngine \/ ListStage \/ ListSeats \/ BeginMatches \/ EndMatches
  \/ WalkAbout \/ Fight \/ TakePickup
  \/ LoadTexture
  \/ LoadProps \/ ChoosePickup \/ Unload \/ Die
  \/ TickGuards \/ DrawProps
  \/ LoadFiles

vars == <<part, instances, floorVars, doorVars, guardVars, memoryVars, rematchVars, faceVars, frameVars, musicVars>>
Spec == Init /\ [][Next]_vars

(* Bodies that have met share a cylinder; see Guards. *)
Apart == ~met

-------------------------------------------------------------------------------
(* What a stage's files say is what is loaded, and what the engine has of   *)
(* it is what is shown: guards, guns and spawns, rooms and their neighbours, *)
(* the texels of textures, the rooms in view and the guards in them; see    *)
(* Setup, StageFile, TexBank, VisibleRooms and Looks.                       *)
Presented ==
  CASE part = "setup" -> U!RightGuns /\ U!PickupLies /\ U!OneGunEach /\ U!RealSpawns
    [] part = "stage" -> S!OwnFields /\ S!OwnNeighbours
    [] part = "textures" -> X!AsMade /\ X!BestCodes
    [] part = "rooms" -> V!TypeOK /\ V!ShowsView
    [] part = "looks" -> Q!TypeOK /\ Q!InStep /\ Q!OwnLooks
    [] OTHER -> TRUE
===============================================================================
