SPECIFICATION Spec
CONSTANT NoFile = NoFile
CONSTANT Slots = {1, 2}
CONSTANT Textures = {ta, tb, tc}
CONSTANT Absent = {}
CONSTANT Verts = {1}
CONSTANT Parts <- Drawables
CONSTANT Depth = 1
CONSTANT Commands = 5
CONSTANT FrameLimit = 2
SYMMETRY Renamed
CONSTANT Users = {1, 2}
CONSTANT Door = {6}
CONSTANT PassageEnd = 14
CONSTANT HalfT = 3
CONSTANT Skin = 2
CONSTANT Longest = 7
CONSTANT Stride = 1
CONSTANT UseRange = 5
CONSTANT KeepAway = 4
CONSTANT SightRange = 6
CONSTANT AimOffset = 4
CONSTANT OpenTicks = 2
CONSTANT StartAt <- Starts
CONSTANT NGuards = 2
CONSTANT Walker = 2
CONSTANT PathA = 5
CONSTANT PathB = 7
CONSTANT Arrive = 0
CONSTANT CorridorEnd = 7
CONSTANT Wall = {7}
CONSTANT SpawnBox = {1}
CONSTANT Spawn = 0
CONSTANT Posts <- GuardPosts
CONSTANT MinFire = 2
CONSTANT FireRange = 3
CONSTANT HearRange = 3
CONSTANT NoticeTicks = 2
CONSTANT Cooldown = 1
CONSTANT MaxHealth = 1
CONSTANT Players = {1}
CONSTANT Walkers = {"guard"}
CONSTANT Tiles <- Mesh
CONSTANT Eye <- Heights
CONSTANT Link <- Links
CONSTANT Foot <- StairFoot
CONSTANT Far <- Overlaps
CONSTANT LandsAt <- Landings
CONSTANT Big = TRUE
CONSTANT CurCache = 3
CONSTANT Seat <- StairSeat
CONSTANT Plain = {"gun"}
CONSTANT Varied = {"fall"}
CONSTANT Variants = 2
CONSTANT Frames = 2
CONSTANT Stages = {"facility", "complex"}
CONSTANT HasSetup <- Setups
CONSTANT Intros <- SpawnCounts
CONSTANT MaxSeats = 3
CONSTANT Seeds = {1, 2}
CONSTANT Lengths = {1}
CONSTANT Scenarios = {"normal", "teams"}
CONSTANT NoneLoaded = "-"
CONSTANT MaxLoads = 2
CONSTANT Tabs = {1}
CONSTANT HallEnd = 11
CONSTANT HallRoom <- HallRooms
CONSTANT Levels <- FaceLevels
CONSTANT EntryAt = 3
CONSTANT Pace = 2
CONSTANT BodyRadius = 2
CONSTANT FaceSkin = 1
CONSTANT Lean = 2
CONSTANT Across = 4
CONSTANT OpeningNear = 1
CONSTANT SlabHalf = 1
CONSTANT SlabPush = 1
CONSTANT SlabRange = 6
CONSTANT FaceCap = 4
CONSTANT SlabCap = 5
CONSTANT MaxFaces = 4
CONSTANT MaxPerRoom = 2
CONSTANT MaxLooked = 3
CONSTANT MaxNoted = 24
CONSTANT Tracks = {1, 2}
CONSTANT Voices = {1, 2}
CONSTANT Songs <- SongBook
CONSTANT PumpMax = 4
CONSTANT Den = 3
CONSTANT Tempo0 = 2
CONSTANT Timbre <- Timbres
CONSTRAINT Apart
CHECK_DEADLOCK FALSE
INVARIANT OnFloor
 
INVARIANT Accounted
 
INVARIANT AsEmitted
INVARIANT AsWritten
INVARIANT FreshStart
INVARIANT OwnFaces
 
PROPERTY NoPassShut
PROPERTY ChaseAdvances
PROPERTY DeadStay
