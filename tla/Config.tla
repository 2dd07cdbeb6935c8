--------------------------------- MODULE Config ---------------------------------
(***************************************************************************)
(* The 160 bytes a host publishes about its match (lobby.ts,               *)
(* match_config.ts), written and read a second time by the engine          *)
(* (net/match_config.c).  The host packs what it has chosen, the server    *)
(* passes the hex on, every peer unpacks it and starts (main.ts); the two  *)
(* programs must put every field at the same place.                        *)
(*                                                                         *)
(* A layout says which bytes a field has; a field is <<name, index>>, its  *)
(* value a sequence of bytes, lowest first.                                *)
(***************************************************************************)
EXTENDS Integers, Sequences, FiniteSets

CONSTANTS
  Hashes,    \* pack hashes, of 32 bytes
  BuildId,   \* LOBBY_BUILD_ID, 20 bytes
  Counts, Delays, Stages, GameLengths,  \* what a host may ask for
  Facility, Complex

ByteValues == 0 .. 255

ASSUME ConfigAssumption ==
  /\ Hashes \subseteq [1 .. 32 -> ByteValues] /\ BuildId \in [1 .. 20 -> ByteValues]
  /\ Counts \subseteq Int /\ Delays \subseteq Int /\ GameLengths \subseteq Int
  /\ Facility \in ByteValues /\ Complex \in ByteValues /\ Facility # Complex

VARIABLES
  asked,     \* what the host asked for
  chosen,    \* the fields that it packs
  published, \* the bytes of its config, or <<>>
  begins     \* what a peer starts with, by the language that read it

configVars == <<asked, chosen, published, begins>>

Size == 160     \* MATCH_CONFIG_BYTES
Protocol == 1   \* MATCH_CONFIG_PROTOCOL
Bounded(v, lo, hi) == IF v < lo THEN lo ELSE IF v > hi THEN hi ELSE v

Power == <<1, 256, 65536, 16777216>>
LowBytes(v, width) == [k \in 1 .. width |-> (v \div Power[k]) % 256]
Number(b) == IF Len(b) = 1 THEN b[1]
             ELSE IF Len(b) = 2 THEN b[1] + 256 * b[2]
             ELSE b[1] + 256 * b[2] + 65536 * b[3] + 16777216 * b[4]

-------------------------------------------------------------------------------
OneByte == {"region", "nseats", "delayTicks", "speedgraphframes", "aimSight", "autoAim",
            "lookAhead", "aimControl", "radar", "pad0"}
OneWord == {"rngSeed", "stage", "scenario", "gameLength"}
Fields ==
  ({"protocol", "packHash", "buildId"} \cup OneByte \cup OneWord) \X {0}
  \cup {"chars", "handicaps", "slider007"} \X (0 .. 3)
  \cup {"favWeapons"} \X (0 .. 7)
Width(f) ==
  CASE f[1] = "protocol" -> 2
    [] f[1] = "packHash" -> 32
    [] f[1] = "buildId" -> 20
    [] f[1] \in OneByte -> 1
    [] OTHER -> 4

(* encodeMatchConfig() of match_config.ts: where a name begins; a pair of   *)
(* favourites has eight bytes.                                              *)
TsFirst ==
  [protocol |-> 0, region |-> 2, nseats |-> 3, delayTicks |-> 4, speedgraphframes |-> 5,
   aimSight |-> 6, autoAim |-> 7, lookAhead |-> 8, aimControl |-> 9, radar |-> 10, pad0 |-> 11,
   rngSeed |-> 12, stage |-> 16, scenario |-> 20, gameLength |-> 24, chars |-> 28, handicaps |-> 44,
   slider007 |-> 92, packHash |-> 108, buildId |-> 140]
TsPlace(f) ==
  IF f[1] = "favWeapons" THEN (IF f[2] % 2 = 0 THEN 60 ELSE 64) + 8 * (f[2] \div 2)
  ELSE TsFirst[f[1]] + 4 * f[2]

(* encodeMatchConfig() and decodeMatchConfig() of match_config.c; the       *)
(* favourites in one row.                                                   *)
CFirst ==
  [protocol |-> 0, region |-> 2, nseats |-> 3, delayTicks |-> 4, speedgraphframes |-> 5,
   aimSight |-> 6, autoAim |-> 7, lookAhead |-> 8, aimControl |-> 9, radar |-> 10, pad0 |-> 11,
   rngSeed |-> 12, stage |-> 16, scenario |-> 20, gameLength |-> 24, chars |-> 28, handicaps |-> 44,
   favWeapons |-> 60, slider007 |-> 92, packHash |-> 108, buildId |-> 140]
CPlace(f) == CFirst[f[1]] + 4 * f[2]

TsPlaces == [f \in Fields |-> TsPlace(f)]
CPlaces == [f \in Fields |-> CPlace(f)]

(* Fields are written over 160 bytes of zero, and read from their places:   *)
(* those that have byte o are one or none.                                  *)
Owners(places, o) == {f \in Fields : places[f] < o /\ o <= places[f] + Width(f)}
Laid(places, c) ==
  [o \in 1 .. Size |-> LET own == Owners(places, o)
                           f == CHOOSE g \in own : TRUE
                       IN  IF own = {} THEN 0 ELSE c[f][o - places[f]]]
Unpacked(places, b) == [f \in Fields |-> SubSeq(b, places[f] + 1, places[f] + Width(f))]

Legal(c) == Number(c[<<"pad0", 0>>]) = 0 /\ Number(c[<<"protocol", 0>>]) = Protocol

\* Mutant: the words are read one place too far on.
CDecodeShifted(b) ==
  Unpacked([f \in Fields |-> IF f[1] \in OneWord THEN CPlace(f) + 4 ELSE CPlace(f)], b)

(* The four of them; one that refuses gives nothing. *)
TsEncode(c) == IF Legal(c) THEN Laid(TsPlaces, c) ELSE <<>>
TsDecode(b) == IF Len(b) = Size /\ Legal(Unpacked(TsPlaces, b)) THEN Unpacked(TsPlaces, b) ELSE <<>>
CEncode(c) == IF Legal(c) THEN Laid(CPlaces, c) ELSE <<>>
CDecode(b) == IF Legal(Unpacked(CPlaces, b)) THEN Unpacked(CPlaces, b) ELSE <<>>

-------------------------------------------------------------------------------
(* packedLobbyCfg(): what may be chosen is bounded, the rest is fixed. *)
Asked(n, delay, stage, length) ==
  [nseats |-> Bounded(n, 2, 4), delayTicks |-> Bounded(delay, 1, 3), speedgraphframes |-> 3,
   autoAim |-> 1, radar |-> 1, rngSeed |-> 1, protocol |-> Protocol,
   stage |-> IF stage = Complex THEN Complex ELSE Facility,
   gameLength |-> Bounded(length, 0, 6)]
PackedLobbyCfg(hash, n, delay, stage, length) ==
  LET value == Asked(n, delay, stage, length)
  IN  [f \in Fields |->
         CASE f[1] = "packHash" -> hash
           [] f[1] = "buildId" -> BuildId
           [] f[1] = "chars" -> LowBytes(f[2] + 1, 4)
           [] f[1] \in DOMAIN value -> LowBytes(value[f[1]], Width(f))
           [] OTHER -> LowBytes(0, Width(f))]

(* startLockstep(): seats of the roster or of the config, whichever are     *)
(* more; a peer without a config has defaults.                              *)
StartedWith(cfg, roster) ==
  LET Of(name, without) == IF cfg = <<>> THEN without ELSE Number(cfg[<<name, 0>>])
  IN  [nseats |-> Bounded(IF roster > Of("nseats", 0) THEN roster ELSE Of("nseats", 0), 2, 4),
       delay |-> Bounded(Of("delayTicks", 2), 1, 3),
       seed |-> Of("rngSeed", 1),
       stage |-> IF Of("stage", Facility) = Complex THEN Complex ELSE Facility,
       length |-> Bounded(Of("gameLength", 2), 0, 6)]

ConfigInit == asked = <<>> /\ chosen = <<>> /\ published = <<>> /\ begins = <<>>

(* publishLobbyCfg() *)
PublishCfg ==
  /\ begins = <<>>
  /\ \E h \in Hashes, n \in Counts, d \in Delays, s \in Stages, g \in GameLengths :
       /\ asked' = [nseats |-> n, delay |-> d, stage |-> s, length |-> g]
       /\ chosen' = PackedLobbyCfg(h, n, d, s, g)
  /\ published' = TsEncode(chosen')
  /\ UNCHANGED begins

(* onStart: with the config that came last, or with none. *)
BeginMatch ==
  /\ begins = <<>>
  /\ begins' = [ts |-> TsDecode(published),
                 c |-> IF published = <<>> THEN <<>> ELSE CDecode(published),
                 match |-> StartedWith(TsDecode(published), 2)]
  /\ UNCHANGED <<asked, chosen, published>>

ConfigNext == PublishCfg \/ BeginMatch
ConfigSpec == ConfigInit /\ [][ConfigNext]_configVars

-------------------------------------------------------------------------------
(* A peer starts the match the host asked for, within the limits, whichever *)
(* program reads the bytes; either program writes them back the same.       *)
SameMatch ==
  begins # <<>> /\ published # <<>> =>
    /\ begins.ts = chosen /\ begins.c = chosen
    /\ CEncode(begins.ts) = published /\ TsEncode(begins.c) = published
    /\ begins.match.stage \in {Facility, Complex}
    /\ asked.stage = Complex <=> begins.match.stage = Complex
    /\ asked.nseats \in 2 .. 4 => begins.match.nseats = asked.nseats
    /\ asked.delay \in 1 .. 3 => begins.match.delay = asked.delay
    /\ asked.length \in 0 .. 6 => begins.match.length = asked.length
===============================================================================
