-------------------------------- MODULE Engine --------------------------------
(***************************************************************************)
(* Who owns the engine's memory: glue/port_api.c, fs/pack_dma.c,           *)
(* audio/bank.c, the sound slots of audio/mixer.c and the loading of       *)
(* fs/stage.c.  A block is what one malloc() returned; pointers to it are  *)
(* kept by the module that decoded it (which frees it) and by the mixer or *)
(* the drawing code, which only read.  A block's number is used again      *)
(* once it is free and nothing points at it, so that a pointer that was    *)
(* left behind is told from a new one.                                     *)
(*                                                                         *)
(* Sounds are played from the bank's entry for their kind (gun, hit, step) *)
(* or, for a fall or a yelp, from a copy of the pointer: their variants    *)
(* take turns in the bank.  0 is the null pointer.                         *)
(***************************************************************************)
EXTENDS Integers, Sequences, FiniteSets, Functions

CONSTANTS
  Plain,     \* the kinds of sound with one sample
  Varied,    \* the kinds with Variants of them: falls, yelps
  Variants,
  Frames     \* the samples of a sound

ASSUME EngineAssumption ==
  /\ IsFiniteSet(Plain) /\ IsFiniteSet(Varied) /\ Plain \intersect Varied = {}
  /\ Variants \in Nat \ {0} /\ Frames \in Nat

VARIABLES
  heap,      \* the blocks in use
  eng,       \* ready, g_pack_copy, what g_pack points into
  sound,     \* the bank: see NoSound
  slot,      \* kind -> [left, pcm, bank]: the sound that is played
  music,     \* the song, the instruments, what a voice plays
  stage      \* g_bg, g_stan, rooms: the inflated blobs and model files; frame

memoryVars == <<heap, eng, sound, slot, music, stage>>

SoundKinds == Plain \union Varied
NoSound == [own |-> [k \in Plain |-> 0], kept |-> [k \in Varied |-> << >>],
            bank |-> [k \in SoundKinds |-> 0], next |-> [k \in Varied |-> 1]]
NoMusic == [song |-> 0, on |-> FALSE, wave |-> 0, inst |-> 0, voice |-> 0]
Silent == [left |-> 0, pcm |-> 0, bank |-> FALSE]
NoLevel == [bg |-> 0, stan |-> 0, rooms |-> {}, level |-> FALSE]

-------------------------------------------------------------------------------
(* Every pointer, and those that are dereferenced.                         *)

SoundOwned(m) == Range(m.sound.own) \union UNION {Range(m.sound.kept[k]) : k \in Varied}
Owned(m) ==
  {m.eng.copy, m.music.song, m.music.wave, m.stage.bg, m.stage.stan} \union m.stage.rooms
    \union SoundOwned(m)

(* What port_audio_cb() would read at its next sample. *)
Heard(m) ==
  {m.slot[k].pcm : k \in {j \in Varied : m.slot[j].left > 0}}
    \union {m.sound.bank[k] : k \in {j \in Plain : m.slot[j].left > 0 /\ m.slot[j].bank}}
    \union {m.music.voice} \union (IF m.music.on THEN {m.music.song, m.music.inst} ELSE {})

(* What port_stage_draw() would read, and what a sound or a load would. *)
DrawnFrom(m) == IF m.stage.bg = 0 THEN {} ELSE {m.stage.bg} \union m.stage.rooms
Looked(m) ==
  {m.eng.open, m.music.inst} \union Range(m.sound.bank)
    \union UNION {Range(m.sound.kept[k]) : k \in Varied}
Pointers(m) == Owned(m) \union Heard(m) \union Looked(m) \union {m.slot[k].pcm : k \in SoundKinds}

(* malloc(), for everything in S: blocks that nothing points at. *)
Fresh(m, S) ==
  LET used == m.heap \union Pointers(m)
      spare == (1 .. Cardinality(used) + Cardinality(S)) \ used
  IN  CHOOSE b \in Injection(S, spare) : TRUE
Freed(m, bs) == [m EXCEPT !.heap = @ \ bs]

-------------------------------------------------------------------------------
(* audio/bank.c and the parts of audio/mixer.c it calls.                   *)

(* The samples of some kinds of sound. *)
Samples(kinds) == {s \in kinds \X (1 .. Variants) : s[1] \in Plain => s[2] = 1}

(* port_audio_unload_pack_sfx(): drop_kind() takes a kind out of the bank   *)
(* and, if it has one sample, out of the mixer; drop_falls(), drop_yelps(). *)
UnloadPackSfx(m) ==
  [Freed(m, SoundOwned(m))
     EXCEPT !.sound = NoSound, !.slot = [k \in SoundKinds |-> IF k \in Plain THEN Silent ELSE @[k]]]

UnloadSeq(m) ==
  [Freed(m, {m.music.song}) EXCEPT !.music.song = 0, !.music.on = FALSE, !.music.voice = 0]

(* port_audio_unload_pack_instruments(): the mixer lets go of them first. *)
UnloadInstruments(m) ==
  [Freed(m, {m.music.wave}) EXCEPT !.music.inst = 0, !.music.voice = 0, !.music.wave = 0]

\* Mutant: the sound that plays on a copied pointer is forgotten.
AudioInitKeeps(m) ==
  [UnloadSeq(m) EXCEPT !.slot = [k \in SoundKinds |-> IF k \in Varied THEN m.slot[k] ELSE Silent]]

(* port_audio_init(), and port_audio_shutdown() *)
AudioInit(m) == [UnloadSeq(m) EXCEPT !.slot = [k \in SoundKinds |-> Silent]]

(* port_audio_load_pack_sfx(): the samples the pack has, the first of each  *)
(* kind in the bank.                                                        *)
LoadPackSfx(m, kinds) ==
  LET p == UnloadPackSfx(m)
      b == Fresh(p, Samples(kinds))
  IN  [p EXCEPT
         !.heap = @ \union Range(b),
         !.sound = [own |-> [k \in Plain |-> IF k \in kinds THEN b[<<k, 1>>] ELSE 0],
                    kept |-> [k \in Varied |-> IF k \in kinds THEN [i \in 1 .. Variants |-> b[<<k, i>>]] ELSE << >>],
                    bank |-> [k \in SoundKinds |-> IF k \in kinds THEN b[<<k, 1>>] ELSE 0],
                    next |-> [k \in Varied |-> 1]]]

(* port_audio_load_pack_music(): the instruments only with a song. *)
LoadPackMusic(m, song, instruments) ==
  LET p == UnloadInstruments(UnloadSeq(m))
      b == Fresh(p, 1 .. 2)
      s == [p EXCEPT !.heap = @ \union {b[1]}, !.music.song = b[1], !.music.on = TRUE]
  IN  IF ~song THEN p
      ELSE IF ~instruments THEN s
      ELSE [s EXCEPT !.heap = @ \union {b[2]}, !.music.wave = b[2], !.music.inst = b[2]]

-------------------------------------------------------------------------------
(* fs/stage.c and fs/prop.c.                                               *)

(* port_stage_unload(), with clear_rooms() and port_prop_unload() *)
LevelUnload(m) ==
  [Freed(m, {m.stage.bg, m.stage.stan} \union m.stage.rooms) EXCEPT !.stage = NoLevel]

(* port_stage_load() of a level it knows: what went wrong, if anything.  The *)
(* blobs of the rooms and the files of the props are one block.              *)
LevelLoad(m, wrong) ==
  LET p == LevelUnload(m)
      b == Fresh(p, 1 .. 3)
  IN  IF wrong \in {"no bg", "no stan", "bad header", "bad room 1"} THEN p
      ELSE [p EXCEPT !.heap = @ \union Range(b),
                     !.stage = [bg |-> b[1], stan |-> b[2], rooms |-> {b[3]}, level |-> TRUE]]

-------------------------------------------------------------------------------
(* glue/port_api.c                                                         *)

PortShutdown(m) == [m EXCEPT !.eng.open = 0]

ApiShutdown(m) ==
  LET p == PortShutdown(AudioInit(UnloadSeq(UnloadInstruments(UnloadPackSfx(LevelUnload(m))))))
  IN  [Freed(p, {p.eng.copy}) EXCEPT !.eng.copy = 0, !.eng.ready = FALSE]

(* The pack is copied before the engine that runs is shut down. *)
ApiInit(m, wrong, kinds, song, instruments) ==
  LET n == [m EXCEPT !.eng.ready = FALSE]
      b == Fresh(n, {1})[1]
      d == ApiShutdown([n EXCEPT !.heap = @ \union {b}])
      o == [d EXCEPT !.eng.copy = b, !.eng.open = b]
  IN  IF wrong \in {"args", "oom"} THEN n
      ELSE IF wrong \in {"pack", "hash", "g1"} THEN ApiShutdown(o)
      ELSE [LoadPackMusic(LoadPackSfx(AudioInit(o), kinds), song, instruments) EXCEPT !.eng.ready = TRUE]

Now == [heap |-> heap, eng |-> eng, sound |-> sound, slot |-> slot, music |-> music, stage |-> stage]
Becomes(m) ==
  /\ heap' = m.heap \ {0} /\ eng' = m.eng /\ sound' = m.sound
  /\ slot' = m.slot /\ music' = m.music /\ stage' = m.stage

BootApi ==
  \E song, instruments \in BOOLEAN, kinds \in SUBSET SoundKinds :
    Becomes(ApiInit(Now, "nothing", kinds, song, instruments))
FailedBootApi ==
  \E wrong \in {"args", "oom", "pack", "hash", "g1"} :
    Becomes(ApiInit(Now, wrong, {}, FALSE, FALSE))

Shutdown == Becomes(ApiShutdown(Now))

LoadStage ==
  /\ eng.ready
  /\ \E wrong \in {"no bg", "no stan", "bad header", "bad room 1", "nothing"} :
       Becomes(LevelLoad(Now, wrong))

(* queue_sfx(), queue_hit() and queue_step() leave the pointer in the bank; *)
(* queue_overlay() and queue_voice() copy it, after port_audio_play_fall()  *)
(* or port_audio_play_yelp() has put the next variant there.                *)
Queued(m, k) ==
  [m EXCEPT !.slot[k] = [left |-> Frames, bank |-> m.sound.bank[k] # 0,
                         pcm |-> IF k \in Varied THEN m.sound.bank[k] ELSE 0]]
Rotated(m, k) ==
  LET n == Len(m.sound.kept[k])
  IN  IF n = 0 THEN m
      ELSE [m EXCEPT !.sound = [m.sound EXCEPT !.bank[k] = m.sound.kept[k][m.sound.next[k]],
                                                !.next[k] = (@ % n) + 1]]
Play(k) == Becomes(Queued(IF k \in Varied THEN Rotated(Now, k) ELSE Now, k))

(* port_audio_cb(), one sample; a note may begin on an instrument or end. *)
AudioCb ==
  /\ \E v \in IF music.on THEN {music.inst, 0} ELSE {music.voice, 0} :
       music' = [music EXCEPT !.voice = v]
  /\ slot' = [k \in SoundKinds |-> [slot[k] EXCEPT !.left = IF @ > 0 THEN @ - 1 ELSE 0]]
  /\ UNCHANGED <<heap, eng, sound, stage>>

EngineInit ==
  /\ heap = {} /\ eng = [ready |-> FALSE, copy |-> 0, open |-> 0]
  /\ sound = NoSound /\ slot = [k \in SoundKinds |-> Silent]
  /\ music = NoMusic /\ stage = NoLevel

EngineNext == BootApi \/ FailedBootApi \/ Shutdown \/ LoadStage \/ (\E k \in SoundKinds : Play(k)) \/ AudioCb

EngineSpec == EngineInit /\ [][EngineNext]_memoryVars

-------------------------------------------------------------------------------
EngineTypeOK ==
  /\ heap \subseteq Nat \ {0}
  /\ \A k \in SoundKinds : slot[k].left \in 0 .. Frames
  /\ eng.ready => eng.open # 0

(* Nothing that is mixed, drawn, played or looked up next points at memory *)
(* that was freed, whichever sounds still play when a pack is loaded, and  *)
(* at whichever step loading a pack or a stage fails.                      *)
NoFreed == (Heard(Now) \union DrawnFrom(Now) \union Looked(Now)) \ {0} \subseteq heap

(* And nothing is lost: each block in use has an owner that will free it.  *)
NoLeak == heap = Owned(Now) \ {0}

Accounted == NoFreed /\ NoLeak
===============================================================================
