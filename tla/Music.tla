--------------------------------- MODULE Music ---------------------------------
(***************************************************************************)
(* The sequence player of port/audio/mixer.c.  A song has tracks of events *)
(* with a delta in ticks before each; seq_next_delta() and                 *)
(* seq_next_event() share the tracks' deltas, which either of them may     *)
(* have to bring up to date first (g_seq_delta_flag).  The audio callback  *)
(* mixes one sample at a time: it pumps the events that are due and plays  *)
(* the voices, each with a note's length and, if its sound has one, an     *)
(* envelope.                                                               *)
(*                                                                         *)
(* The bytes of a track are its events (block copies and running status    *)
(* undone); pitch, pan, amplitude and loops without end (a count of 255)   *)
(* are left out.                                                           *)
(***************************************************************************)
EXTENDS Integers, Sequences, FiniteSetsExt

CONSTANTS
  Tracks,    \* 1 .. n
  Voices,    \* 1 .. SEQ_VOICES
  Songs,     \* the songs: track -> its events
  PumpMax,   \* the events of one sample (64)
  Den,       \* g_seq_div * 1000000, in units of rate * microseconds
  Tempo0,    \* the tempo before the first tempo event
  Timbre     \* channel -> [env, atk, dec, rel, len]; len 0: looped

Events ==
  [delta : Nat, kind : {"on", "off", "tempo", "loop", "eot"}, arg : Nat, dur : Nat, back : Nat]

(* A loop leads back into its track. *)
ASSUME MusicAssumption ==
  /\ Tracks \subseteq Nat \ {0}
  /\ Voices \subseteq Nat \ {0} /\ Voices # {}
  /\ \A s \in Songs :
       /\ s \in [Tracks -> Seq(Events)]
       /\ \A t \in Tracks : s[t] # <<>> /\ \A k \in 1 .. Len(s[t]) : s[t][k].back < k
  /\ PumpMax \in Nat /\ Den \in Nat \ {0} /\ Tempo0 \in Nat \ {0}
  /\ Timbre \in [Tracks -> [env : BOOLEAN, atk : Nat, dec : Int, rel : Nat, len : Nat]]

VARIABLES
  tune,      \* the song that was loaded
  seq,       \* the statics of the walker and the voices: see Primed
  clock,     \* samples mixed since the song began
  late       \* those of them that began with events left over by the pump

musicVars == <<tune, seq, clock, late>>

Hushed == [alive |-> FALSE, left |-> 0, note |-> 0, ch |-> 0,
           phase |-> "none", env |-> 0, pos |-> 0]

EventAt(s, t) == tune[t][s.loc[t]]
AtEnd(s, t) == s.loc[t] > Len(tune[t])
DeltaOf(s, t) == IF AtEnd(s, t) THEN 0 ELSE EventAt(s, t).delta

-------------------------------------------------------------------------------
(* Voices.                                                                 *)
HasRelease(v) == v.phase # "none" /\ Timbre[v.ch].rel > 0

\* Mutant: the note's time is up, and its release does not begin.
LetGoSilently(v) == [v EXCEPT !.left = 0]

(* env_begin_release(), or seq_voice_kill() where there is no release. *)
LetGo(v) ==
  IF HasRelease(v) /\ v.phase # "release"
  THEN [v EXCEPT !.left = 0, !.phase = "release", !.env = Timbre[v.ch].rel]
  ELSE Hushed

(* seq_note_off(): of any channel. *)
NoteOff(vs, note) ==
  [i \in Voices |-> IF vs[i].alive /\ vs[i].note = note THEN LetGo(vs[i]) ELSE vs[i]]

(* The first voice with no time left, or the one with the least. *)
VoiceFor(vs) ==
  LET least == Min({vs[i].left : i \in Voices})
  IN  Min({i \in Voices : vs[i].left = least})

EnvSustain(v) == [v EXCEPT !.phase = "sustain", !.env = 0]
EnvDecay(v) ==
  IF Timbre[v.ch].dec < 0 THEN EnvSustain(v)
  ELSE [v EXCEPT !.phase = "decay", !.env = Timbre[v.ch].dec]
EnvAttack(v) ==
  IF Timbre[v.ch].atk = 0 THEN EnvDecay(v)
  ELSE [v EXCEPT !.phase = "attack", !.env = Timbre[v.ch].atk]

(* seq_note_on() *)
NoteOn(vs, ch, note, dur) ==
  LET v == [Hushed EXCEPT !.alive = TRUE, !.note = note, !.ch = ch, !.left = Max({dur, 2})]
  IN  [vs EXCEPT ![VoiceFor(vs)] = IF Timbre[ch].env THEN EnvAttack(v) ELSE v]

(* env_step(): a voice and whether its release is over. *)
EnvStep(v) ==
  LET w == [v EXCEPT !.env = Max({@ - 1, 0})]
  IN  IF v.phase \in {"none", "sustain"} THEN v
      ELSE IF w.env > 0 \/ v.phase = "release" THEN w
      ELSE IF v.phase = "attack" THEN EnvDecay(w)
      ELSE EnvSustain(w)
Released(v) == v.phase = "release" /\ v.env = 0

(* seq_mix_sample(), of one voice. *)
Played(v) ==
  LET w == EnvStep([v EXCEPT !.pos = IF Timbre[v.ch].len = 0 THEN 0 ELSE @ + 1])
  IN  IF ~v.alive \/ (Timbre[v.ch].len > 0 /\ v.pos >= Timbre[v.ch].len) THEN Hushed
      ELSE IF v.left = 1 THEN LetGo([w EXCEPT !.left = 0])
      ELSE IF v.left > 1 THEN [w EXCEPT !.left = @ - 1]
      ELSE IF Released(w) THEN Hushed ELSE w

-------------------------------------------------------------------------------
(* The walker.                                                             *)

(* A moment of the song: the ticks that seq_next_delta() has handed out so   *)
(* far, and the time they take.                                             *)
Outset == [ticks |-> 0, time |-> 0]

\* Mutant: the deltas are brought up to date in either case.
UpdatedAgain(s) == [t \in Tracks |-> Max({0, s.delta[t] - s.last})]

(* The deltas, brought up to date unless that was done since the last event. *)
UpToDate(s) ==
  [t \in Tracks |-> IF t \in s.valid /\ s.flag THEN Max({0, s.delta[t] - s.last})
                    ELSE s.delta[t]]

FirstDelta(s) == LET d == UpToDate(s) IN Min({d[t] : t \in s.valid})

(* seq_next_delta() *)
NextDelta(s) == [s EXCEPT !.delta = UpToDate(s), !.flag = FALSE]

Ended(s, t) == [s EXCEPT !.valid = @ \ {t}]
Passed(s, t) == [s EXCEPT !.loc[t] = @ + 1]

(* SEQ_LOOPEND: the loop's counter is a byte of the loaded song. *)
LoopEnd(s, t) ==
  LET k == s.loc[t]
  IN  IF s.count[t][k] = 0
      THEN [Passed(s, t) EXCEPT !.count[t][k] = EventAt(s, t).arg]
      ELSE [s EXCEPT !.count[t][k] = @ - 1, !.loc[t] = k - EventAt(s, t).back]

(* seq_apply_event(): a track that is out of bytes is dropped. *)
Apply(s, t) ==
  IF AtEnd(s, t) THEN Ended(s, t)
  ELSE LET e == EventAt(s, t) IN
       CASE e.kind = "eot" -> Ended(s, t)
         [] e.kind = "loop" -> LoopEnd(s, t)
         [] e.kind = "tempo" -> [Passed(s, t) EXCEPT !.tempo = IF e.arg = 0 THEN @ ELSE e.arg]
         [] e.kind = "on" -> [Passed(s, t) EXCEPT !.vs = NoteOn(@, t, e.arg, e.dur)]
         [] e.kind = "off" -> [Passed(s, t) EXCEPT !.vs = NoteOff(@, e.arg)]

(* seq_next_event(): the first track of those that are due first. *)
NextEvent(s) ==
  LET d == UpToDate(s)
      t == Min({u \in s.valid : d[u] = FirstDelta(s)})
      a == Apply([s EXCEPT !.delta = d], t)
  IN  IF s.valid = {} THEN s
      ELSE [a EXCEPT !.last = d[t], !.flag = TRUE, !.due[t] = s.now,
                     !.delta[t] = IF t \in a.valid THEN @ + DeltaOf(a, t) ELSE @]

\* Mutant: each wait is rounded by itself.
WaitRounded(s, ticks) ==
  [s EXCEPT !.wait = (ticks * s.tempo) \div Den, !.pending = TRUE,
            !.now = [ticks |-> @.ticks + ticks, time |-> @.time + ticks * s.tempo]]

(* seq_ticks_to_samples(): the fraction of a sample is carried on. *)
WaitFor(s, ticks) ==
  LET num == ticks * s.tempo + s.frac
  IN  [s EXCEPT !.wait = num \div Den, !.frac = num % Den, !.pending = TRUE,
                !.now = [ticks |-> @.ticks + ticks, time |-> @.time + ticks * s.tempo]]

(* One round of the loop of seq_pump_due(). *)
PumpOnce(s) ==
  LET p == IF s.pending THEN [NextEvent(s) EXCEPT !.pending = FALSE] ELSE s
      first == FirstDelta(p)
      q == NextDelta(p)
  IN  IF p.valid = {} THEN [p EXCEPT !.on = FALSE]
      ELSE IF first > 0 THEN WaitFor(q, first)
      ELSE LET e == NextEvent(q) IN [e EXCEPT !.on = e.valid # {}]

(* seq_pump_due(): until there is something to wait for. *)
Pumped(s) ==
  LET after[n \in 0 .. PumpMax] ==
        IF n = 0 THEN s
        ELSE LET p == after[n - 1]
             IN  IF p.on /\ p.wait = 0 THEN PumpOnce(p) ELSE p
  IN  after[PumpMax]

(* seq_prime(), which port_audio_load_seq() ends with. *)
Primed(song) ==
  [on |-> TRUE, valid |-> Tracks, loc |-> [t \in Tracks |-> 1],
   delta |-> [t \in Tracks |-> song[t][1].delta], last |-> 0, flag |-> TRUE,
   wait |-> 0, pending |-> FALSE, frac |-> 0, tempo |-> Tempo0,
   count |-> [t \in Tracks |-> [k \in DOMAIN song[t] |-> song[t][k].arg]],
   vs |-> [i \in Voices |-> Hushed],
   due |-> [t \in Tracks |-> Outset], now |-> Outset]

(* port_audio_cb(), one sample. *)
MixMusic ==
  LET w == [seq EXCEPT !.wait = Max({@ - 1, 0})]
      p == IF ~seq.on THEN seq ELSE IF w.wait = 0 THEN Pumped(w) ELSE w
  IN  /\ seq.on \/ \E i \in Voices : seq.vs[i].alive
      /\ seq' = [p EXCEPT !.vs = [i \in Voices |-> Played(@[i])]]
      /\ clock' = IF seq.on THEN clock + 1 ELSE clock
      /\ late' = IF seq.on /\ clock > 0 /\ seq.wait = 0 THEN late + 1 ELSE late
      /\ UNCHANGED tune

MusicInit ==
  /\ tune \in Songs
  /\ seq = Primed(tune)
  /\ clock = 0 /\ late = 0

MusicSpec == MusicInit /\ [][MixMusic]_musicVars

-------------------------------------------------------------------------------
MusicTypeOK ==
  /\ clock \in Nat /\ late \in Nat
  /\ seq.valid \subseteq Tracks
  /\ \A t \in Tracks : seq.loc[t] \in 1 .. Len(tune[t]) + 1
  /\ seq.frac \in 0 .. Den - 1
  /\ \A i \in Voices :
       /\ seq.vs[i].left >= 0 /\ seq.vs[i].env >= 0
       /\ seq.vs[i].phase \in {"none", "attack", "decay", "sustain", "release"}

(* The tracks keep time with one another: the deltas that one track has    *)
(* passed are the ticks the song has come to when its next event is due,   *)
(* whichever other tracks had events in between.                           *)
Together ==
  \A t \in seq.valid :
    seq.now.ticks + (IF seq.flag THEN seq.delta[t] - seq.last ELSE seq.delta[t])
    - (IF seq.pending THEN FirstDelta(seq) ELSE 0)
      = seq.due[t].ticks + DeltaOf(seq, t)

(* A song is neither fast nor slow: the samples that were mixed before an  *)
(* event are the ticks before it at their tempos, rounded down once, over  *)
(* the whole song and not at each event; and one for each sample in which  *)
(* more events were due than the pump takes.                               *)
NoDrift ==
  seq.on /\ clock > 0 => clock - 1 + seq.wait = (seq.now.time \div Den) + late

(* No note hangs: a voice whose note is over is in its release. *)
NoHungNote ==
  \A i \in Voices : seq.vs[i].alive /\ seq.vs[i].left = 0 => seq.vs[i].phase = "release"

(* A song sounds as it is written: each event is played at the sample it   *)
(* is due, and each note ends.                                             *)
AsWritten == Together /\ NoDrift /\ NoHungNote
===============================================================================
