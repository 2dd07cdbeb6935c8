---------------------------------- MODULE Tape ----------------------------------
(***************************************************************************)
(* What an engine is compared by: the sums of det/checksum.c, which peers  *)
(* exchange and which a tape holds for each of its frames, and the tapes   *)
(* of det/tape.c, which replay a match by its pads.                        *)
(*                                                                         *)
(* A tick of the engine is any function of the engine and the pads (a      *)
(* constant: MatchSim and others model it).  A sum is the sequence of the  *)
(* values that are summed, as if CRC32C took no two to one.  A tape is a   *)
(* sequence of cells, one for each byte of a pad and for each larger value; *)
(* the second generator is left out, and ticks that fail.                   *)
(***************************************************************************)
EXTENDS Integers, Sequences, SequencesExt, FiniteSets

CONSTANTS
  Tick(_, _),   \* port_sim_tick(): of an engine and the pads of its seats
  Loaded,       \* the engine when its stage has been loaded
  Seeds, Pads, Turns,  \* pads without, and turns of a mouse of the first seat
  NSeats, MaxSeats, MaxFrames,
  Version

VARIABLES
  eng,      \* the engine that records: [rng, players, chr, doors, cyls, guards,
            \*  pickup, drops, score]
  twin,     \* that of another peer; then the one that replays
  frames,   \* what was recorded: [pads, turn, sum]
  seed,
  tape,     \* its cells, or <<>>
  altered,  \* the cell that was changed, or 0
  result    \* port_tape_replay(): [rc, tick]

vars == <<eng, twin, frames, seed, tape, altered, result>>

-------------------------------------------------------------------------------
(* port_checksum() *)

Flat(s) == FoldLeft(LAMBDA acc, t : acc \o t, <<>>, s)
Each(s, Values(_)) == Flat([i \in DOMAIN s |-> Values(s[i])])
Place(d) == IF d = <<>> THEN [model |-> -1, hidden |-> TRUE, at |-> 0] ELSE Last(d)
Drop(d) == <<d.model, d.hidden, d.at>>

PlayersSum(e) ==
  LET Values(p) == p.pose \o <<p.ammo, p.life, p.pad.b>>
  IN  <<Len(e.players)>> \o Each(e.players, Values)

(* port_stan_guard_dead_at() *)
DeadAt(e, at) == \E i \in DOMAIN e.cyls : e.cyls[i].hit /\ e.cyls[i].at = at

\* Mutant: of the dropped guns only the last is summed.
LastDropOnly(d) == Drop(Place(d))

(* The last dropped gun, and all of them when there is another. *)
Drops(d) == Drop(Place(d)) \o IF Len(d) > 1 THEN <<Len(d)>> \o Each(d, Drop) ELSE <<>>

PropsSum(e) ==
  LET Door(d) == <<d.open, d.frac>>
      Cylinder(c) == <<c.at, c.hit>>
      Guard(g) == <<g.at, g.alerted, DeadAt(e, g.at)>>
      alerted == Cardinality({i \in DOMAIN e.guards : e.guards[i].alerted})
  IN  <<Len(e.doors)>> \o Each(e.doors, Door) \o <<Len(e.cyls)>> \o Each(e.cyls, Cylinder)
        \o <<Len(e.guards), alerted>> \o Each(e.guards, Guard) \o <<e.pickup>> \o Drops(e.drops)

Sum(e) ==
  [rngLo |-> e.rng[1], rngHi |-> e.rng[2], players |-> PlayersSum(e), chrs |-> e.chr,
   props |-> PropsSum(e), objectives |-> e.score]

-------------------------------------------------------------------------------
(* port_tape_build() and port_tape_parse() *)

Header == 8       \* cells: magic, version, region, seed, hash, seats, reserved, frames
SumCells == 6
FrameCells(n) == 1 + 4 * n + SumCells

PadCells(p) == <<p.x % 256, p.y % 256, p.b % 256, p.b \div 256>>
SumsCells(s) == <<s.rngLo, s.rngHi, s.players, s.chrs, s.props, s.objectives>>

Build(s, n, all) ==
  <<"TAPE", Version, 0, s, "hash", n, 0, Len(all)>>
    \o Flat([i \in DOMAIN all |-> <<i - 1>> \o Each(all[i].pads, PadCells) \o SumsCells(all[i].sum)])

Signed(v) == IF v >= 128 THEN v - 256 ELSE v

\* Mutant: a stick is not a signed byte.
UnsignedPad(c) == [x |-> c[1], y |-> c[2], b |-> c[3] + 256 * c[4]]

ParsedPad(c) == [x |-> Signed(c[1]), y |-> Signed(c[2]), b |-> c[3] + 256 * c[4]]

Refused(cells) ==
  \/ Len(cells) < Header \/ cells[1] # "TAPE" \/ cells[2] # Version
  \/ cells[6] \notin 1 .. MaxSeats \/ cells[8] \notin 1 .. MaxFrames
  \/ Len(cells) < Header + FrameCells(cells[6]) * cells[8]

ParsedFrame(cells, i) ==
  LET n == cells[6]
      from == Header + FrameCells(n) * (i - 1)
      c == SubSeq(cells, from + 1, from + FrameCells(n))
      s == SubSeq(c, 4 * n + 2, Len(c))
  IN  [tick |-> c[1], pads |-> [k \in 1 .. n |-> ParsedPad(SubSeq(c, 4 * k - 2, 4 * k + 1))],
       sum |-> [rngLo |-> s[1], rngHi |-> s[2], players |-> s[3], chrs |-> s[4],
                props |-> s[5], objectives |-> s[6]]]

-------------------------------------------------------------------------------
(* port_rng_begin_match() and port_player_spawn(): what a stage has stays.  *)
Spawned(e, s) ==
  [e EXCEPT !.rng = <<s, 0>>, !.players = Loaded.players, !.chr = Loaded.chr, !.score = Loaded.score]

(* Each pad is set, with a turn of the mouse or none, before a tick. *)
Ticked(e, pads, turn) ==
  Tick([e EXCEPT !.players =
          [k \in DOMAIN e.players |-> [e.players[k] EXCEPT !.pad = pads[k], !.turn = IF k = 1 THEN turn ELSE 0]]],
       pads)

\* Mutant: the generator is compared to its last bit.
SameAll(a, b) == a = b

(* The high halves of the generators are not compared. *)
Same(a, b) == [a EXCEPT !.rngHi = 0] = [b EXCEPT !.rngHi = 0]

(* port_tape_replay(): [rc, tick], the first frame that differs. *)
Replay(cells, e) ==
  LET Played(r, i) ==
        LET f == ParsedFrame(cells, i)
            after == Ticked(r.eng, f.pads, 0)
        IN  IF r.rc # 0 THEN r
            ELSE [eng |-> after, rc |-> IF Same(Sum(after), f.sum) THEN 0 ELSE 1,
                  tick |-> IF Same(Sum(after), f.sum) THEN 0 ELSE f.tick]
      start == [eng |-> Spawned(e, cells[4]), rc |-> 0, tick |-> 0]
  IN  IF Refused(cells) THEN [rc |-> -1, tick |-> 0]
      ELSE LET r == FoldLeft(LAMBDA q, i : LET p == q IN Played(p, i), start,
                             [i \in 1 .. cells[8] |-> i])
           IN  [rc |-> r.rc, tick |-> r.tick]

-------------------------------------------------------------------------------
None == [rc |-> 9, tick |-> 0]

Init ==
  /\ seed \in Seeds
  /\ eng = Spawned(Loaded, seed) /\ twin = eng
  /\ frames = <<>> /\ tape = <<>> /\ altered = 0 /\ result = None

(* A tick is recorded; the other peer may have been given other pads. *)
Record ==
  /\ tape = <<>> /\ Len(frames) < MaxFrames
  /\ \E pads, theirs \in [1 .. NSeats -> Pads], turn \in Turns :
       LET after == Ticked(eng, pads, turn)
       IN  /\ eng' = after
           /\ twin' = Ticked(twin, theirs, turn)
           /\ frames' = Append(frames, [pads |-> pads, turn |-> turn, sum |-> Sum(after)])
  /\ UNCHANGED <<seed, tape, altered, result>>

(* The other peer's engine is now the one that replays, on a stage that has *)
(* been loaded anew.                                                        *)
Save ==
  /\ tape = <<>> /\ frames # <<>>
  /\ tape' = Build(seed, NSeats, frames)
  /\ twin' = Loaded
  /\ UNCHANGED <<eng, frames, seed, altered, result>>

(* Somebody changes a cell of the file. *)
Alter ==
  /\ tape # <<>> /\ altered = 0 /\ result = None
  /\ \E c \in DOMAIN tape :
       /\ altered' = c
       /\ tape' = [tape EXCEPT ![c] =
            IF c > Header /\ (c - Header - 1) % FrameCells(NSeats) >= 1 + 4 * NSeats + 2 THEN <<>>
            ELSE IF c \in {1, 5} THEN "-" ELSE (@ + 1) % 256]
  /\ UNCHANGED <<eng, twin, frames, seed, result>>

ReplayTape ==
  /\ tape # <<>> /\ result = None
  /\ result' = Replay(tape, twin)
  /\ UNCHANGED <<eng, twin, frames, seed, tape, altered>>

Next == Record \/ Save \/ Alter \/ ReplayTape
Spec == Init /\ [][Next]_vars

-------------------------------------------------------------------------------
(* Two engines that differ in anything to be seen have different sums.      *)
SumsTell ==
  LET Seen(e) == [e EXCEPT !.players = [k \in DOMAIN @ |-> [@[k] EXCEPT !.pad = @.b, !.turn = 0]]]
  IN  tape = <<>> /\ Seen(eng) # Seen(twin) => Sum(eng) # Sum(twin)

(* A tape of a match without a mouse replays to its end, also when somebody *)
(* has changed what no frame depends on; another stops at the first frame   *)
(* that the mouse has turned in or that was changed.                        *)
Replays ==
  LET cell == (altered - Header - 1) % FrameCells(NSeats)
      frame == ((altered - Header - 1) \div FrameCells(NSeats)) + 1
      differs == {i \in DOMAIN frames : frames[i].turn # 0}
                 \cup (IF altered > Header /\ cell \notin {0, 4 * NSeats + 2} THEN {frame} ELSE {})
                 \cup (IF altered = 4 THEN {1} ELSE {})
  IN  result # None =>
        IF altered \in {1, 2, 6, 8} THEN result.rc = -1
        ELSE IF differs = {} THEN result.rc = 0
        ELSE /\ result.rc = 1
             /\ \E i \in differs : (\A k \in differs : i <= k) /\ result.tick \in {i - 1, i}
===============================================================================
