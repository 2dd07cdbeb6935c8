-------------------------------- MODULE TwoRings --------------------------------
(***************************************************************************)
(* The pad ring of a session, which the shell has (lockstep.ts) and the    *)
(* engine has a second time (net/lockstep.c) for tests and replays.  The   *)
(* two keep their slots differently: the shell's leaves the pads of a tick *)
(* that has run where they are and replaces the slot when a later tick     *)
(* needs it, the engine's wipes it.  Given the same calls they must give   *)
(* the same answers and run the same pads.                                 *)
(***************************************************************************)
EXTENDS Integers, FiniteSets

CONSTANTS
  Ring,    \* LOCKSTEP_RING, PORT_LOCKSTEP_RING
  NSeats,
  Pads,
  MaxTick  \* (bound)

ASSUME RingsAssumption ==
  /\ Ring \in Nat \ {0}
  /\ NSeats \in Nat \ {0}
  /\ MaxTick \in Nat

VARIABLES
  shellRing, engineRing,  \* slot -> its tick and the pads that are present
  nextRun,                \* nextTick, g_next
  said                    \* what each of the two said to the last call, and the pads it ran

ringVars == <<shellRing, engineRing, nextRun, said>>

Players == 0 .. NSeats - 1
Empty(tick) == [tick |-> tick, pads |-> <<>>]  \* no pad is present
Has(slot) == DOMAIN slot.pads
Said(code) == [code |-> code, ran |-> <<>>]
Put(slot, seat, pad) ==
  [slot EXCEPT !.pads = [s \in Has(slot) \cup {seat} |-> IF s = seat THEN pad ELSE slot.pads[s]]]

\* Mutant: the pads of another tick stay in the slot.
ClaimedStale(ring, tick) == [ring EXCEPT ![tick % Ring].tick = tick]

(* slot(): a slot with pads of another tick is given up, one *)
(* without pads changes its tick.                                           *)
Claimed(ring, tick) ==
  LET s == ring[tick % Ring]
  IN  [ring EXCEPT ![tick % Ring] =
         IF Has(s) # {} /\ s.tick = tick THEN s ELSE Empty(tick)]

(* slot_for() of the engine *)
ClaimedC(ring, tick) ==
  LET s == ring[tick % Ring]
  IN  [ring EXCEPT ![tick % Ring] = IF Has(s) # {} /\ s.tick # tick THEN Empty(tick) ELSE [s EXCEPT !.tick = tick]]

(* port_lockstep_run() after the tick *)
Wiped(ring, tick) == [ring EXCEPT ![tick % Ring] = Empty(0)]

-------------------------------------------------------------------------------
(* submit(): 1 stored, 0 late or there already, -1 refused. *)
Verdict(slot, tick, seat) ==
  IF seat \notin Players THEN -1 ELSE IF tick < nextRun THEN 0
  ELSE IF tick >= nextRun + Ring THEN -1 ELSE IF seat \in Has(slot) THEN 0 ELSE 1
Looked(seat, tick) == seat \in Players /\ tick >= nextRun /\ tick < nextRun + Ring

RingsInit ==
  /\ shellRing = [i \in 0 .. Ring - 1 |-> Empty(i)]
  /\ engineRing = [i \in 0 .. Ring - 1 |-> Empty(0)]
  /\ nextRun = 0
  /\ said = [shell |-> Said(0), engine |-> Said(0)]

(* submit() and port_lockstep_submit_ex() *)
SubmitBoth(tick, seat, pad) ==
  LET a == IF Looked(seat, tick) THEN Claimed(shellRing, tick) ELSE shellRing
      b == IF Looked(seat, tick) THEN ClaimedC(engineRing, tick) ELSE engineRing
      va == Verdict(a[tick % Ring], tick, seat)
      vb == Verdict(b[tick % Ring], tick, seat)
  IN  /\ shellRing' = IF va = 1 THEN [a EXCEPT ![tick % Ring] = Put(@, seat, pad)] ELSE a
      /\ engineRing' = IF vb = 1 THEN [b EXCEPT ![tick % Ring] = Put(@, seat, pad)] ELSE b
      /\ said' = [shell |-> Said(va), engine |-> Said(vb)]
      /\ UNCHANGED nextRun

(* step() and port_lockstep_run(): the pads of the next tick, if all of     *)
(* them are there.                                                          *)
RunBoth ==
  LET a == Claimed(shellRing, nextRun)
      b == ClaimedC(engineRing, nextRun)
      WouldRun(ring) == Players \subseteq Has(ring[nextRun % Ring])
      Outcome(ring) == IF WouldRun(ring) THEN [code |-> 1, ran |-> ring[nextRun % Ring].pads] ELSE Said(0)
  IN  /\ nextRun < MaxTick
      /\ shellRing' = a
      /\ engineRing' = IF WouldRun(b) THEN Wiped(b, nextRun) ELSE b
      /\ nextRun' = IF WouldRun(a) THEN nextRun + 1 ELSE nextRun
      /\ said' = [shell |-> Outcome(a), engine |-> Outcome(b)]

(* missingSeat() and port_lockstep_missing_seat() of the next tick *)
MissingBoth ==
  LET a == Claimed(shellRing, nextRun)
      b == ClaimedC(engineRing, nextRun)
      First(ring) == LET out == Players \ Has(ring[nextRun % Ring])
                     IN  IF out = {} THEN -1 ELSE CHOOSE s \in out : \A o \in out : s <= o
  IN  /\ shellRing' = a /\ engineRing' = b
      /\ said' = [shell |-> Said(First(a)), engine |-> Said(First(b))]
      /\ UNCHANGED nextRun

RingsNext ==
  \/ \E tick \in 0 .. MaxTick + Ring, seat \in 0 .. NSeats, pad \in Pads : SubmitBoth(tick, seat, pad)
  \/ RunBoth \/ MissingBoth

RingsSpec == RingsInit /\ [][RingsNext]_ringVars

-------------------------------------------------------------------------------
(* The same answer from both, to every call. *)
SameAnswers == said.shell = said.engine
===============================================================================
