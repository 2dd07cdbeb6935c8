------------------------------- MODULE Lockstep -------------------------------
(***************************************************************************)
(* The delay-lockstep scheduler of an online match                         *)
(* (web/shell/src/net/lockstep.ts): N peers, one per seat, each with its   *)
(* LockstepSession.  Every 50 ms slice a peer reads its pad, commits it    *)
(* Delay ticks ahead, runs the next tick if it has every seat's pad, and   *)
(* sends the last Redundancy blocks it committed on an unordered,          *)
(* unreliable channel.                                                     *)
(*                                                                         *)
(* Abstracted: a pad is a model value; the engine's state is the sequence  *)
(* of pad vectors it was given (`applied'); time is left to StallTimer, so *)
(* a session may end whenever it waits; checksums are left to MatchCtl.    *)
(***************************************************************************)
EXTENDS Integers, Sequences, FiniteSets

CONSTANTS
  N,           \* players in the match (nseats)
  Delay,       \* input delay in ticks
  Ring,        \* LOCKSTEP_RING, slots of the pad ring
  Redundancy,  \* INPUT_REDUNDANCY, blocks in a datagram
  Pads,        \* what a controller can read
  Idle,        \* the pad at rest
  NoPad,       \* "bit not set in present"
  MaxTick      \* bound: ticks a peer runs

ASSUME LockstepAssumption ==
  /\ N \in Nat \ {0}
  /\ Delay \in Nat \ {0}
  /\ Ring \in Nat /\ Ring > Delay
  /\ Redundancy \in Nat /\ Redundancy >= Delay
  /\ Idle \in Pads
  /\ NoPad \notin Pads
  /\ MaxTick \in Nat

VARIABLES
  started,    \* peers whose session exists (netLock # null)
  halted,     \* peers whose session is dropped or desynced
  next,       \* next[p]: nextTick
  ring,       \* ring[p][i]: the slot with its tick and the pads present
  committed,  \* committed[p]: ticks p committed its own pad for
  history,    \* history[p]: the blocks p resends, newest first
  applied,    \* applied[p]: the pad vectors p's engine simulated, in order
  net         \* every datagram sent; any may be lost, repeated or late

vars == <<started, halted, next, ring, committed, history, applied, net>>

Seats == 0 .. N - 1
Blocks == [seat : Seats, tick : Nat, pad : Pads]
Block(s, t, pad) == [seat |-> s, tick |-> t, pad |-> pad]
EmptyPads == [s \in Seats |-> NoPad]
Slots == [tick : Nat, pads : [Seats -> Pads \cup {NoPad}]]

-------------------------------------------------------------------------------
(* The ring: slot t % Ring holds tick t or the stale tick it replaces. *)

\* Mutant: a slot is reused without clearing the tick that left it.
StaleSlotFor(r, t) == r[t % Ring]

SlotFor(r, t) ==
  IF r[t % Ring].tick = t THEN r[t % Ring] ELSE [tick |-> t, pads |-> EmptyPads]

InWindow(p, t) == t >= next[p] /\ t < next[p] + Ring

(* The slot after a block of seat s: the first pad for a tick is kept. *)
Filled(slot, s, pad) ==
  IF slot.pads[s] # NoPad THEN slot ELSE [slot EXCEPT !.pads[s] = pad]

(* submit(): refused outside the window, else stored in the tick's slot. *)
Submit(p, r, t, s, pad) ==
  IF InWindow(p, t)
  THEN [r EXCEPT ![t % Ring] = Filled(SlotFor(r, t), s, pad)]
  ELSE r

\* Mutant: "some bit of need" instead of "all bits of need".
HasAny(r, t) == \E s \in Seats : SlotFor(r, t).pads[s] # NoPad

HasAll(r, t) == \A s \in Seats : SlotFor(r, t).pads[s] # NoPad

(* ingest(): every block of another seat is submitted.  The blocks of one   *)
(* datagram have distinct ticks, so at most one of them is accepted into a  *)
(* slot.                                                                    *)
Ingested(p, blocks) ==
  [i \in 0 .. Ring - 1 |->
     LET here == {b \in blocks : b.seat # p /\ InWindow(p, b.tick) /\ b.tick % Ring = i}
     IN  IF here = {} THEN ring[p][i]
         ELSE LET b == CHOOSE b \in here : TRUE
              IN  Filled(SlotFor(ring[p], b.tick), b.seat, b.pad)]

BlocksOf(h) == {h[k] : k \in DOMAIN h}

Least(a, b) == IF a < b THEN a ELSE b

\* Mutants: one block fewer than Redundancy is kept; only the newest is kept.
PushedShort(h, b) ==
  [k \in 1 .. Least(Len(h) + 1, Redundancy - 1) |-> IF k = 1 THEN b ELSE h[k - 1]]

PushedNewest(h, b) == <<b>>

(* pushHistory(): newest first, the oldest beyond Redundancy falls off. *)
Pushed(h, b) ==
  [k \in 1 .. Least(Len(h) + 1, Redundancy) |->
     IF k = 1 THEN b ELSE h[k - 1]]

(* The history start() leaves: the Delay idle blocks, newest first. *)
Prefill(p) ==
  [k \in 1 .. Delay |-> Block(p, Delay - k, Idle)]

(* The ring start() leaves: the own seat is present in the first Delay slots. *)
StartRing(p) ==
  [i \in 0 .. Ring - 1 |->
     [tick |-> i,
      pads |-> [s \in Seats |-> IF s = p /\ i < Delay THEN Idle ELSE NoPad]]]

-------------------------------------------------------------------------------
Init ==
  /\ started = {} /\ halted = {}
  /\ next = [p \in Seats |-> 0]
  /\ ring = [p \in Seats |->
               [i \in 0 .. Ring - 1 |-> [tick |-> i, pads |-> EmptyPads]]]
  /\ committed = [p \in Seats |-> {}]
  /\ history = [p \in Seats |-> <<>>]
  /\ applied = [p \in Seats |-> <<>>]
  /\ net = {}

(* startLockstep() and the datagram beginMesh() sends at once: the first    *)
(* Delay ticks of the own seat are committed idle.                          *)
Start(p) ==
  /\ p \notin started
  /\ started' = started \cup {p}
  /\ ring' = [ring EXCEPT ![p] = StartRing(p)]
  /\ committed' = [committed EXCEPT ![p] = 0 .. Delay - 1]
  /\ history' = [history EXCEPT ![p] = Prefill(p)]
  /\ net' = net \cup {BlocksOf(Prefill(p))}
  /\ UNCHANGED <<halted, next, applied>>

(* The ring after commitLocal(): the pad goes in at nextTick + Delay unless *)
(* that tick is committed already.                                          *)
CommittedRing(p, pad) ==
  LET t == next[p] + Delay
  IN  IF t \in committed[p] THEN ring[p] ELSE Submit(p, ring[p], t, p, pad)

CommitLocal(p, pad) ==
  LET t == next[p] + Delay
      b == Block(p, t, pad)
      h == IF t \in committed[p] THEN history[p] ELSE Pushed(history[p], b)
  IN  /\ committed' = [committed EXCEPT ![p] = @ \cup {t}]
      /\ history' = [history EXCEPT ![p] = h]
      /\ net' = net \cup {BlocksOf(h)}

(* A slice that only commits and sends: the tab is hidden, or a pad of the  *)
(* next tick is missing.                                                    *)
WaitSlice(p, pad, hidden) ==
  /\ p \in started \ halted
  /\ hidden \/ ~HasAll(CommittedRing(p, pad), next[p])
  /\ CommitLocal(p, pad)
  /\ ring' = [ring EXCEPT ![p] = CommittedRing(p, pad)]
  /\ UNCHANGED <<started, halted, next, applied>>

(* A slice that commits, runs nextTick with the pads in its slot and sends. *)
RunSlice(p, pad) ==
  LET r == CommittedRing(p, pad)
  IN  /\ p \in started \ halted
      /\ next[p] < MaxTick
      /\ HasAll(r, next[p])
      /\ CommitLocal(p, pad)
      /\ ring' = [ring EXCEPT ![p] = r]
      /\ applied' = [applied EXCEPT ![p] = Append(@, SlotFor(r, next[p]).pads)]
      /\ next' = [next EXCEPT ![p] = @ + 1]
      /\ UNCHANGED <<started, halted>>

(* A datagram reaches p; before p's session exists it is ignored. *)
Receive(p, blocks) ==
  /\ p \in started
  /\ ring' = [ring EXCEPT ![p] = Ingested(p, blocks)]
  /\ UNCHANGED <<started, halted, next, committed, history, applied, net>>

(* The session ends: a wait outlasted its limit, a peer said bye, or a      *)
(* checksum differed.  It steps no more, but still receives and resends.    *)
Halt(p) ==
  /\ p \in started \ halted
  /\ halted' = halted \cup {p}
  /\ UNCHANGED <<started, next, ring, committed, history, applied, net>>

Slice(p) ==
  \E pad \in Pads : RunSlice(p, pad) \/ \E hidden \in BOOLEAN : WaitSlice(p, pad, hidden)

Next ==
  \E p \in Seats : Start(p) \/ Slice(p) \/ (\E d \in net : Receive(p, d)) \/ Halt(p)

Spec == Init /\ [][Next]_vars

-------------------------------------------------------------------------------
Sent == UNION net

(* The types of every variable; slot i only ever holds ticks congruent to i. *)
TypeOK ==
  /\ started \in SUBSET Seats
  /\ halted \in SUBSET started
  /\ next \in [Seats -> Nat]
  /\ ring \in [Seats -> [0 .. Ring - 1 -> Slots]]
  /\ \A p \in Seats, i \in 0 .. Ring - 1 : ring[p][i].tick % Ring = i
  /\ committed \in [Seats -> SUBSET Nat]
  /\ history \in [Seats -> Seq(Blocks)]
  /\ applied \in [Seats -> Seq([Seats -> Pads])]
  /\ net \in SUBSET (SUBSET Blocks)

(* A seat never sends two different pads for one tick, however often it     *)
(* repeats its history while it stalls (committed, lockstep.ts:246).        *)
OneCommitPerTick ==
  \A b, c \in Sent : b.seat = c.seat /\ b.tick = c.tick => b.pad = c.pad

(* What a peer feeds its engine for a tick is, seat by seat, what that seat *)
(* committed for that tick: no stale slot, no pad of another tick.          *)
AppliedIsCommitted ==
  \A p \in Seats : \A k \in 1 .. Len(applied[p]) : \A s \in Seats :
    Block(s, k - 1, applied[p][k][s]) \in Sent

(* Two peers that have both run a tick ran it with the same pads, whatever  *)
(* was lost, repeated, reordered or received before the session existed.    *)
Agreement ==
  \A p, q \in Seats : \A k \in 1 .. Len(applied[p]) :
    k <= Len(applied[q]) => applied[p][k] = applied[q][k]

(* No peer gets more than Delay + 1 ticks ahead of another. *)
LeadBound == \A p, q \in Seats : next[q] <= next[p] + Delay + 1

(* The block a peer waits for, once committed, is in what its sender is     *)
(* still resending: losing every datagram so far never blocks the match for *)
(* good.  It holds just when Redundancy >= 2 * Delay + 2; the code has 8    *)
(* blocks and delays of at most 3 ticks.                                    *)
HistoryCovers ==
  \A p, q \in started :
    /\ p # q
    /\ next[p] \in committed[q]
    /\ SlotFor(ring[p], next[p]).pads[q] = NoPad
    => \E k \in DOMAIN history[q] : history[q][k].tick = next[p]

(* submit() never refuses a peer's block as too far ahead (-1): a ring of   *)
(* 2 * Delay + 2 slots is enough, the code has 64.                          *)
NeverRefused == \A b \in Sent, p \in Seats : b.tick < next[p] + Ring

-------------------------------------------------------------------------------
(* The inductive invariant behind these properties, proved in               *)
(* LockstepProofs.                                                          *)

(* A session has committed the ticks below some Top, which is Delay or      *)
(* Delay + 1 ahead of the simulation; it has run exactly the ticks below    *)
(* next.                                                                    *)
TopOf(n, done) == IF n + Delay \in done THEN n + Delay + 1 ELSE n + Delay
Top(p) == TopOf(next[p], committed[p])

CommittedInv ==
  \A p \in Seats :
    /\ Len(applied[p]) = next[p]
    /\ p \notin started => next[p] = 0 /\ committed[p] = {} /\ history[p] = <<>>
    /\ p \in started => committed[p] = 0 .. Top(p) - 1

(* history[p] is the last Redundancy commits, in order, and all were sent. *)
HistoryInv ==
  \A p \in started :
    /\ Len(history[p]) = Least(Top(p), Redundancy)
    /\ \A k \in 1 .. Len(history[p]) :
         /\ history[p][k].tick = Top(p) - k
         /\ history[p][k].seat = p
         /\ history[p][k] \in Sent

SentInv == \A b \in Sent : b.tick \in committed[b.seat]

(* Whatever pad a slot holds was sent for the tick the slot holds. *)
RingInv ==
  \A p \in Seats, i \in 0 .. Ring - 1, s \in Seats :
    ring[p][i].pads[s] # NoPad => Block(s, ring[p][i].tick, ring[p][i].pads[s]) \in Sent

IInv ==
  /\ TypeOK
  /\ CommittedInv
  /\ HistoryInv
  /\ SentInv
  /\ RingInv
  /\ OneCommitPerTick
  /\ AppliedIsCommitted

-------------------------------------------------------------------------------
(* The abstract log: what the seats committed, read off the datagrams. *)
BlocksAt(sent, s, t) == {b \in sent : b.seat = s /\ b.tick = t}
CommittedPad(sent, s, t) == (CHOOSE b \in BlocksAt(sent, s, t) : TRUE).pad
LogOf(s) == [k \in 1 .. Cardinality(committed[s]) |-> CommittedPad(Sent, s, k - 1)]

Log == INSTANCE LockstepLog WITH log <- [s \in Seats |-> LogOf(s)], ran <- next

(* The session implements the shared input log: every slice, loss, repeat   *)
(* and halt is a step of LockstepLog or leaves it unchanged.                *)
ImplementsLog == Log!LogSpec

(* Fairness: the paint loop keeps calling step() on a visible tab, and an   *)
(* unreliable channel on which a history is resent every slice delivers it  *)
(* in the end.                                                              *)
Visible(p) ==
  \E pad \in Pads : RunSlice(p, pad) \/ WaitSlice(p, pad, FALSE)

Fairness ==
  \A p \in Seats :
    /\ WF_vars(Start(p))
    /\ WF_vars(Visible(p))
    /\ \A q \in Seats : WF_vars(Receive(p, BlocksOf(history[q])))

FairSpec == Spec /\ Fairness

(* No deadlock between the peers: as long as no session ends, every peer    *)
(* runs every tick (up to the bound).                                       *)
EveryTickRuns ==
  <>(halted # {} \/ \A p \in Seats : next[p] = MaxTick)
===============================================================================
