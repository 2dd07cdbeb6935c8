----------------------------- MODULE LockstepLog -----------------------------
(***************************************************************************)
(* What delay lockstep promises: the players write one shared input log,   *)
(* and every peer replays it.  log[s] is the sequence of pads seat s has   *)
(* committed (entry k is the pad of tick k - 1) and ran[p] the number of   *)
(* ticks peer p has simulated.  No network and no buffers here: Lockstep   *)
(* implements this specification by mapping its datagrams to log.          *)
(***************************************************************************)
EXTENDS Integers, Sequences

CONSTANTS N, Delay, Pads, Idle

VARIABLES log, ran

logVars == <<log, ran>>

Seats == 0 .. N - 1

LogTypeOK ==
  /\ log \in [Seats -> Seq(Pads)]
  /\ ran \in [Seats -> Nat]

LogInit ==
  /\ log = [s \in Seats |-> <<>>]
  /\ ran = [s \in Seats |-> 0]

(* A peer opens its log with Delay idle ticks. *)
Open(p) ==
  /\ log[p] = <<>>
  /\ log' = [log EXCEPT ![p] = [k \in 1 .. Delay |-> Idle]]
  /\ UNCHANGED ran

(* The pad read now is written Delay ticks ahead of the simulation, once. *)
Write(p, pad) ==
  /\ Len(log[p]) = ran[p] + Delay
  /\ log' = [log EXCEPT ![p] = Append(@, pad)]

(* A tick is simulated only when every seat's pad for it is in the log. *)
Replay(p) ==
  /\ \A s \in Seats : Len(log'[s]) > ran[p]
  /\ ran' = [ran EXCEPT ![p] = @ + 1]

(* One slice of wall time: write, replay, or write and then replay. *)
LogSlice(p) ==
  /\ log[p] # <<>>
  /\ UNCHANGED log \/ \E pad \in Pads : Write(p, pad)
  /\ UNCHANGED ran \/ Replay(p)

LogNext == \E p \in Seats : Open(p) \/ LogSlice(p)

LogSpec == LogInit /\ [][LogNext]_logVars
==============================================================================
