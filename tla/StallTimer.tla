------------------------------ MODULE StallTimer ------------------------------
(***************************************************************************)
(* The wait timer of one LockstepSession (step() and endMatch() in         *)
(* web/shell/src/net/lockstep.ts): how long a session waits for a pad that *)
(* does not come, what it tells its player, and when it gives up.  The     *)
(* other peers are the environment: pads arrive, or the match is ended,    *)
(* at any time.  Lockstep and MatchCtl leave time out; this is where it is. *)
(*                                                                         *)
(* Times are elapsed times, counted no further than DropLimit: `wait' is   *)
(* now - waitSince and `quiet' the time since a tick was run.              *)
(***************************************************************************)
EXTENDS Integers

CONSTANTS
  StallLimit,  \* LOCKSTEP_STALL_MS
  IceLimit,    \* ICE_CONNECT_MS
  DropLimit,   \* LOCKSTEP_DROP_MS
  NotWaiting   \* waitSince = null

ASSUME StallTimerAssumption ==
  /\ StallLimit \in Nat /\ IceLimit \in Nat /\ DropLimit \in Nat
  /\ 0 < StallLimit /\ StallLimit < IceLimit /\ IceLimit < DropLimit
  /\ NotWaiting \notin Nat

VARIABLES
  wait,     \* time since waitSince, or NotWaiting
  quiet,    \* time since the last tick was run, or since the start
  ready,    \* every pad of the next tick has arrived
  linked,   \* meshLinked: a remote datagram came, or an inp channel opened
  stalled,
  dropped,
  overlay   \* what the player is told

stallVars == <<wait, quiet, ready, linked, stalled, dropped, overlay>>

Times == 0 .. DropLimit
Waiting == {"waiting", "tab"}
Overlays == Waiting \cup {"", "left", "no connection", "ended"}

Older(t) == IF t < DropLimit THEN t + 1 ELSE t

StallInit ==
  /\ wait = NotWaiting /\ quiet = 0
  /\ ready = FALSE /\ linked = FALSE
  /\ stalled = FALSE /\ dropped = FALSE /\ overlay = ""

(* Time passes between slices. *)
Pass ==
  /\ wait' = IF wait = NotWaiting THEN NotWaiting ELSE Older(wait)
  /\ quiet' = Older(quiet)
  /\ UNCHANGED <<ready, linked, stalled, dropped, overlay>>

(* ingest() of another seat's blocks, the last missing one or not; or       *)
(* markLinked() when an inp channel opens.  A halted session ingests too.   *)
Arrive(complete) ==
  /\ linked' = TRUE
  /\ ready' = (ready \/ complete)
  /\ UNCHANGED <<wait, quiet, stalled, dropped, overlay>>

(* A slice of a hidden tab: the timer is neither started nor looked at. *)
HiddenSlice ==
  /\ ~dropped
  /\ stalled' = TRUE /\ overlay' = "tab"
  /\ UNCHANGED <<wait, quiet, ready, linked, dropped>>

\* Mutants: waitSince is left set; the banner of a hidden tab is left up.
RunKeepsWait ==
  /\ ~dropped /\ ready
  /\ quiet' = 0
  /\ ready' \in BOOLEAN
  /\ stalled' = FALSE
  /\ overlay' = IF overlay \in Waiting THEN "" ELSE overlay
  /\ UNCHANGED <<wait, linked, dropped>>

RunKeepsTab ==
  /\ ~dropped /\ ready
  /\ wait' = NotWaiting /\ quiet' = 0
  /\ ready' \in BOOLEAN
  /\ stalled' = FALSE
  /\ overlay' = IF overlay = "waiting" THEN "" ELSE overlay
  /\ UNCHANGED <<linked, dropped>>

(* A slice that runs its tick; the pads of the next may be there already. *)
RunSlice ==
  /\ ~dropped /\ ready
  /\ wait' = NotWaiting /\ quiet' = 0
  /\ ready' \in BOOLEAN
  /\ stalled' = FALSE
  /\ overlay' = IF overlay \in Waiting THEN "" ELSE overlay
  /\ UNCHANGED <<linked, dropped>>

\* Mutant: every slice that waits starts the wait again.
WaitedNone == 0

(* How long the session has waited, once this slice has set waitSince. *)
Waited == IF wait = NotWaiting THEN 0 ELSE wait
Limit == IF linked THEN DropLimit ELSE IceLimit

(* A slice that lacks a pad: silent, then a banner, then the end. *)
WaitSlice ==
  /\ ~dropped /\ ~ready
  /\ wait' = Waited
  /\ UNCHANGED <<quiet, ready, linked>>
  /\ \/ /\ Waited < StallLimit
        /\ UNCHANGED <<stalled, dropped, overlay>>
     \/ /\ Waited >= StallLimit /\ Waited < Limit
        /\ stalled' = TRUE /\ overlay' = "waiting"
        /\ UNCHANGED dropped
     \/ /\ Waited >= Limit
        /\ dropped' = TRUE
        /\ overlay' = IF linked THEN "left" ELSE "no connection"
        /\ UNCHANGED stalled

(* endMatch(): a bye, the host gone, the room closed. *)
EndMatch ==
  /\ ~dropped
  /\ dropped' = TRUE
  /\ overlay' = IF linked THEN "ended" ELSE "no connection"
  /\ UNCHANGED <<wait, quiet, ready, linked, stalled>>

VisibleSlice == RunSlice \/ WaitSlice

StallNext ==
  \/ Pass \/ HiddenSlice \/ VisibleSlice \/ EndMatch
  \/ \E complete \in BOOLEAN : Arrive(complete)

StallSpec == StallInit /\ [][StallNext]_stallVars

-------------------------------------------------------------------------------
StallTypeOK ==
  /\ wait \in Times \cup {NotWaiting}
  /\ quiet \in Times
  /\ ready \in BOOLEAN /\ linked \in BOOLEAN
  /\ stalled \in BOOLEAN /\ dropped \in BOOLEAN
  /\ overlay \in Overlays

(* A session gives up by itself only after its limit has passed without a   *)
(* tick: 8 s if nothing ever connected, 10 s after that.  Hidden slices, a  *)
(* run in between or a link that comes late never shorten it.               *)
DropIsLate ==
  [][dropped' /\ WaitSlice => quiet >= Limit]_stallVars

(* The player sees a waiting banner only while the session is stalled: a    *)
(* run tick takes down the banner of a stall and of a hidden tab alike.     *)
BannerMeansStalled == overlay \in Waiting => stalled

(* Fairness: time passes and the paint loop runs slices of a visible tab. *)
FairStallSpec == StallSpec /\ WF_stallVars(Pass) /\ WF_stallVars(VisibleSlice)

(* No session waits for ever: again and again it runs a tick, or it ends. *)
NoLimbo == []<>(dropped \/ quiet = 0)
===============================================================================
