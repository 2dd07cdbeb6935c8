-------------------------------- MODULE Limits --------------------------------
(***************************************************************************)
(* The two limits of the signal server (services/signal/src/rooms.js):     *)
(* rateOk() keeps a log of an address's requests and allows RateLimit of   *)
(* them in a sliding window; allowRelay() counts a room's relayed bytes in *)
(* windows that start when the last one is over.                           *)
(*                                                                         *)
(* Of the log only its length and the times in it are ever looked at, so   *)
(* it is a set of hits, numbered to keep those of one millisecond apart.   *)
(***************************************************************************)
EXTENDS Integers, FiniteSets

CONSTANTS
  Window,      \* WINDOW_MS
  RateLimit,   \* CREATE_LIMIT, JOIN_LIMIT
  Second,      \* the 1000 ms of a relay window
  RelayLimit,  \* RELAY_BPS
  Sizes,       \* sizes of relayed messages
  MaxNow       \* bound: the clock

ASSUME LimitsAssumption ==
  /\ Window \in Nat \ {0} /\ RateLimit \in Nat
  /\ Second \in Nat /\ RelayLimit \in Nat /\ Sizes \subseteq Nat
  /\ MaxNow \in Nat \ {0}

VARIABLES
  now,
  hits,        \* the address's entry of creates or joins
  granted,     \* history: every request that was allowed
  relayWin,    \* when the room's relay window began, 0 if none has
  relayBytes,  \* bytes counted in it
  relayed      \* history: relayed[t], the bytes relayed up to time t

limitVars == <<now, hits, granted, relayWin, relayBytes, relayed>>
rateVars == <<hits, granted>>
relayVars == <<relayWin, relayBytes, relayed>>

Clock == 1 .. MaxNow

LimitsInit ==
  /\ now = 1
  /\ hits = {} /\ granted = {}
  /\ relayWin = 0 /\ relayBytes = 0 /\ relayed = [t \in 0 .. MaxNow |-> 0]

ClockGoes == now < MaxNow /\ now' = now + 1 /\ UNCHANGED <<rateVars, relayVars>>

\* Mutant: the whole log is dropped with its oldest hit.
PruneAll == IF \E h \in hits : now - h.at >= Window THEN {} ELSE hits

(* pruneHits(): the hits that are still in the window. *)
Pruned == {h \in hits : now - h.at < Window}

Refused == Cardinality(Pruned) >= RateLimit

(* rateOk(): a refused request prunes the log too. *)
Request ==
  /\ LET hit == [at |-> now, nr |-> Cardinality(granted) + 1]
     IN  IF Refused
         THEN hits' = Pruned /\ UNCHANGED granted
         ELSE hits' = Pruned \cup {hit} /\ granted' = granted \cup {hit}
  /\ UNCHANGED <<now, relayVars>>

(* allowRelay(): a new window begins when the last is more than a second old. *)
NewWindow == relayWin = 0 \/ now - relayWin > Second

Counted(n) == relayed' = [t \in 0 .. MaxNow |-> IF t < now THEN relayed[t] ELSE relayed[t] + n]

\* Mutant: the message that fills the window is let through.
RelayOver(n) ==
  LET used == IF NewWindow THEN 0 ELSE relayBytes
  IN  /\ relayWin' = IF NewWindow THEN now ELSE relayWin
      /\ IF used > RelayLimit
         THEN relayBytes' = used /\ UNCHANGED relayed
         ELSE relayBytes' = used + n /\ Counted(n)
      /\ UNCHANGED <<now, rateVars>>

(* allowRelay(): refused when it would overfill the window, which a refusal *)
(* opens all the same.                                                      *)
Relay(n) ==
  LET used == IF NewWindow THEN 0 ELSE relayBytes
  IN  /\ relayWin' = IF NewWindow THEN now ELSE relayWin
      /\ IF used + n > RelayLimit
         THEN relayBytes' = used /\ UNCHANGED relayed
         ELSE relayBytes' = used + n /\ Counted(n)
      /\ UNCHANGED <<now, rateVars>>

LimitsNext == ClockGoes \/ Request \/ \E n \in Sizes : Relay(n)

LimitsSpec == LimitsInit /\ [][LimitsNext]_limitVars

-------------------------------------------------------------------------------
(* No window of Window milliseconds, wherever it starts, allows more than   *)
(* RateLimit requests.                                                      *)
Within(t) == {h \in granted : t - Window < h.at /\ h.at <= t}
SlidingLimit == \A t \in Clock : Cardinality(Within(t)) <= RateLimit

(* 64 KB/s/room, less strictly: windows follow each other, so a second may  *)
(* straddle two of them, but never three.                                   *)
Before(t) == IF t < 0 THEN 0 ELSE t
RelayTwice == \A t \in Clock : relayed[t] - relayed[Before(t - Second)] <= 2 * RelayLimit

(* The limits are kept, whenever requests and messages come. *)
Limited == SlidingLimit /\ RelayTwice
===============================================================================
