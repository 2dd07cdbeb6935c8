------------------------------- MODULE MatchCtl -------------------------------
(***************************************************************************)
(* How an online match finds out that its simulations differ, and how it   *)
(* ends (handleCtl and onLockEvent in web/shell/src/main.ts, acceptRemoteCk *)
(* and step in web/shell/src/net/lockstep.ts).  After each tick a peer     *)
(* sends its checksum; a peer that sees two different checksums for a tick *)
(* halts with DESYNC and says so; a peer that gives up waiting says bye    *)
(* and closes its mesh.  A message goes out on the DataChannel of a link   *)
(* that is up, and through the signal relay while some link is not.        *)
(*                                                                         *)
(* Abstracted: input datagrams, by the barrier they add up to, and the     *)
(* start of the sessions (see Lockstep); time, so a wait may end a match   *)
(* whenever it lasts (see StallTimer); stall and nack, which change no     *)
(* session.  The two channels of a link open together.                     *)
(***************************************************************************)
EXTENDS Integers, Sequences, FiniteSets

CONSTANTS
  N,        \* players in the match
  Delay,    \* input delay in ticks
  Cks,      \* the checksums a simulation can have after a tick
  NoCk,     \* "no checksum of this tick yet"
  WsRelay,  \* flags.wsRelay: the relay carries every message
  Lossy,    \* whether links break and the relay loses messages
  UpAtStart,\* bound: links that come up before the sessions start
  Quitters, \* bound: seats whose wait may outlast its limit
  MaxTick   \* bound: ticks a peer runs

ASSUME MatchCtlAssumption ==
  /\ N \in Nat \ {0}
  /\ Delay \in Nat
  /\ NoCk \notin Cks
  /\ WsRelay \in BOOLEAN /\ Lossy \in BOOLEAN
  /\ Quitters \subseteq Nat
  /\ MaxTick \in Nat

VARIABLES
  local,     \* local[p]: localCk, the checksums p computed, by tick
  remote,    \* remote[p][t]: remoteCk, the last checksum p was sent for t
  desynced,  \* sessions halted by a checksum
  dropped,   \* sessions halted by a wait or a bye; their mesh is closed
  link,      \* link[{p, q}]: "new", then "up", then "down"
  ctl,       \* ctl[p][q]: messages on their way from p to q
  seen       \* history: seen[p][q], the ticks whose checksum of q reached p

vars == <<local, remote, desynced, dropped, link, ctl, seen>>

Seats == 0 .. N - 1
Ticks == 0 .. MaxTick - 1
halted == desynced \cup dropped

Ck(t, c) == [t |-> "ck", tick |-> t, ck |-> c]
Bye == [t |-> "bye"]
Desync == [t |-> "desync"]
Msgs == {Ck(t, c) : t \in Ticks, c \in Cks} \cup {Bye, Desync}
Paths == {"dc", "relay"}
Envelopes == [path : Paths, msg : Msgs]
Links == {{p, q} : p, q \in Seats} \ {{p} : p \in Seats}

(* Of the checksums l = local: the next tick of p, and its checksum of t. *)
NextTick(l, p) == Len(l[p])
LocalCk(l, p, t) == l[p][t + 1]

(* How a message of p reaches q: on their channel if it is open, through    *)
(* the relay if some channel of p is not, or by the flag.                   *)
Ways(n, p, q) ==
  {w \in Paths : \/ w = "dc" /\ n[{p, q}] = "up"
                 \/ w = "relay" /\ (WsRelay \/ \E r \in Seats \ {p} : n[{p, r}] # "up")}

(* sendCtlAll(): to every other seat, on every way there is. *)
SendAll(c, p, msgs) ==
  [c EXCEPT ![p] = [q \in Seats |->
     IF q = p THEN @[q] ELSE @[q] \cup [path : Ways(link, p, q), msg : msgs]]]

(* mesh.close(): the links of p that were up go down. *)
Closed(p) ==
  [l \in Links |-> IF p \in l /\ link[l] = "up" THEN "down" ELSE link[l]]

-------------------------------------------------------------------------------
Init ==
  /\ local = [p \in Seats |-> <<>>]
  /\ remote = [p \in Seats |-> [t \in Ticks |-> NoCk]]
  /\ desynced = {} /\ dropped = {}
  /\ link \in [Links -> {"new", "up"}]
  /\ \A l \in UpAtStart \cap Links : link[l] = "up"
  /\ ctl = [p \in Seats |-> [q \in Seats |-> {}]]
  /\ seen = [p \in Seats |-> [q \in Seats |-> {}]]

(* The barrier of delay lockstep: every seat has committed tick t. *)
Ready(t) == \A q \in Seats : t <= NextTick(local, q) + Delay

\* Mutant: compared with the checksum of the tick before.
RunTickOffByOne(p, c) ==
  LET t == NextTick(local, p)
      differs == t > 0 /\ remote[p][t - 1] \notin {NoCk, c}
  IN  /\ p \notin halted
      /\ t < MaxTick
      /\ Ready(t)
      /\ local' = [local EXCEPT ![p] = Append(@, c)]
      /\ desynced' = IF differs THEN desynced \cup {p} ELSE desynced
      /\ ctl' = SendAll(ctl, p, IF differs THEN {Ck(t, c), Desync} ELSE {Ck(t, c)})
      /\ UNCHANGED <<remote, dropped, link, seen>>

(* step() runs a tick and its events are handled: the checksum is sent, and *)
(* compared with the one that came before the tick was run, if one did.     *)
RunTick(p, c) ==
  LET t == NextTick(local, p)
      differs == remote[p][t] \notin {NoCk, c}
  IN  /\ p \notin halted
      /\ t < MaxTick
      /\ Ready(t)
      /\ local' = [local EXCEPT ![p] = Append(@, c)]
      /\ desynced' = IF differs THEN desynced \cup {p} ELSE desynced
      /\ ctl' = SendAll(ctl, p, IF differs THEN {Ck(t, c), Desync} ELSE {Ck(t, c)})
      /\ UNCHANGED <<remote, dropped, link, seen>>

(* onLockEvent(drop): bye is sent and the mesh closed. *)
End(c, p) ==
  /\ dropped' = dropped \cup {p}
  /\ ctl' = SendAll(c, p, {Bye})
  /\ link' = Closed(p)

\* Mutant: only a guest's wait has a limit.
GuestDrop(p) ==
  /\ p # 0 /\ p \in Quitters \ halted
  /\ End(ctl, p)
  /\ UNCHANGED <<local, remote, desynced, seen>>

(* A wait outlasts its limit, or the room is closed. *)
Drop(p) ==
  /\ p \in Quitters \ halted
  /\ End(ctl, p)
  /\ UNCHANGED <<local, remote, desynced, seen>>

(* onPeerLost(): only the host's link ends a match. *)
HostLost(p) ==
  /\ p \notin halted /\ p # 0 /\ link[{0, p}] = "down"
  /\ End(ctl, p)
  /\ UNCHANGED <<local, remote, desynced, seen>>

Connect(l) ==
  /\ link[l] = "new" /\ l \cap dropped = {}
  /\ link' = [link EXCEPT ![l] = "up"]
  /\ UNCHANGED <<local, remote, desynced, dropped, ctl, seen>>

Break(l) ==
  /\ Lossy /\ link[l] = "up"
  /\ link' = [link EXCEPT ![l] = "down"]
  /\ UNCHANGED <<local, remote, desynced, dropped, ctl, seen>>

Taken(q, p, e) == [ctl EXCEPT ![q][p] = @ \ {e}]

\* Mutant: a checksum is only remembered, for the slice that runs the tick.
StoreCk(p, q, e) ==
  /\ e.msg.t = "ck"
  /\ remote' = [remote EXCEPT ![p][e.msg.tick] = e.msg.ck]
  /\ ctl' = Taken(q, p, e)
  /\ seen' = [seen EXCEPT ![p][q] = @ \cup {e.msg.tick}]
  /\ UNCHANGED <<local, desynced, dropped, link>>

(* acceptRemoteCk(): remembered by tick only, the last one wins; compared   *)
(* when the tick was run before, whether or not the session has halted.     *)
ReceiveCk(p, q, e) ==
  LET t == e.msg.tick
      differs == t < NextTick(local, p) /\ LocalCk(local, p, t) # e.msg.ck
  IN  /\ e.msg.t = "ck"
      /\ remote' = [remote EXCEPT ![p][t] = e.msg.ck]
      /\ desynced' = IF differs THEN desynced \cup {p} ELSE desynced
      /\ ctl' = IF differs THEN SendAll(Taken(q, p, e), p, {Desync}) ELSE Taken(q, p, e)
      /\ seen' = [seen EXCEPT ![p][q] = @ \cup {t}]
      /\ UNCHANGED <<local, dropped, link>>

(* bye is ignored by a halted session and ends any other. *)
ReceiveBye(p, q, e) ==
  /\ e.msg.t = "bye"
  /\ \/ p \in halted /\ ctl' = Taken(q, p, e) /\ UNCHANGED <<dropped, link>>
     \/ p \notin halted /\ End(Taken(q, p, e), p)
  /\ UNCHANGED <<local, remote, desynced, seen>>

(* desync halts the session and is sent on to everyone, every time. *)
ReceiveDesync(p, q, e) ==
  /\ e.msg.t = "desync"
  /\ desynced' = desynced \cup {p}
  /\ ctl' = SendAll(Taken(q, p, e), p, {Desync})
  /\ UNCHANGED <<local, remote, dropped, link, seen>>

Receive(p, q) ==
  \E e \in ctl[q][p] : ReceiveCk(p, q, e) \/ ReceiveBye(p, q, e) \/ ReceiveDesync(p, q, e)

(* What a broken or closed link had not delivered is lost, and the server   *)
(* may refuse to relay.                                                     *)
Lose(p, q) ==
  \E e \in ctl[q][p] :
    /\ \/ e.path = "relay" /\ Lossy
       \/ e.path = "dc" /\ link[{p, q}] = "down"
    /\ ctl' = Taken(q, p, e)
    /\ UNCHANGED <<local, remote, desynced, dropped, link, seen>>

Next ==
  \/ \E p \in Seats :
       \/ \E c \in Cks : RunTick(p, c)
       \/ Drop(p) \/ HostLost(p)
       \/ \E q \in Seats : Receive(p, q) \/ Lose(p, q)
  \/ \E l \in Links : Connect(l) \/ Break(l)

Spec == Init /\ [][Next]_vars

-------------------------------------------------------------------------------
TypeOK ==
  /\ local \in [Seats -> Seq(Cks)]
  /\ \A p \in Seats : Len(local[p]) <= MaxTick
  /\ remote \in [Seats -> [Ticks -> Cks \cup {NoCk}]]
  /\ desynced \in SUBSET Seats
  /\ dropped \in SUBSET Seats
  /\ link \in [Links -> {"new", "up", "down"}]
  /\ ctl \in [Seats -> [Seats -> SUBSET Envelopes]]
  /\ seen \in [Seats -> [Seats -> SUBSET Ticks]]

(* p and q both ran tick t and got different checksums. *)
Differ(l, p, q, t) ==
  /\ t < NextTick(l, p) /\ t < NextTick(l, q)
  /\ LocalCk(l, p, t) # LocalCk(l, q, t)

(* A match is only called off with DESYNC when two simulations of one tick  *)
(* did differ.                                                              *)
NoFalseDesync ==
  desynced # {} => \E p, q \in Seats, t \in Ticks : Differ(local, p, q, t)

(* Two simulations that differ never go unnoticed: once each of the two     *)
(* has been told the other's checksum one of the sessions has halted.       *)
(* remote keeps one checksum per tick for all the other peers, so one       *)
(* peer's is lost under another's; it is the check on arrival, in whichever *)
(* of a pair ran the tick first, that catches every pair.                   *)
NoSilentDivergence ==
  \A p, q \in Seats, t \in Ticks :
    Differ(local, p, q, t) /\ t \in seen[p][q] /\ t \in seen[q][p]
      => p \in desynced \/ q \in desynced

(* What is on its way is true: a checksum is the sender's for that tick.    *)
CkInv ==
  \A p, q \in Seats : \A e \in ctl[p][q] :
    /\ p # q
    /\ e.msg.t = "ck" => e.msg.tick < NextTick(local, p) /\ e.msg.ck = LocalCk(local, p, e.msg.tick)

RemoteInv ==
  \A p \in Seats, t \in Ticks :
    remote[p][t] # NoCk =>
      \E q \in Seats \ {p} : t < NextTick(local, q) /\ LocalCk(local, q, t) = remote[p][t]

SeenInv ==
  \A p, q \in Seats : \A t \in seen[p][q] : t < NextTick(local, q)

DesyncInv ==
  (\E p, q \in Seats : \E e \in ctl[p][q] : e.msg.t = "desync") => desynced # {}

IInv == TypeOK /\ CkInv /\ RemoteInv /\ SeenInv /\ DesyncInv /\ NoFalseDesync /\ NoSilentDivergence

-------------------------------------------------------------------------------
(* Fairness: the paint loop keeps calling step() on a visible tab, a wait   *)
(* for a peer that has halted ends at the drop limit, and ctl is delivered  *)
(* unless it is lost.                                                       *)
GiveUp(p) == Drop(p) /\ ~Ready(NextTick(local, p))

Fairness ==
  \A p \in Seats :
    /\ WF_vars(\E c \in Cks : RunTick(p, c))
    /\ WF_vars(GiveUp(p))
    /\ \A q \in Seats : WF_vars(Receive(p, q))

FairSpec == Spec /\ Fairness

(* A match ends for everyone: once one session has halted each of the       *)
(* others halts too, or has run its last tick (the bound).                  *)
EveryoneEnds ==
  \A p \in Seats :
    p \in halted ~> \A q \in Seats : q \in halted \/ NextTick(local, q) = MaxTick

(* Two simulations that differ do not both go on: whatever order ticks,     *)
(* checksums and byes come in, one of the two is halted in the end, if no   *)
(* message is lost.                                                         *)
DivergenceEnds ==
  \A p, q \in Seats :
    (\E t \in Ticks : Differ(local, p, q, t)) ~> (p \in halted \/ q \in halted)
===============================================================================
