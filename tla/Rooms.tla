-------------------------------- MODULE Rooms --------------------------------
(***************************************************************************)
(* The signal server's rooms (services/signal/src/rooms.js): clients       *)
(* create, join, configure, start and leave rooms of SeatCount seats; the  *)
(* server tells the seated clients what changed.  One action per message   *)
(* type; every message first sweeps the rooms that have been idle too long. *)
(*                                                                         *)
(* Abstracted: a client's connection is a FIFO, so what it was told last   *)
(* stands for what it has read; nick, pack, region, build and rate checks  *)
(* refuse a message or let it through (see Limits), the relay's ice_fail   *)
(* flag only lets relay messages through; a code is 25 random bits, so no  *)
(* code is ever drawn twice.                                               *)
(***************************************************************************)
EXTENDS Integers, FiniteSets

CONSTANTS
  Clients,    \* WebSocket connections
  Codes,      \* room codes
  Cfgs,       \* match configs (cfgHash)
  SeatCount,  \* seats of a room
  Nobody, NoRoom, NoCfg, NoRoster,
  Rejoin      \* whether a client may create or join while it has a seat

ASSUME RoomsAssumption ==
  /\ SeatCount \in Nat \ {0}
  /\ Nobody \notin Clients /\ NoRoom \notin Codes /\ NoCfg \notin Cfgs
  /\ Rejoin \in BOOLEAN

VARIABLES
  rooms,      \* code -> room, for the rooms that exist
  drawn,      \* codes drawn so far
  connected,  \* clients whose WebSocket is open
  room,       \* room[c]: client.room
  seat,       \* seat[c]: client.seat
  told,       \* told[c]: the last roster sent to c
  toldCfg     \* toldCfg[c]: the last cfg sent to c

vars == <<rooms, drawn, connected, room, seat, told, toldCfg>>

SeatIds == 0 .. SeatCount - 1
Rosters == [SeatIds -> Clients \cup {Nobody}]
RoomType ==
  [seats : Rosters, ready : SUBSET SeatIds, cfg : Cfgs \cup {NoCfg},
   inProgress : BOOLEAN,
   age : 0 .. 2]  \* idle: below 30 minutes, below 2 hours, longer

Members(r) == {r.seats[i] : i \in SeatIds} \ {Nobody}
Roster(r) == [seats |-> r.seats, ready |-> r.ready]

(* sweep(): rooms idle for 2 hours, or for 30 minutes with no guest. *)
Stale(r) == r.age = 2 \/ (r.age = 1 /\ \A i \in SeatIds \ {0} : r.seats[i] = Nobody)
Live(R) == {k \in DOMAIN R : ~Stale(R[k])}
Swept(R) == [k \in Live(R) |-> R[k]]

Without(R, k) == [j \in DOMAIN R \ {k} |-> R[j]]
With(R, k, r) == [j \in DOMAIN R \cup {k} |-> IF j = k THEN r ELSE R[j]]

(* broadcast(): to every seat of room r. *)
TellRoster(r) == [c \in Clients |-> IF c \in Members(r) THEN Roster(r) ELSE told[c]]
TellCfg(r) == [c \in Clients |-> IF c \in Members(r) THEN r.cfg ELSE toldCfg[c]]

NewRoom(c) ==
  [seats |-> [i \in SeatIds |-> IF i = 0 THEN c ELSE Nobody], ready |-> {}, cfg |-> NoCfg,
   inProgress |-> FALSE, age |-> 0]

-------------------------------------------------------------------------------
Init ==
  /\ rooms = [k \in {} |-> NoRoom]
  /\ drawn = {}
  /\ connected = Clients
  /\ room = [c \in Clients |-> NoRoom]
  /\ seat = [c \in Clients |-> -1]
  /\ told = [c \in Clients |-> NoRoster]
  /\ toldCfg = [c \in Clients |-> NoCfg]

(* Half an hour, or two hours, pass without a message in room k. *)
Idle(k) ==
  /\ rooms[k].age < 2
  /\ rooms' = [rooms EXCEPT ![k].age = @ + 1]
  /\ UNCHANGED <<drawn, connected, room, seat, told, toldCfg>>

(* health(), hello, and every message that is refused before its room is    *)
(* looked up, only sweep.                                                   *)
Sweep ==
  /\ rooms' = Swept(rooms)
  /\ UNCHANGED <<drawn, connected, room, seat, told, toldCfg>>

(* create: the client becomes the host of a new room, whatever room it is   *)
(* in.                                                                      *)
Create(c, k) ==
  LET r == NewRoom(c)
  IN  /\ k \notin drawn
      /\ rooms' = With(Swept(rooms), k, r)
      /\ drawn' = drawn \cup {k}
      /\ room' = [room EXCEPT ![c] = k]
      /\ seat' = [seat EXCEPT ![c] = 0]
      /\ told' = [told EXCEPT ![c] = Roster(r)]
      /\ UNCHANGED <<connected, toldCfg>>

FreeSeats(r) == {i \in SeatIds : r.seats[i] = Nobody}

\* Mutant: the new client goes behind the others, also when a seat was freed.
NextInLine(r) == Cardinality(Members(r))

FirstFree(r) == CHOOSE i \in FreeSeats(r) : \A j \in FreeSeats(r) : i <= j

\* Mutant: the cfg published before the join is not sent.
JoinNoCfg(c, k) ==
  LET R == Swept(rooms)
      i == FirstFree(R[k])
      r == [R[k] EXCEPT !.seats[i] = c, !.ready = @ \ {i}, !.age = 0]
  IN  /\ k \in DOMAIN R /\ ~R[k].inProgress /\ FreeSeats(R[k]) # {}
      /\ rooms' = With(R, k, r)
      /\ room' = [room EXCEPT ![c] = k]
      /\ seat' = [seat EXCEPT ![c] = i]
      /\ told' = TellRoster(r)
      /\ UNCHANGED <<drawn, connected, toldCfg>>

(* join: the first free seat of a room that has not started. *)
Join(c, k) ==
  LET R == Swept(rooms)
      i == FirstFree(R[k])
      r == [R[k] EXCEPT !.seats[i] = c, !.ready = @ \ {i}, !.age = 0]
  IN  /\ k \in DOMAIN R /\ ~R[k].inProgress /\ FreeSeats(R[k]) # {}
      /\ rooms' = With(R, k, r)
      /\ room' = [room EXCEPT ![c] = k]
      /\ seat' = [seat EXCEPT ![c] = i]
      /\ told' = TellRoster(r)
      /\ toldCfg' = IF r.cfg # NoCfg THEN [toldCfg EXCEPT ![c] = r.cfg] ELSE toldCfg
      /\ UNCHANGED <<drawn, connected>>

(* The messages below act on client.room; being looked up touches it. *)
Found(c) == room[c] \in Live(rooms)
Touched(c) == [rooms[room[c]] EXCEPT !.age = 0]
Becomes(c, r) == rooms' = With(Swept(rooms), room[c], r)
IsHost(c) == Found(c) /\ seat[c] = 0

(* sdp, ice, ice_ok, ice_fail, relay, and what is refused after the room    *)
(* was found: forwarded or not, the room is only touched.                   *)
Touch(c) ==
  /\ Found(c)
  /\ Becomes(c, Touched(c))
  /\ UNCHANGED <<drawn, connected, room, seat, told, toldCfg>>

(* cfg: from the host, before or after the start. *)
Cfg(c, cfg) ==
  LET r == [Touched(c) EXCEPT !.cfg = cfg]
  IN  /\ IsHost(c)
      /\ Becomes(c, r)
      /\ toldCfg' = TellCfg(r)
      /\ UNCHANGED <<drawn, connected, room, seat, told>>

(* ready: the flag of the seat the client remembers. *)
Ready(c, flag) ==
  LET t == Touched(c)
      r == IF t.seats[seat[c]] = Nobody THEN t
           ELSE [t EXCEPT !.ready = IF flag THEN @ \cup {seat[c]} ELSE @ \ {seat[c]}]
  IN  /\ Found(c)
      /\ Becomes(c, r)
      /\ told' = TellRoster(r)
      /\ UNCHANGED <<drawn, connected, room, seat, toldCfg>>

\* Mutants: the others are not told that a seat was freed; the kicked client's
\* seat is forgotten too, and indexes no seat any more.
QuietKick(c, i) ==
  LET t == Touched(c)
      r == [t EXCEPT !.seats[i] = Nobody, !.ready = @ \ {i}]
  IN  /\ IsHost(c) /\ i # 0 /\ t.seats[i] # Nobody
      /\ Becomes(c, r)
      /\ room' = [room EXCEPT ![t.seats[i]] = NoRoom]
      /\ UNCHANGED <<drawn, connected, seat, told, toldCfg>>

(* kick: the seat is freed and its client forgets its room. *)
Kick(c, i) ==
  LET t == Touched(c)
      r == [t EXCEPT !.seats[i] = Nobody, !.ready = @ \ {i}]
  IN  /\ IsHost(c) /\ i # 0 /\ t.seats[i] # Nobody
      /\ Becomes(c, r)
      /\ room' = [room EXCEPT ![t.seats[i]] = NoRoom]
      /\ told' = TellRoster(r)
      /\ UNCHANGED <<drawn, connected, seat, toldCfg>>

(* start: the host names the room's cfg.  The seats are not looked at, and  *)
(* a started room may be started again.                                     *)
Start(c, cfg) ==
  LET t == Touched(c)
  IN  /\ IsHost(c) /\ t.cfg # NoCfg /\ cfg = t.cfg
      /\ Becomes(c, [t EXCEPT !.inProgress = TRUE])
      /\ UNCHANGED <<drawn, connected, room, seat, told, toldCfg>>

(* close: the host's room is gone; its guests are told EXPIRED. *)
Close(c) ==
  /\ IsHost(c)
  /\ rooms' = Without(Swept(rooms), room[c])
  /\ UNCHANGED <<drawn, connected, room, seat, told, toldCfg>>

\* Mutants: the seat is kept for a client that may come back; the host's room
\* outlives it like a guest's.
DisconnectKeepsSeat(c) ==
  /\ connected' = connected \ {c}
  /\ IF room[c] \notin DOMAIN rooms
     THEN UNCHANGED <<rooms, told>>
     ELSE IF seat[c] = 0
     THEN rooms' = Without(rooms, room[c]) /\ UNCHANGED told
     ELSE told' = TellRoster(rooms[room[c]]) /\ UNCHANGED rooms
  /\ UNCHANGED <<drawn, room, seat, toldCfg>>

DisconnectHostAsGuest(c) ==
  /\ connected' = connected \ {c}
  /\ IF room[c] \notin DOMAIN rooms
     THEN UNCHANGED <<rooms, told>>
     ELSE LET r == [rooms[room[c]] EXCEPT !.seats[seat[c]] = Nobody, !.ready = @ \ {seat[c]}]
          IN  rooms' = With(rooms, room[c], r) /\ told' = TellRoster(r)
  /\ UNCHANGED <<drawn, room, seat, toldCfg>>

(* onDisconnect(): the host's room goes with it; a guest frees its seat.    *)
(* No sweep here.                                                           *)
Disconnect(c) ==
  /\ connected' = connected \ {c}
  /\ IF room[c] \notin DOMAIN rooms
     THEN UNCHANGED <<rooms, told>>
     ELSE IF seat[c] = 0
     THEN rooms' = Without(rooms, room[c]) /\ UNCHANGED told
     ELSE LET r == [rooms[room[c]] EXCEPT !.seats[seat[c]] = Nobody, !.ready = @ \ {seat[c]}]
          IN  rooms' = With(rooms, room[c], r) /\ told' = TellRoster(r)
  /\ UNCHANGED <<drawn, room, seat, toldCfg>>

(* The room k that remembers c in the seat c remembers. *)
Seated(c) == room[c] \in DOMAIN rooms /\ rooms[room[c]].seats[seat[c]] = c

Enter(c) ==
  /\ Rejoin \/ ~Seated(c)
  /\ \E k \in Codes : Create(c, k) \/ Join(c, k)

Message(c) ==
  \/ Enter(c) \/ Touch(c) \/ Close(c)
  \/ \E cfg \in Cfgs : Cfg(c, cfg) \/ Start(c, cfg)
  \/ \E flag \in BOOLEAN : Ready(c, flag)
  \/ \E i \in SeatIds : Kick(c, i)

Next ==
  \/ Sweep
  \/ \E k \in DOMAIN rooms : Idle(k)
  \/ \E c \in connected : Message(c) \/ Disconnect(c)

Spec == Init /\ [][Next]_vars

-------------------------------------------------------------------------------
TypeOK ==
  /\ DOMAIN rooms \subseteq drawn /\ drawn \subseteq Codes
  /\ \A k \in DOMAIN rooms : rooms[k] \in RoomType
  /\ connected \subseteq Clients
  /\ room \in [Clients -> Codes \cup {NoRoom}]
  /\ seat \in [Clients -> SeatIds \cup {-1}]
  /\ toldCfg \in [Clients -> Cfgs \cup {NoCfg}]

(* A seat and its client remember each other, and its client is connected:  *)
(* no ghost holds a seat, and no client acts for a seat it has lost.        *)
NoGhost ==
  /\ \A k \in DOMAIN rooms, i \in SeatIds :
       LET c == rooms[k].seats[i]
       IN  c # Nobody => c \in connected /\ room[c] = k /\ seat[c] = i
  /\ \A c \in connected : room[c] \in DOMAIN rooms => Seated(c)

(* Every seated client's last roster is the room's: whoever joins, leaves,  *)
(* is kicked or gets ready, everyone still seated is told.                  *)
RosterTold ==
  \A k \in DOMAIN rooms : \A c \in Members(rooms[k]) : told[c] = Roster(rooms[k])

(* Every seated client has the config the host will start with, also one    *)
(* that joined after it was published.                                      *)
CfgTold ==
  \A k \in DOMAIN rooms : \A c \in Members(rooms[k]) :
    rooms[k].cfg # NoCfg => toldCfg[c] = rooms[k].cfg

(* Nobody in a room acts on an old roster or an old config. *)
Told == RosterTold /\ CfgTold

(* Host disconnect closes the room: the host's seat is never a ghost's.     *)
HostPresent == \A k \in DOMAIN rooms : rooms[k].seats[0] \in connected
===============================================================================
