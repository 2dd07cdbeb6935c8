--------------------------------- MODULE Lobby ---------------------------------
(***************************************************************************)
(* From a room to a match: what a browser makes of the signal server's     *)
(* messages (web/shell/src/main.ts, net/lobby.ts), with one room of the    *)
(* server (services/signal/src/rooms.js; all of it is in Rooms).  Every    *)
(* socket is first in, first out.  On "start" a client offers a connection *)
(* to every higher seat, and each offer is an await; only after the last   *)
(* does it read roster and config and begin its session, so whatever comes *)
(* in meanwhile is read, too.                                              *)
(*                                                                         *)
(* A config is its number of seats, everything else in it is constant.     *)
(* Left out: the host's leaving (Rooms), what the offers lead to (Mesh),   *)
(* the match itself (Lockstep).                                            *)
(***************************************************************************)
EXTENDS Integers, Sequences, FiniteSetsExt, Functions

CONSTANTS
  Host, Guests,
  MaxStarts   \* bound: how often the host presses Start

ASSUME LobbyAssumption == Host \notin Guests

VARIABLES
  room,       \* the server's: seats (seat -> client), cfg, inProgress
  toHost,     \* unsent: toServer of the host, a queue
  inbox,      \* client -> messages of the server on their way
  left,       \* guests that are gone; they do not come back
  mySeat, roster, cfg,  \* client -> what it was told last
  begun,      \* client -> starts whose beginMesh() still awaits an offer
  offered,    \* client -> for each start, the seats it offers a connection to
  session,    \* client -> its netLock, or none
  started     \* history: the seats of each start the server sent

lobbyVars == <<room, toHost, inbox, left, mySeat, roster, cfg, begun, offered, session, started>>

Clients == Guests \cup {Host}
Seats == 0 .. 3
NoSession == [start |-> 0]
NoCfg == [n |-> 0]  \* startLockstep() takes it for no seats
Seated(r) == DOMAIN r.seats

\* What the server sends, and the host.
Code(s) == [t |-> "code", seat |-> s]
Roster(ss) == [t |-> "roster", seats |-> ss]
Cfg(c) == [t |-> "cfg", cfg |-> c]
StartOf(k) == [t |-> "start", start |-> k]

(* broadcast(): to every seated client, at the end of its socket. *)
Broadcast(box, r, m) ==
  [c \in Clients |-> IF c \in Range(r.seats) THEN Append(box[c], m) ELSE box[c]]

(* packedLobbyCfg() *)
Packed(n) == [n |-> Max({2, Min({4, n})})]

LobbyInit ==
  /\ room = [seats |-> [s \in {0} |-> Host], cfg |-> NoCfg, inProgress |-> FALSE]
  /\ inbox = [c \in Clients |-> IF c = Host THEN <<Code(0), Roster({0})>> ELSE <<>>]
  /\ toHost = <<>>
  /\ left = {}
  /\ mySeat = [c \in Clients |-> 0]
  /\ roster = [c \in Clients |-> {}]
  /\ cfg = [c \in Clients |-> NoCfg]
  /\ begun = [c \in Clients |-> <<>>]
  /\ offered = [c \in Clients |-> <<>>]
  /\ session = [c \in Clients |-> NoSession]
  /\ started = <<>>

-------------------------------------------------------------------------------
\* The server.

\* Mutant: a guest may join a match that has begun.
JoinLate(g) ==
  LET s == Min(Seats \ Seated(room))
      r == [room EXCEPT !.seats = [x \in Seated(room) \cup {s} |-> IF x = s THEN g ELSE room.seats[x]]]
      told == Broadcast([inbox EXCEPT ![g] = Append(@, Code(s))], r, Roster(Seated(r)))
  IN  /\ g \notin left \cup Range(room.seats)
      /\ Seats # Seated(room)
      /\ room' = r
      /\ inbox' = [told EXCEPT ![g] = IF r.cfg = NoCfg THEN @ ELSE Append(@, Cfg(r.cfg))]
      /\ UNCHANGED <<toHost, left, mySeat, roster, cfg, begun, offered, session, started>>

(* "join": the first free seat, until the match begins. *)
Join(g) ==
  LET s == Min(Seats \ Seated(room))
      r == [room EXCEPT !.seats = [x \in Seated(room) \cup {s} |-> IF x = s THEN g ELSE room.seats[x]]]
      told == Broadcast([inbox EXCEPT ![g] = Append(@, Code(s))], r, Roster(Seated(r)))
  IN  /\ g \notin left \cup Range(room.seats)
      /\ ~room.inProgress /\ Seats # Seated(room)
      /\ room' = r
      /\ inbox' = [told EXCEPT ![g] = IF r.cfg = NoCfg THEN @ ELSE Append(@, Cfg(r.cfg))]
      /\ UNCHANGED <<toHost, left, mySeat, roster, cfg, begun, offered, session, started>>

(* onDisconnect() of a guest, "kick": the seat is empty, the others stay in *)
(* theirs.                                                                  *)
Leave(g) ==
  LET r == [room EXCEPT !.seats = Restrict(@, {s \in Seated(room) : room.seats[s] # g})]
  IN  /\ g \in Range(room.seats)
      /\ room' = r
      /\ left' = left \cup {g}
      /\ inbox' = Broadcast([inbox EXCEPT ![g] = <<>>], r, Roster(Seated(r)))
      /\ UNCHANGED <<toHost, mySeat, roster, cfg, begun, offered, session, started>>

(* "cfg" and "start" of the host, in the order it sent them; a start whose  *)
(* hash is not that of the room's config is refused.                        *)
ServerTakes ==
  /\ toHost # <<>>
  /\ toHost' = Tail(toHost)
  /\ LET m == Head(toHost)
     IN  IF m.t = "cfg"
         THEN /\ room' = [room EXCEPT !.cfg = m.cfg]
              /\ inbox' = Broadcast(inbox, room, m)
              /\ UNCHANGED started
         ELSE IF m.cfg # room.cfg THEN UNCHANGED <<room, inbox, started>>
         ELSE /\ room' = [room EXCEPT !.inProgress = TRUE]
              /\ started' = Append(started, Seated(room))
              /\ inbox' = Broadcast(inbox, room, StartOf(Len(started) + 1))
  /\ UNCHANGED <<left, mySeat, roster, cfg, begun, offered, session>>

-------------------------------------------------------------------------------
\* The clients.

(* meshOfferTargets() *)
Targets(seat, seats) == {s \in seats : s > seat}

\* Mutant: the session has the seats of the config alone.
SessionOfCfg(k, seat, seats, c) == [start |-> k, seat |-> seat, n |-> c.n]

(* startLockstep() *)
SessionOf(k, seat, seats, c) ==
  [start |-> k, seat |-> seat, n |-> Min({4, Max({2, Cardinality(seats), c.n})})]

(* publishLobbyCfg(), of the host: it believes in it at once. *)
Publish(n) ==
  /\ cfg' = [cfg EXCEPT ![Host] = Packed(n)]
  /\ toHost' = Append(toHost, Cfg(Packed(n)))

(* onCode(), onRoster(), onCfg() *)
Told(c) ==
  /\ inbox[c] # <<>>
  /\ inbox' = [inbox EXCEPT ![c] = Tail(@)]
  /\ LET m == Head(inbox[c])
     IN  \/ /\ m.t = "code"
            /\ mySeat' = [mySeat EXCEPT ![c] = m.seat]
            /\ roster' = [roster EXCEPT ![c] = {m.seat}]
            /\ IF m.seat = 0 THEN Publish(2) ELSE UNCHANGED <<cfg, toHost>>
         \/ /\ m.t = "roster"
            /\ roster' = [roster EXCEPT ![c] = m.seats]
            /\ IF c = Host /\ session[c] = NoSession
               THEN Publish(Cardinality(m.seats)) ELSE UNCHANGED <<cfg, toHost>>
            /\ UNCHANGED mySeat
         \/ /\ m.t = "cfg"
            /\ cfg' = [cfg EXCEPT ![c] = m.cfg]
            /\ UNCHANGED <<mySeat, roster, toHost>>
  /\ UNCHANGED <<room, left, begun, offered, session, started>>

(* onStart(): beginMesh() up to its first await, to its end if there is no  *)
(* offer to make.                                                           *)
BeginMesh(c) ==
  /\ inbox[c] # <<>> /\ Head(inbox[c]).t = "start"
  /\ inbox' = [inbox EXCEPT ![c] = Tail(@)]
  /\ LET k == Head(inbox[c]).start
         to == Targets(mySeat[c], roster[c])
     IN  /\ offered' = [offered EXCEPT ![c] = Append(@, to)]
         /\ IF to = {}
            THEN /\ session' = [session EXCEPT ![c] = SessionOf(k, mySeat[c], roster[c], cfg[c])]
                 /\ UNCHANGED begun
            ELSE /\ begun' = [begun EXCEPT ![c] = Append(@, k)]
                 /\ UNCHANGED session
  /\ UNCHANGED <<room, toHost, left, mySeat, roster, cfg, started>>

(* The rest of beginMesh(), after its last await. *)
StartLockstep(c) ==
  /\ begun[c] # <<>>
  /\ begun' = [begun EXCEPT ![c] = Tail(@)]
  /\ session' = [session EXCEPT ![c] =
                   SessionOf(Head(begun[c]), mySeat[c], roster[c], cfg[c])]
  /\ UNCHANGED <<room, toHost, inbox, left, mySeat, roster, cfg, offered, started>>

(* The host's Start button, which stays where it is. *)
PressStart ==
  /\ cfg[Host] # NoCfg
  /\ Cardinality(roster[Host]) \in 2 .. 4
  /\ Len(SelectSeq(toHost, LAMBDA m : m.t = "start")) + Len(started) < MaxStarts
  /\ LET c == Packed(Cardinality(roster[Host]))
     IN  /\ cfg' = [cfg EXCEPT ![Host] = c]
         /\ toHost' = toHost \o <<Cfg(c), [t |-> "start", cfg |-> c]>>
  /\ UNCHANGED <<room, inbox, left, mySeat, roster, begun, offered, session, started>>

LobbyNext ==
  \/ ServerTakes \/ PressStart
  \/ \E g \in Guests : Join(g) \/ Leave(g)
  \/ \E c \in Clients : Told(c) \/ BeginMesh(c) \/ StartLockstep(c)

LobbySpec == LobbyInit /\ [][LobbyNext]_lobbyVars

-------------------------------------------------------------------------------
LobbyMessages ==
  [t : {"code"}, seat : Seats] \cup [t : {"roster"}, seats : SUBSET Seats]
    \cup [t : {"cfg"}, cfg : [n : 2 .. 4]] \cup [t : {"start"}, start : 1 .. MaxStarts]

LobbyTypeOK ==
  /\ \A c \in Clients : Range(inbox[c]) \subseteq LobbyMessages
  /\ mySeat \in [Clients -> Seats] /\ roster \in [Clients -> SUBSET Seats]
  /\ \A c \in Clients : cfg[c] = NoCfg \/ cfg[c] \in [n : 2 .. 4]

InMatch(c) == session[c] # NoSession

(* However joins, rosters and configs overtake a start: as long as nobody   *)
(* has left the room, whoever begins a session begins it for the seats of   *)
(* its start, its own among them.                                           *)
SessionsFit ==
  left = {} => \A c \in Clients : InMatch(c) =>
    /\ session[c].n = Max({2, Cardinality(started[session[c].start])})
    /\ session[c].seat < session[c].n
    /\ room.seats[session[c].seat] = c

(* Of any two seats of a start one offers the connection, and only one.     *)
OneOffers ==
  \A c \in Clients : \A k \in DOMAIN offered[c] :
    c \notin left => offered[c][k] = Targets(mySeat[c], started[k])

(* The peers of a match agree on its seats. *)
SeatsAgree == SessionsFit /\ OneOffers

(* "Each peer occupies one seat 0..n-1." *)
SeatFits == \A c \in Clients : InMatch(c) => session[c].seat < session[c].n
===============================================================================
