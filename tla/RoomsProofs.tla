----------------------------- MODULE RoomsProofs -----------------------------
(***************************************************************************)
(* Theorems of Rooms, for any number of clients, rooms and seats, as long  *)
(* as no client creates or joins while it has a seat (~Rejoin; with it     *)
(* HostPresent fails).                                                     *)
(*                                                                         *)
(* The invariant is about one room at a time (RoomOK): its seats, what its *)
(* clients remember and what they were told.  A step rewrites one room and *)
(* drops some; the others stand because they share no client with it       *)
(* (Kept).                                                                 *)
(***************************************************************************)
EXTENDS Rooms, WellFoundedInduction, TLAPS

RosterType == [seats : Rosters, ready : SUBSET SeatIds]

(* Room r under code k, given who is connected, what clients remember and   *)
(* what they were told.                                                     *)
RoomOK(k, r, conn, rm, st, tl, tc) ==
  /\ r \in RoomType
  /\ r.seats[0] \in conn
  /\ \A i \in SeatIds :
       r.seats[i] # Nobody =>
         /\ r.seats[i] \in conn /\ rm[r.seats[i]] = k /\ st[r.seats[i]] = i
         /\ tl[r.seats[i]] = Roster(r)
         /\ r.cfg # NoCfg => tc[r.seats[i]] = r.cfg

RoomsOK(R, conn, rm, st, tl, tc) ==
  \A k \in DOMAIN R : RoomOK(k, R[k], conn, rm, st, tl, tc)

(* What a client remembers of a room was once drawn. *)
Shape ==
  /\ DOMAIN rooms \subseteq drawn /\ drawn \subseteq Codes
  /\ connected \subseteq Clients
  /\ room \in [Clients -> Codes \cup {NoRoom}]
  /\ seat \in [Clients -> SeatIds \cup {-1}]
  /\ told \in [Clients -> RosterType \cup {NoRoster}]
  /\ toldCfg \in [Clients -> Cfgs \cup {NoCfg}]
  /\ \A c \in Clients : room[c] # NoRoom => room[c] \in drawn /\ seat[c] \in SeatIds

AllSeated == \A c \in connected : room[c] \in DOMAIN rooms => Seated(c)

IInv == Shape /\ RoomsOK(rooms, connected, room, seat, told, toldCfg) /\ AllSeated

-------------------------------------------------------------------------------
(* Helpers of the code. *)

LEMMA SeatIdsFacts == 0 \in SeatIds /\ SeatIds \subseteq Nat
  BY RoomsAssumption DEF SeatIds

LEMMA SweptFacts ==
  ASSUME NEW R
  PROVE  /\ DOMAIN Swept(R) = Live(R) /\ Live(R) \subseteq DOMAIN R
         /\ \A k \in Live(R) : Swept(R)[k] = R[k]
  BY DEF Swept, Live

(* A seat that is free has a first. *)
LEMMA FirstFreeFacts ==
  ASSUME NEW r, FreeSeats(r) # {}
  PROVE  FirstFree(r) \in FreeSeats(r)
<1>1. FreeSeats(r) \subseteq Nat
  BY SeatIdsFacts DEF FreeSeats
<1>2. PICK i \in FreeSeats(r) : \A j \in FreeSeats(r) : <<j, i>> \notin OpToRel(<, Nat)
  BY <1>1, NatLessThanWellFounded, WFMin
<1>3. \A j \in FreeSeats(r) : i <= j
  <2>. SUFFICES ASSUME NEW j \in FreeSeats(r), ~(i <= j) PROVE FALSE
    OBVIOUS
  <2>. DEFINE p == <<j, i>>
  <2>1. i \in Nat /\ j \in Nat /\ j < i
    BY <1>1
  <2>2. p \in Nat \X Nat /\ p[1] < p[2]
    BY <2>1
  <2>3. p \in {ss \in Nat \X Nat : ss[1] < ss[2]}
    BY <2>2
  <2>4. p \in OpToRel(<, Nat)
    BY <2>3 DEF OpToRel
  <2>. QED  BY <1>2, <2>4
<1>. QED  BY <1>3 DEF FirstFree

-------------------------------------------------------------------------------
(* A room stands when its clients remember it and were last told of it. *)
LEMMA Kept ==
  ASSUME NEW k, NEW r, NEW conn, NEW rm, NEW st, NEW tl, NEW tc,
         NEW conn2, NEW rm2, NEW st2, NEW tl2, NEW tc2,
         RoomOK(k, r, conn, rm, st, tl, tc), Nobody \notin conn,
         \A i \in SeatIds :
           r.seats[i] # Nobody =>
             /\ r.seats[i] \in conn2 /\ rm2[r.seats[i]] = rm[r.seats[i]]
             /\ st2[r.seats[i]] = st[r.seats[i]] /\ tl2[r.seats[i]] = tl[r.seats[i]]
             /\ tc2[r.seats[i]] = tc[r.seats[i]]
  PROVE  RoomOK(k, r, conn2, rm2, st2, tl2, tc2)
  BY SeatIdsFacts DEF RoomOK

(* Rewriting one room, when the others stand. *)
LEMMA OneRoom ==
  ASSUME NEW R, NEW k, NEW r, NEW conn, NEW rm, NEW st, NEW tl, NEW tc,
         RoomOK(k, r, conn, rm, st, tl, tc),
         \A j \in DOMAIN R \ {k} : RoomOK(j, R[j], conn, rm, st, tl, tc)
  PROVE  RoomsOK(With(R, k, r), conn, rm, st, tl, tc)
<1>. DEFINE N == With(R, k, r)
<1>1. DOMAIN N = DOMAIN R \cup {k} /\ N[k] = r /\ \A j \in DOMAIN R \ {k} : N[j] = R[j]
  BY DEF With
<1>2. ASSUME NEW j \in DOMAIN N PROVE RoomOK(j, N[j], conn, rm, st, tl, tc)
  <2>1. CASE j = k
    BY <2>1, <1>1
  <2>2. CASE j # k
    <3>1. j \in DOMAIN R \ {k}
      BY <2>2, <1>1
    <3>. QED  BY <3>1, <1>1
  <2>. QED  BY <2>1, <2>2
<1>. QED  BY <1>2 DEF RoomsOK

(* Seats of different rooms, and different seats, have different clients. *)
LEMMA OwnSeat ==
  ASSUME NEW R, NEW conn, NEW rm, NEW st, NEW tl, NEW tc, RoomsOK(R, conn, rm, st, tl, tc),
         NEW j \in DOMAIN R, NEW k \in DOMAIN R, NEW i \in SeatIds, NEW n \in SeatIds,
         R[j].seats[i] # Nobody, R[j].seats[i] = R[k].seats[n]
  PROVE  j = k /\ i = n
  BY DEF RoomsOK, RoomOK

(* Of a room that is found, everything but its age is as it was. *)
LEMMA FoundFacts ==
  ASSUME IInv, NEW c \in connected, Found(c)
  PROVE  /\ room[c] \in DOMAIN rooms /\ room[c] \in Codes /\ room[c] \in drawn
         /\ seat[c] \in SeatIds
         /\ rooms[room[c]].seats[seat[c]] = c
         /\ rooms[room[c]] \in RoomType
         /\ Touched(c) \in RoomType
         /\ Touched(c).seats = rooms[room[c]].seats
         /\ Touched(c).ready = rooms[room[c]].ready
         /\ Touched(c).cfg = rooms[room[c]].cfg
<1>1. room[c] \in DOMAIN rooms
  BY SweptFacts DEF Found
<1>2. room[c] \in Codes /\ room[c] \in drawn /\ seat[c] \in SeatIds
  BY <1>1, RoomsAssumption DEF IInv, Shape
<1>3. rooms[room[c]].seats[seat[c]] = c
  BY <1>1 DEF IInv, AllSeated, Seated
<1>4. rooms[room[c]] \in RoomType
  BY <1>1 DEF IInv, RoomsOK, RoomOK
<1>5. /\ Touched(c) \in RoomType
      /\ Touched(c).seats = rooms[room[c]].seats
      /\ Touched(c).ready = rooms[room[c]].ready
      /\ Touched(c).cfg = rooms[room[c]].cfg
  BY <1>4 DEF Touched, RoomType
<1>. QED  BY <1>1, <1>2, <1>3, <1>4, <1>5

-------------------------------------------------------------------------------
(* One lemma per message. *)

(* A message that leaves the seats of its room as they are. *)
LEMMA Rewritten ==
  ASSUME IInv, NEW c \in connected, Found(c), NEW r \in RoomType,
         r.seats = rooms[room[c]].seats, Becomes(c, r),
         UNCHANGED <<drawn, connected, room, seat>>,
         told' \in [Clients -> RosterType \cup {NoRoster}],
         toldCfg' \in [Clients -> Cfgs \cup {NoCfg}],
         RoomOK(room[c], r, connected, room, seat, told', toldCfg'),
         \A d \in Clients \ Members(r) : told'[d] = told[d] /\ toldCfg'[d] = toldCfg[d]
  PROVE  IInv'
<1>. DEFINE k == room[c]
            S == Swept(rooms)
<1>1. k \in DOMAIN rooms /\ k \in drawn /\ k \in Live(rooms)
  BY FoundFacts DEF Found
<1>2. /\ DOMAIN S = Live(rooms) /\ Live(rooms) \subseteq DOMAIN rooms
      /\ \A j \in Live(rooms) : S[j] = rooms[j]
  BY SweptFacts
<1>3. rooms' = With(S, k, r)
  BY DEF Becomes
<1>4. DOMAIN rooms' = Live(rooms)
  BY <1>1, <1>2, <1>3 DEF With
<1>5. Shape'
  BY <1>2, <1>4 DEF IInv, Shape
<1>6. ASSUME NEW j \in DOMAIN S \ {k}
      PROVE  RoomOK(j, S[j], connected, room, seat, told', toldCfg')
  <2>1. j \in DOMAIN rooms /\ S[j] = rooms[j]
    BY <1>2
  <2>2. RoomOK(j, rooms[j], connected, room, seat, told, toldCfg)
    BY <2>1 DEF IInv, RoomsOK
  <2>3. ASSUME NEW i \in SeatIds, rooms[j].seats[i] # Nobody
        PROVE  rooms[j].seats[i] \in connected /\ rooms[j].seats[i] \in Clients \ Members(r)
    <3>1. rooms[j].seats[i] \in connected /\ room[rooms[j].seats[i]] = j
      BY <2>2, <2>3 DEF RoomOK
    <3>2. \A n \in SeatIds : rooms[k].seats[n] # rooms[j].seats[i]
      BY <1>1, <2>1, <2>3, OwnSeat DEF IInv
    <3>. QED  BY <3>1, <3>2 DEF IInv, Shape, Members
  <2>4. Nobody \notin connected
    BY RoomsAssumption DEF IInv, Shape
  <2>5. RoomOK(j, rooms[j], connected, room, seat, told', toldCfg')
    BY <2>2, <2>3, <2>4, Kept
  <2>. QED  BY <2>1, <2>5
<1>7. RoomsOK(rooms', connected, room, seat, told', toldCfg')
  BY <1>3, <1>6, OneRoom
<1>8. ASSUME NEW d \in connected, room[d] \in DOMAIN rooms'
      PROVE  rooms'[room[d]].seats[seat[d]] = d
  <2>1. room[d] \in DOMAIN rooms /\ rooms[room[d]].seats[seat[d]] = d
    BY <1>8, <1>2, <1>4 DEF IInv, AllSeated, Seated
  <2>2. CASE room[d] = k
    BY <2>1, <2>2, <1>1, <1>2, <1>3 DEF With
  <2>3. CASE room[d] # k
    <3>1. room[d] \in DOMAIN S \ {k}
      BY <2>3, <1>8, <1>2, <1>4
    <3>2. rooms'[room[d]] = S[room[d]]
      BY <3>1, <1>3 DEF With
    <3>. QED  BY <3>1, <3>2, <2>1, <1>2
  <2>. QED  BY <2>2, <2>3
<1>. QED  BY <1>5, <1>7, <1>8 DEF IInv, AllSeated, Seated

LEMMA TouchInv ==
  ASSUME IInv, NEW c \in connected, Touch(c)
  PROVE  IInv'
<1>. DEFINE r == Touched(c)
<1>1. Found(c) /\ Becomes(c, r) /\ UNCHANGED <<drawn, connected, room, seat, told, toldCfg>>
  BY DEF Touch
<1>2. /\ r \in RoomType /\ r.seats = rooms[room[c]].seats
      /\ r.ready = rooms[room[c]].ready /\ r.cfg = rooms[room[c]].cfg
      /\ room[c] \in DOMAIN rooms
  BY <1>1, FoundFacts
<1>3. RoomOK(room[c], r, connected, room, seat, told, toldCfg)
  BY <1>2 DEF IInv, RoomsOK, RoomOK, Roster
<1>4. told \in [Clients -> RosterType \cup {NoRoster}] /\ toldCfg \in [Clients -> Cfgs \cup {NoCfg}]
  BY DEF IInv, Shape
<1>. HIDE DEF r
<1>. QED  BY <1>1, <1>2, <1>3, <1>4, Rewritten

LEMMA CfgInv ==
  ASSUME IInv, NEW c \in connected, NEW cfg \in Cfgs, Cfg(c, cfg)
  PROVE  IInv'
<1>. DEFINE r == [Touched(c) EXCEPT !.cfg = cfg]
            old == rooms[room[c]]
<1>1. /\ Found(c) /\ Becomes(c, r) /\ UNCHANGED <<drawn, connected, room, seat, told>>
      /\ toldCfg' = TellCfg(r)
  BY DEF Cfg, IsHost
<1>2. /\ r \in RoomType /\ r.seats = old.seats /\ r.ready = old.ready /\ r.cfg = cfg
      /\ room[c] \in DOMAIN rooms
  BY <1>1, FoundFacts DEF RoomType
<1>. HIDE DEF r
<1>3. /\ told \in [Clients -> RosterType \cup {NoRoster}]
      /\ toldCfg \in [Clients -> Cfgs \cup {NoCfg}] /\ connected \subseteq Clients
  BY DEF IInv, Shape
<1>4. /\ toldCfg' \in [Clients -> Cfgs \cup {NoCfg}]
      /\ \A d \in Clients : toldCfg'[d] = IF d \in Members(r) THEN cfg ELSE toldCfg[d]
  BY <1>1, <1>2, <1>3 DEF TellCfg
<1>5. RoomOK(room[c], old, connected, room, seat, told, toldCfg)
  BY <1>2 DEF IInv, RoomsOK
<1>6. \A i \in SeatIds : r.seats[i] # Nobody => toldCfg'[r.seats[i]] = r.cfg
  BY <1>2, <1>3, <1>4, <1>5 DEF RoomOK, Members
<1>7. RoomOK(room[c], r, connected, room, seat, told', toldCfg')
  BY <1>1, <1>2, <1>5, <1>6 DEF RoomOK, Roster
<1>. QED  BY <1>1, <1>2, <1>3, <1>4, <1>7, Rewritten

(* TellRoster() tells the members of r, and nobody else. *)
LEMMA TellRosterFacts ==
  ASSUME Shape, NEW r \in RoomType
  PROVE  /\ TellRoster(r) \in [Clients -> RosterType \cup {NoRoster}]
         /\ \A d \in Clients : TellRoster(r)[d] = IF d \in Members(r) THEN Roster(r) ELSE told[d]
<1>1. Roster(r) \in RosterType
  BY DEF Roster, RosterType, RoomType
<1>2. told \in [Clients -> RosterType \cup {NoRoster}]
  BY DEF Shape
<1>. QED  BY <1>1, <1>2 DEF TellRoster

LEMMA ReadyInv ==
  ASSUME IInv, NEW c \in connected, NEW flag \in BOOLEAN, Ready(c, flag)
  PROVE  IInv'
<1>. DEFINE t == Touched(c)
            r == IF t.seats[seat[c]] = Nobody THEN t
                 ELSE [t EXCEPT !.ready = IF flag THEN @ \cup {seat[c]} ELSE @ \ {seat[c]}]
            old == rooms[room[c]]
<1>1. /\ Found(c) /\ Becomes(c, r) /\ UNCHANGED <<drawn, connected, room, seat, toldCfg>>
      /\ told' = TellRoster(r)
  BY DEF Ready
<1>2. /\ t \in RoomType /\ t.seats = old.seats /\ t.cfg = old.cfg
      /\ seat[c] \in SeatIds /\ room[c] \in DOMAIN rooms
  BY <1>1, FoundFacts
<1>3. r \in RoomType /\ r.seats = old.seats /\ r.cfg = old.cfg
  <2>1. CASE t.seats[seat[c]] = Nobody
    BY <2>1, <1>2
  <2>2. CASE t.seats[seat[c]] # Nobody
    <3>. DEFINE q == IF flag THEN t.ready \cup {seat[c]} ELSE t.ready \ {seat[c]}
    <3>1. t.ready \in SUBSET SeatIds
      BY <1>2 DEF RoomType
    <3>2. q \in SUBSET SeatIds
      BY <3>1, <1>2
    <3>3. r = [t EXCEPT !.ready = q]
      BY <2>2
    <3>. HIDE DEF q, r, t
    <3>. QED  BY <3>2, <3>3, <1>2 DEF RoomType
  <2>. QED  BY <2>1, <2>2
<1>. HIDE DEF r, t
<1>4. /\ told' \in [Clients -> RosterType \cup {NoRoster}]
      /\ \A d \in Clients : told'[d] = IF d \in Members(r) THEN Roster(r) ELSE told[d]
  BY <1>1, <1>3, TellRosterFacts DEF IInv
<1>5. RoomOK(room[c], old, connected, room, seat, told, toldCfg)
  BY <1>2 DEF IInv, RoomsOK
<1>6. toldCfg' \in [Clients -> Cfgs \cup {NoCfg}] /\ connected \subseteq Clients
  BY <1>1 DEF IInv, Shape
<1>7. \A i \in SeatIds : r.seats[i] # Nobody => told'[r.seats[i]] = Roster(r)
  BY <1>3, <1>4, <1>5, <1>6 DEF RoomOK, Members
<1>8. RoomOK(room[c], r, connected, room, seat, told', toldCfg')
  BY <1>1, <1>3, <1>5, <1>7 DEF RoomOK
<1>. QED  BY <1>1, <1>3, <1>4, <1>6, <1>8, Rewritten

LEMMA StartInv ==
  ASSUME IInv, NEW c \in connected, NEW cfg \in Cfgs, Start(c, cfg)
  PROVE  IInv'
<1>. DEFINE r == [Touched(c) EXCEPT !.inProgress = TRUE]
            old == rooms[room[c]]
<1>1. Found(c) /\ Becomes(c, r) /\ UNCHANGED <<drawn, connected, room, seat, told, toldCfg>>
  BY DEF Start, IsHost
<1>2. /\ r \in RoomType /\ r.seats = old.seats /\ r.ready = old.ready /\ r.cfg = old.cfg
      /\ room[c] \in DOMAIN rooms
  BY <1>1, FoundFacts DEF RoomType
<1>. HIDE DEF r
<1>3. RoomOK(room[c], r, connected, room, seat, told, toldCfg)
  BY <1>2 DEF IInv, RoomsOK, RoomOK, Roster
<1>4. told \in [Clients -> RosterType \cup {NoRoster}] /\ toldCfg \in [Clients -> Cfgs \cup {NoCfg}]
  BY DEF IInv, Shape
<1>. QED  BY <1>1, <1>2, <1>3, <1>4, Rewritten

(* Rooms that go, of which nobody is told. *)
LEMMA Fewer ==
  ASSUME IInv, UNCHANGED <<drawn, connected, room, seat, told, toldCfg>>,
         DOMAIN rooms' \subseteq DOMAIN rooms, \A k \in DOMAIN rooms' : rooms'[k] = rooms[k]
  PROVE  IInv'
<1>1. Shape'
  BY DEF IInv, Shape
<1>2. RoomsOK(rooms', connected, room, seat, told, toldCfg)
  BY DEF IInv, RoomsOK
<1>3. AllSeated'
  BY DEF IInv, AllSeated, Seated
<1>. QED  BY <1>1, <1>2, <1>3 DEF IInv

LEMMA SweepInv ==
  ASSUME IInv, Sweep
  PROVE  IInv'
  BY Fewer, SweptFacts DEF Sweep

LEMMA CloseInv ==
  ASSUME IInv, NEW c \in connected, Close(c)
  PROVE  IInv'
<1>. DEFINE S == Swept(rooms)
<1>1. /\ DOMAIN S \subseteq DOMAIN rooms
      /\ \A k \in DOMAIN S : S[k] = rooms[k]
  BY SweptFacts
<1>2. rooms' = Without(S, room[c]) /\ UNCHANGED <<drawn, connected, room, seat, told, toldCfg>>
  BY DEF Close
<1>3. DOMAIN rooms' \subseteq DOMAIN rooms /\ \A k \in DOMAIN rooms' : rooms'[k] = rooms[k]
  BY <1>1, <1>2 DEF Without
<1>. QED  BY <1>2, <1>3, Fewer

LEMMA IdleInv ==
  ASSUME IInv, NEW k \in DOMAIN rooms, Idle(k)
  PROVE  IInv'
<1>. DEFINE r == [rooms[k] EXCEPT !.age = rooms[k].age + 1]
<1>1. /\ UNCHANGED <<drawn, connected, room, seat, told, toldCfg>>
      /\ rooms' = [rooms EXCEPT ![k] = r] /\ rooms[k].age < 2
  BY DEF Idle
<1>2. RoomOK(k, rooms[k], connected, room, seat, told, toldCfg)
  BY DEF IInv, RoomsOK
<1>3. /\ r \in RoomType /\ r.seats = rooms[k].seats
      /\ r.ready = rooms[k].ready /\ r.cfg = rooms[k].cfg
  <2>1. rooms[k] \in RoomType /\ rooms[k].age + 1 \in 0 .. 2
    BY <1>1, <1>2 DEF RoomOK, RoomType
  <2>. QED  BY <2>1 DEF RoomType
<1>. HIDE DEF r
<1>4. RoomOK(k, r, connected, room, seat, told, toldCfg)
  BY <1>2, <1>3 DEF RoomOK, Roster
<1>5. RoomsOK(rooms', connected, room, seat, told, toldCfg)
  BY <1>1, <1>4 DEF IInv, RoomsOK
<1>6. Shape'
  BY <1>1 DEF IInv, Shape
<1>7. AllSeated'
  BY <1>1, <1>3 DEF IInv, AllSeated, Seated
<1>. QED  BY <1>1, <1>5, <1>6, <1>7 DEF IInv

(* A client without a seat in the room it remembers is in no seat at all. *)
LEMMA InNoSeat ==
  ASSUME IInv, NEW c \in connected, room[c] \notin DOMAIN rooms
  PROVE  \A j \in DOMAIN rooms : \A i \in SeatIds : rooms[j].seats[i] # c
<1>1. c # Nobody
  BY RoomsAssumption DEF IInv, Shape
<1>. QED  BY <1>1 DEF IInv, RoomsOK, RoomOK

LEMMA CreateInv ==
  ASSUME IInv, NEW c \in connected, room[c] \notin DOMAIN rooms, NEW k \in Codes, Create(c, k)
  PROVE  IInv'
<1>. DEFINE r == NewRoom(c)
            S == Swept(rooms)
<1>1. /\ k \notin drawn /\ rooms' = With(S, k, r) /\ drawn' = drawn \cup {k}
      /\ room' = [room EXCEPT ![c] = k] /\ seat' = [seat EXCEPT ![c] = 0]
      /\ told' = [told EXCEPT ![c] = Roster(r)] /\ connected' = connected /\ toldCfg' = toldCfg
  BY DEF Create
<1>2. /\ DOMAIN S \subseteq DOMAIN rooms
      /\ \A j \in DOMAIN S : S[j] = rooms[j]
  BY SweptFacts
<1>3. DOMAIN rooms \subseteq drawn /\ c \in Clients /\ c # Nobody /\ connected \subseteq Clients
  BY RoomsAssumption DEF IInv, Shape
<1>4. /\ r \in RoomType /\ r.cfg = NoCfg
      /\ \A i \in SeatIds : r.seats[i] = IF i = 0 THEN c ELSE Nobody
  BY <1>3 DEF NewRoom, RoomType, Rosters
<1>. HIDE DEF r
<1>5. Roster(r) \in RosterType
  BY <1>4 DEF Roster, RosterType, RoomType
<1>6. Shape'
  <2>1. DOMAIN rooms' = DOMAIN S \cup {k}
    BY <1>1 DEF With
  <2>. QED  BY <1>1, <1>2, <1>3, <1>5, <2>1, SeatIdsFacts DEF IInv, Shape
<1>7. RoomOK(k, r, connected', room', seat', told', toldCfg')
  BY <1>1, <1>3, <1>4, SeatIdsFacts DEF RoomOK, IInv, Shape
<1>8. ASSUME NEW j \in DOMAIN S \ {k}
      PROVE  RoomOK(j, S[j], connected', room', seat', told', toldCfg')
  <2>1. j \in DOMAIN rooms /\ S[j] = rooms[j]
    BY <1>2
  <2>2. RoomOK(j, rooms[j], connected, room, seat, told, toldCfg)
    BY <2>1 DEF IInv, RoomsOK
  <2>3. \A i \in SeatIds : rooms[j].seats[i] # Nobody =>
          rooms[j].seats[i] \in connected /\ rooms[j].seats[i] # c
    BY <2>1, <2>2, InNoSeat DEF RoomOK
  <2>4. Nobody \notin connected
    BY <1>3, RoomsAssumption
  <2>5. \A d \in Clients \ {c} : room'[d] = room[d] /\ seat'[d] = seat[d] /\ told'[d] = told[d]
    BY <1>1 DEF IInv, Shape
  <2>6. \A i \in SeatIds : rooms[j].seats[i] # Nobody =>
          /\ rooms[j].seats[i] \in connected' /\ room'[rooms[j].seats[i]] = room[rooms[j].seats[i]]
          /\ seat'[rooms[j].seats[i]] = seat[rooms[j].seats[i]]
          /\ told'[rooms[j].seats[i]] = told[rooms[j].seats[i]]
          /\ toldCfg'[rooms[j].seats[i]] = toldCfg[rooms[j].seats[i]]
    BY <1>1, <1>3, <2>3, <2>5
  <2>7. RoomOK(j, rooms[j], connected', room', seat', told', toldCfg')
    BY <2>2, <2>4, <2>6, Kept
  <2>. QED  BY <2>1, <2>7
<1>9. RoomsOK(rooms', connected', room', seat', told', toldCfg')
  BY <1>1, <1>7, <1>8, OneRoom
<1>10. ASSUME NEW d \in connected, room'[d] \in DOMAIN rooms'
       PROVE  rooms'[room'[d]].seats[seat'[d]] = d
  <2>1. CASE d = c
    <3>1. room'[c] = k /\ seat'[c] = 0 /\ rooms'[k] = r
      BY <1>1, <1>3 DEF IInv, Shape, With
    <3>. QED  BY <2>1, <3>1, <1>4, SeatIdsFacts
  <2>2. CASE d # c
    <3>1. room'[d] = room[d] /\ seat'[d] = seat[d]
      BY <2>2, <1>1, <1>3 DEF IInv, Shape
    <3>2. room[d] # k
      BY <1>1, <1>3, RoomsAssumption DEF IInv, Shape
    <3>3. room[d] \in DOMAIN S /\ rooms'[room[d]] = S[room[d]]
      BY <3>1, <3>2, <1>10, <1>1 DEF With
    <3>4. room[d] \in DOMAIN rooms /\ S[room[d]] = rooms[room[d]]
      BY <3>3, <1>2
    <3>. QED  BY <3>1, <3>3, <3>4 DEF IInv, AllSeated, Seated
  <2>. QED  BY <2>1, <2>2
<1>. QED  BY <1>1, <1>6, <1>9, <1>10 DEF IInv, AllSeated, Seated

LEMMA JoinInv ==
  ASSUME IInv, NEW c \in connected, room[c] \notin DOMAIN rooms, NEW k \in Codes, Join(c, k)
  PROVE  IInv'
<1>. DEFINE S == Swept(rooms)
            n == FirstFree(S[k])
            r == [S[k] EXCEPT !.seats[n] = c, !.ready = @ \ {n}, !.age = 0]
            old == rooms[k]
<1>1. /\ k \in DOMAIN S /\ FreeSeats(S[k]) # {} /\ rooms' = With(S, k, r)
      /\ room' = [room EXCEPT ![c] = k] /\ seat' = [seat EXCEPT ![c] = n]
      /\ told' = TellRoster(r) /\ drawn' = drawn /\ connected' = connected
      /\ toldCfg' = IF r.cfg # NoCfg THEN [toldCfg EXCEPT ![c] = r.cfg] ELSE toldCfg
  BY DEF Join
<1>2. /\ DOMAIN S \subseteq DOMAIN rooms
      /\ \A j \in DOMAIN S : S[j] = rooms[j]
  BY SweptFacts
<1>3. /\ c \in Clients /\ c # Nobody /\ connected \subseteq Clients /\ Nobody \notin connected
      /\ k \in DOMAIN rooms /\ k \in drawn /\ S[k] = old
  BY <1>1, <1>2, RoomsAssumption DEF IInv, Shape
<1>4. n \in SeatIds /\ old.seats[n] = Nobody
  BY <1>1, <1>3, FirstFreeFacts DEF FreeSeats
<1>5. RoomOK(k, old, connected, room, seat, told, toldCfg)
  BY <1>3 DEF IInv, RoomsOK
<1>. HIDE DEF n
<1>6. /\ r \in RoomType /\ r.cfg = old.cfg
      /\ \A i \in SeatIds : r.seats[i] = IF i = n THEN c ELSE old.seats[i]
  <2>. DEFINE ss == [old.seats EXCEPT ![n] = c]
              rr == old.ready \ {n}
  <2>1. old \in RoomType
    BY <1>5 DEF RoomOK
  <2>2. ss \in Rosters /\ \A i \in SeatIds : ss[i] = IF i = n THEN c ELSE old.seats[i]
    BY <2>1, <1>3, <1>4 DEF RoomType, Rosters
  <2>3. rr \in SUBSET SeatIds
    BY <2>1 DEF RoomType
  <2>4. r = [old EXCEPT !.seats = ss, !.ready = rr, !.age = 0]
    BY <1>3, <2>1 DEF RoomType
  <2>. HIDE DEF ss, rr, r, old
  <2>5. r \in RoomType
    <3>. DEFINE p == [old EXCEPT !.seats = ss]
                q == [p EXCEPT !.ready = rr]
    <3>1. p \in RoomType
      BY <2>1, <2>2 DEF RoomType
    <3>. HIDE DEF p
    <3>2. q \in RoomType
      BY <3>1, <2>3 DEF RoomType
    <3>. HIDE DEF q
    <3>3. r = [q EXCEPT !.age = 0]
      BY <2>4 DEF p, q
    <3>. QED  BY <3>2, <3>3 DEF RoomType
  <2>6. r.seats = ss /\ r.cfg = old.cfg
    BY <2>1, <2>4 DEF RoomType
  <2>. QED  BY <2>2, <2>5, <2>6
<1>. HIDE DEF r
<1>7. Shape /\ IInv
  BY DEF IInv
<1>8. /\ told' \in [Clients -> RosterType \cup {NoRoster}]
      /\ \A d \in Clients : told'[d] = IF d \in Members(r) THEN Roster(r) ELSE told[d]
  BY <1>1, <1>6, <1>7, TellRosterFacts
<1>9. toldCfg' \in [Clients -> Cfgs \cup {NoCfg}]
  BY <1>1, <1>6, <1>7 DEF Shape, RoomType
<1>10. Shape'
  <2>1. DOMAIN rooms' = DOMAIN S \cup {k}
    BY <1>1 DEF With
  <2>. QED  BY <1>1, <1>2, <1>3, <1>4, <1>7, <1>8, <1>9, <2>1 DEF Shape
<1>11. \A d \in Clients \ {c} :
         room'[d] = room[d] /\ seat'[d] = seat[d] /\ toldCfg'[d] = toldCfg[d]
  BY <1>1, <1>7 DEF Shape
<1>12. room'[c] = k /\ seat'[c] = n /\ (r.cfg # NoCfg => toldCfg'[c] = r.cfg)
  BY <1>1, <1>3, <1>7 DEF Shape
<1>13. RoomOK(k, r, connected', room', seat', told', toldCfg')
  <2>1. ASSUME NEW i \in SeatIds, r.seats[i] # Nobody
        PROVE  /\ r.seats[i] \in connected /\ room'[r.seats[i]] = k /\ seat'[r.seats[i]] = i
               /\ told'[r.seats[i]] = Roster(r)
               /\ r.cfg # NoCfg => toldCfg'[r.seats[i]] = r.cfg
    <3>1. r.seats[i] \in Members(r)
      BY <2>1 DEF Members
    <3>2. CASE i = n
      BY <3>1, <3>2, <1>3, <1>6, <1>8, <1>12
    <3>3. CASE i # n
      <4>1. r.seats[i] = old.seats[i] /\ old.seats[i] \in connected /\ old.seats[i] # c
        BY <3>3, <2>1, <1>3, <1>5, <1>6, InNoSeat DEF RoomOK
      <4>2. room[old.seats[i]] = k /\ seat[old.seats[i]] = i
            /\ (old.cfg # NoCfg => toldCfg[old.seats[i]] = old.cfg)
        BY <4>1, <2>1, <1>5 DEF RoomOK
      <4>3. old.seats[i] \in Clients \ {c}
        BY <4>1, <1>3
      <4>. QED  BY <4>1, <4>2, <4>3, <3>1, <1>6, <1>8, <1>11
    <3>. QED  BY <3>2, <3>3
  <2>2. r.seats[0] \in connected
    BY <1>3, <1>5, <1>6, SeatIdsFacts DEF RoomOK
  <2>. QED  BY <1>1, <1>6, <2>1, <2>2 DEF RoomOK
<1>14. ASSUME NEW j \in DOMAIN S \ {k}
       PROVE  RoomOK(j, S[j], connected', room', seat', told', toldCfg')
  <2>1. j \in DOMAIN rooms /\ S[j] = rooms[j]
    BY <1>2
  <2>2. RoomOK(j, rooms[j], connected, room, seat, told, toldCfg)
    BY <2>1, <1>7 DEF IInv, RoomsOK
  <2>3. ASSUME NEW i \in SeatIds, rooms[j].seats[i] # Nobody
        PROVE  /\ rooms[j].seats[i] \in connected /\ rooms[j].seats[i] \in Clients \ {c}
               /\ rooms[j].seats[i] \notin Members(r)
    <3>1. rooms[j].seats[i] \in connected /\ rooms[j].seats[i] # c
      BY <2>1, <2>2, <2>3, <1>7, InNoSeat DEF RoomOK
    <3>2. \A m \in SeatIds : old.seats[m] # rooms[j].seats[i]
      BY <1>3, <2>1, <2>3, <1>7, OwnSeat DEF IInv
    <3>3. \A m \in SeatIds : r.seats[m] # rooms[j].seats[i]
      BY <3>1, <3>2, <1>6
    <3>. QED  BY <3>1, <3>3, <1>3 DEF Members
  <2>4. \A i \in SeatIds : rooms[j].seats[i] # Nobody =>
          /\ rooms[j].seats[i] \in connected' /\ room'[rooms[j].seats[i]] = room[rooms[j].seats[i]]
          /\ seat'[rooms[j].seats[i]] = seat[rooms[j].seats[i]]
          /\ told'[rooms[j].seats[i]] = told[rooms[j].seats[i]]
          /\ toldCfg'[rooms[j].seats[i]] = toldCfg[rooms[j].seats[i]]
    BY <1>1, <1>8, <1>11, <2>3
  <2>5. RoomOK(j, rooms[j], connected', room', seat', told', toldCfg')
    BY <1>3, <2>2, <2>4, Kept
  <2>. QED  BY <2>1, <2>5
<1>15. RoomsOK(rooms', connected', room', seat', told', toldCfg')
  BY <1>1, <1>13, <1>14, OneRoom
<1>16. ASSUME NEW d \in connected, room'[d] \in DOMAIN rooms'
       PROVE  rooms'[room'[d]].seats[seat'[d]] = d
  <2>0. rooms'[k] = r
    BY <1>1 DEF With
  <2>1. CASE d = c
    BY <2>0, <2>1, <1>4, <1>6, <1>12
  <2>2. CASE d # c
    <3>1. room'[d] = room[d] /\ seat'[d] = seat[d]
      BY <2>2, <1>3, <1>11
    <3>2. room[d] \in DOMAIN S
      BY <3>1, <1>16, <1>1 DEF With
    <3>3. rooms[room[d]].seats[seat[d]] = d /\ seat[d] \in SeatIds
      BY <3>2, <1>2, <1>7, RoomsAssumption DEF IInv, Shape, AllSeated, Seated
    <3>4. CASE room[d] = k
      <4>1. seat[d] # n
        BY <3>3, <3>4, <1>3, <1>4
      <4>. QED  BY <2>0, <3>1, <3>3, <3>4, <4>1, <1>6
    <3>5. CASE room[d] # k
      <4>1. rooms'[room[d]] = S[room[d]]
        BY <3>2, <3>5, <1>1 DEF With
      <4>. QED  BY <4>1, <3>1, <3>2, <3>3, <1>2
    <3>. QED  BY <3>4, <3>5
  <2>. QED  BY <2>1, <2>2
<1>. QED  BY <1>1, <1>10, <1>15, <1>16 DEF IInv, AllSeated, Seated

(* The room without the client of seat i. *)
Emptied(t, i) == [t EXCEPT !.seats[i] = Nobody, !.ready = @ \ {i}]

LEMMA EmptySeat ==
  ASSUME NEW t \in RoomType, NEW i \in SeatIds
  PROVE  /\ Emptied(t, i) \in RoomType /\ Emptied(t, i).cfg = t.cfg
         /\ \A n \in SeatIds :
              Emptied(t, i).seats[n] = IF n = i THEN Nobody ELSE t.seats[n]
<1>. DEFINE ss == [t.seats EXCEPT ![i] = Nobody]
            p == [t EXCEPT !.seats = ss]
            rr == t.ready \ {i}
            r == Emptied(t, i)
<1>1. ss \in Rosters /\ \A n \in SeatIds : ss[n] = IF n = i THEN Nobody ELSE t.seats[n]
  BY DEF RoomType, Rosters
<1>2. rr \in SUBSET SeatIds
  BY DEF RoomType
<1>. HIDE DEF ss
<1>3. p \in RoomType /\ p.seats = ss /\ p.ready = t.ready /\ p.cfg = t.cfg
  BY <1>1 DEF RoomType
<1>4. r = [p EXCEPT !.ready = rr]
  BY DEF ss, RoomType, Emptied
<1>. HIDE DEF p, rr, r
<1>5. r \in RoomType /\ r.seats = ss /\ r.cfg = t.cfg
  BY <1>2, <1>3, <1>4 DEF RoomType
<1>. QED  BY <1>1, <1>5 DEF r

(* A guest's seat is freed and those still in the room are told: what then  *)
(* holds of the rooms, and of the clients but d.                            *)
FreedOK(k, i, d, r, conn, rm) ==
  /\ RoomOK(k, r, conn, rm, seat, TellRoster(r), toldCfg)
  /\ \A j \in DOMAIN rooms \ {k} :
       RoomOK(j, rooms[j], conn, rm, seat, TellRoster(r), toldCfg)
  /\ \A e \in connected \ {d} :
       /\ room[e] = k => r.seats[seat[e]] = e
       /\ room[e] \in DOMAIN rooms => rooms[room[e]].seats[seat[e]] = e

LEMMA Freed ==
  ASSUME IInv, NEW k \in DOMAIN rooms, NEW i \in SeatIds \ {0}, NEW d,
         d = rooms[k].seats[i], d # Nobody,
         NEW r \in RoomType, r.cfg = rooms[k].cfg,
         \A n \in SeatIds : r.seats[n] = IF n = i THEN Nobody ELSE rooms[k].seats[n],
         NEW conn, NEW rm,
         \A e \in connected \ {d} : e \in conn /\ rm[e] = room[e]
  PROVE  FreedOK(k, i, d, r, conn, rm)
<1>. DEFINE T == TellRoster(r)
            old == rooms[k]
<1>1. /\ Nobody \notin connected /\ connected \subseteq Clients
      /\ \A e \in Clients : T[e] = IF e \in Members(r) THEN Roster(r) ELSE told[e]
  BY RoomsAssumption, TellRosterFacts DEF IInv, Shape
<1>. HIDE DEF T
<1>2. RoomOK(k, old, connected, room, seat, told, toldCfg)
  BY DEF IInv, RoomsOK
<1>3. ASSUME NEW n \in SeatIds, n # i, old.seats[n] # Nobody
      PROVE  old.seats[n] \in connected \ {d}
  BY <1>2, <1>3 DEF RoomOK
<1>4. RoomOK(k, r, conn, rm, seat, T, toldCfg)
  <2>1. ASSUME NEW n \in SeatIds, r.seats[n] # Nobody
        PROVE  /\ r.seats[n] \in conn /\ rm[r.seats[n]] = k /\ seat[r.seats[n]] = n
               /\ T[r.seats[n]] = Roster(r)
               /\ r.cfg # NoCfg => toldCfg[r.seats[n]] = r.cfg
    <3>1. n # i /\ r.seats[n] = old.seats[n] /\ r.seats[n] \in Members(r)
      BY <2>1 DEF Members
    <3>2. r.seats[n] \in connected \ {d}
      BY <3>1, <2>1, <1>3
    <3>. QED  BY <3>1, <3>2, <2>1, <1>1, <1>2 DEF RoomOK
  <2>2. r.seats[0] \in conn
    <3>1. r.seats[0] = old.seats[0] /\ old.seats[0] \in connected
      BY <1>2, SeatIdsFacts DEF RoomOK
    <3>. QED  BY <3>1, <1>1, <1>3, SeatIdsFacts
  <2>. QED  BY <2>1, <2>2 DEF RoomOK
<1>5. ASSUME NEW j \in DOMAIN rooms \ {k}
      PROVE  RoomOK(j, rooms[j], conn, rm, seat, T, toldCfg)
  <2>1. RoomOK(j, rooms[j], connected, room, seat, told, toldCfg)
    BY DEF IInv, RoomsOK
  <2>2. ASSUME NEW n \in SeatIds, rooms[j].seats[n] # Nobody
        PROVE  rooms[j].seats[n] \in connected \ {d} /\ rooms[j].seats[n] \notin Members(r)
    <3>1. rooms[j].seats[n] \in connected
      BY <2>1, <2>2 DEF RoomOK
    <3>2. \A m \in SeatIds : old.seats[m] # rooms[j].seats[n]
      BY <2>2, OwnSeat DEF IInv
    <3>. QED  BY <3>1, <3>2, <2>2 DEF Members
  <2>3. \A n \in SeatIds : rooms[j].seats[n] # Nobody =>
          /\ rooms[j].seats[n] \in conn /\ rm[rooms[j].seats[n]] = room[rooms[j].seats[n]]
          /\ seat[rooms[j].seats[n]] = seat[rooms[j].seats[n]]
          /\ T[rooms[j].seats[n]] = told[rooms[j].seats[n]]
          /\ toldCfg[rooms[j].seats[n]] = toldCfg[rooms[j].seats[n]]
    BY <2>2, <1>1
  <2>. QED  BY <2>1, <2>3, <1>1, Kept
<1>6. ASSUME NEW e \in connected \ {d}, room[e] \in DOMAIN rooms
      PROVE  /\ rooms[room[e]].seats[seat[e]] = e
             /\ room[e] = k => r.seats[seat[e]] = e
  <2>1. rooms[room[e]].seats[seat[e]] = e
    BY <1>6 DEF IInv, AllSeated, Seated
  <2>2. seat[e] \in SeatIds
    BY <1>1, <1>6, RoomsAssumption DEF IInv, Shape
  <2>3. room[e] = k => seat[e] # i
    BY <2>1
  <2>. QED  BY <2>1, <2>2, <2>3
<1>. QED  BY <1>4, <1>5, <1>6 DEF T, FreedOK

LEMMA KickInv ==
  ASSUME IInv, NEW c \in connected, NEW i \in SeatIds, Kick(c, i)
  PROVE  IInv'
<1>. DEFINE t == Touched(c)
            k == room[c]
            r == [t EXCEPT !.seats[i] = Nobody, !.ready = @ \ {i}]
            d == t.seats[i]
            S == Swept(rooms)
<1>1. /\ Found(c) /\ i # 0 /\ d # Nobody /\ rooms' = With(S, k, r)
      /\ room' = [room EXCEPT ![d] = NoRoom] /\ told' = TellRoster(r)
      /\ drawn' = drawn /\ connected' = connected /\ seat' = seat /\ toldCfg' = toldCfg
  BY DEF Kick, IsHost, Becomes
<1>2. /\ t \in RoomType /\ t.seats = rooms[k].seats /\ t.cfg = rooms[k].cfg
      /\ k \in DOMAIN rooms /\ d = rooms[k].seats[i]
  BY <1>1, FoundFacts
<1>. HIDE DEF t
<1>3. /\ r \in RoomType /\ r.cfg = rooms[k].cfg
      /\ \A n \in SeatIds : r.seats[n] = IF n = i THEN Nobody ELSE rooms[k].seats[n]
  <2>1. r = Emptied(t, i)
    BY DEF Emptied
  <2>. HIDE DEF r
  <2>. QED  BY <1>2, <2>1, EmptySeat
<1>. HIDE DEF r, d
<1>4. d \in Clients
  BY <1>1, <1>2 DEF RoomType, Rosters
<1>5. /\ DOMAIN S \subseteq DOMAIN rooms
      /\ \A j \in DOMAIN S : S[j] = rooms[j]
  BY SweptFacts
<1>6. /\ \A e \in Clients \ {d} : room'[e] = room[e]
      /\ room'[d] = NoRoom /\ connected \subseteq Clients
  BY <1>1, <1>4 DEF IInv, Shape
<1>7. /\ RoomOK(k, r, connected', room', seat', told', toldCfg')
      /\ \A j \in DOMAIN rooms \ {k} :
           RoomOK(j, rooms[j], connected', room', seat', told', toldCfg')
      /\ \A e \in connected \ {d} :
           /\ room[e] = k => r.seats[seat[e]] = e
           /\ room[e] \in DOMAIN rooms => rooms[room[e]].seats[seat[e]] = e
  <2>1. \A e \in connected \ {d} : e \in connected' /\ room'[e] = room[e]
    BY <1>1, <1>6
  <2>2. i \in SeatIds \ {0}
    BY <1>1
  <2>. HIDE DEF k
  <2>3. FreedOK(k, i, d, r, connected', room')
    BY <1>1, <1>2, <1>3, <2>1, <2>2, Freed
  <2>. QED  BY <1>1, <2>3 DEF FreedOK
<1>8. RoomsOK(rooms', connected', room', seat', told', toldCfg')
  <2>1. \A j \in DOMAIN S \ {k} :
          RoomOK(j, S[j], connected', room', seat', told', toldCfg')
    BY <1>5, <1>7
  <2>. QED  BY <2>1, <1>1, <1>7, OneRoom
<1>9. /\ DOMAIN rooms' = DOMAIN S \cup {k} /\ rooms'[k] = r
      /\ \A j \in DOMAIN S \ {k} : rooms'[j] = S[j]
  <2>. HIDE DEF S, k
  <2>. QED  BY <1>1 DEF With
<1>10. Shape'
  <2>1. told' \in [Clients -> RosterType \cup {NoRoster}]
    BY <1>1, <1>3, TellRosterFacts DEF IInv
  <2>2. room' \in [Clients -> Codes \cup {NoRoom}]
    BY <1>1 DEF IInv, Shape
  <2>3. DOMAIN rooms' \subseteq DOMAIN rooms
    BY <1>2, <1>5, <1>9
  <2>. QED  BY <1>1, <1>6, <2>1, <2>2, <2>3 DEF IInv, Shape
<1>11. ASSUME NEW e \in connected, room'[e] \in DOMAIN rooms'
       PROVE  rooms'[room'[e]].seats[seat'[e]] = e
  <2>1. e # d
    BY <1>2, <1>5, <1>6, <1>9, <1>11, RoomsAssumption DEF IInv, Shape
  <2>2. room'[e] = room[e] /\ seat'[e] = seat[e] /\ e \in connected \ {d}
    BY <1>1, <1>6, <2>1
  <2>3. CASE room[e] = k
    BY <2>2, <2>3, <1>7, <1>9
  <2>4. CASE room[e] # k
    <3>1. room[e] \in DOMAIN S \ {k}
      BY <2>2, <2>4, <1>9, <1>11
    <3>2. rooms'[room[e]] = rooms[room[e]] /\ room[e] \in DOMAIN rooms
      BY <3>1, <1>5, <1>9
    <3>. QED  BY <3>2, <2>2, <1>7
  <2>. QED  BY <2>3, <2>4
<1>. QED  BY <1>1, <1>8, <1>10, <1>11 DEF IInv, AllSeated, Seated

LEMMA DisconnectInv ==
  ASSUME IInv, NEW c \in connected, Disconnect(c)
  PROVE  IInv'
<1>. DEFINE k == room[c]
            left == connected \ {c}
<1>1. /\ connected' = left /\ drawn' = drawn /\ room' = room /\ seat' = seat
      /\ toldCfg' = toldCfg
  BY DEF Disconnect
<1>2. c \in Clients /\ c # Nobody /\ Nobody \notin connected
  BY RoomsAssumption DEF IInv, Shape
<1>3. ASSUME NEW j \in DOMAIN rooms, \A i \in SeatIds : rooms[j].seats[i] # c
      PROVE  RoomOK(j, rooms[j], left, room, seat, told, toldCfg)
  <2>1. RoomOK(j, rooms[j], connected, room, seat, told, toldCfg)
    BY DEF IInv, RoomsOK
  <2>. QED  BY <2>1, <1>2, <1>3, SeatIdsFacts DEF RoomOK
<1>4. CASE k \notin DOMAIN rooms
  <2>1. rooms' = rooms /\ told' = told
    BY <1>4 DEF Disconnect
  <2>2. RoomsOK(rooms, left, room, seat, told, toldCfg)
    BY <1>3, <1>4, InNoSeat DEF RoomsOK
  <2>3. Shape' /\ AllSeated'
    BY <1>1, <2>1 DEF IInv, Shape, AllSeated, Seated
  <2>. QED  BY <1>1, <2>1, <2>2, <2>3 DEF IInv
<1>5. ASSUME k \in DOMAIN rooms
      PROVE  /\ k \in drawn /\ seat[c] \in SeatIds /\ rooms[k].seats[seat[c]] = c
             /\ rooms[k] \in RoomType
             /\ \A j \in DOMAIN rooms \ {k} : \A i \in SeatIds : rooms[j].seats[i] # c
  <2>1. k \in drawn /\ seat[c] \in SeatIds
    BY <1>2, <1>5, RoomsAssumption DEF IInv, Shape
  <2>2. rooms[k].seats[seat[c]] = c
    BY <1>5 DEF IInv, AllSeated, Seated
  <2>3. rooms[k] \in RoomType
    BY <1>5 DEF IInv, RoomsOK, RoomOK
  <2>4. \A j \in DOMAIN rooms \ {k} : \A i \in SeatIds : rooms[j].seats[i] # c
    BY <1>2, <1>5, <2>1, <2>2, OwnSeat DEF IInv
  <2>. QED  BY <2>1, <2>2, <2>3, <2>4
<1>6. CASE k \in DOMAIN rooms /\ seat[c] = 0
  <2>1. rooms' = Without(rooms, k) /\ told' = told
    BY <1>6 DEF Disconnect
  <2>2. DOMAIN rooms' = DOMAIN rooms \ {k} /\ \A j \in DOMAIN rooms' : rooms'[j] = rooms[j]
    BY <2>1 DEF Without
  <2>3. RoomsOK(rooms', left, room, seat, told, toldCfg)
    BY <1>3, <1>5, <1>6, <2>2 DEF RoomsOK
  <2>4. Shape' /\ AllSeated'
    BY <1>1, <2>1, <2>2 DEF IInv, Shape, AllSeated, Seated
  <2>. QED  BY <1>1, <2>1, <2>3, <2>4 DEF IInv
<1>7. CASE k \in DOMAIN rooms /\ seat[c] # 0
  <2>. DEFINE r == Emptied(rooms[k], seat[c])
  <2>1. rooms' = With(rooms, k, r) /\ told' = TellRoster(r)
    BY <1>7 DEF Disconnect, Emptied
  <2>2. /\ r \in RoomType /\ r.cfg = rooms[k].cfg
        /\ \A n \in SeatIds : r.seats[n] = IF n = seat[c] THEN Nobody ELSE rooms[k].seats[n]
    BY <1>5, <1>7, EmptySeat
  <2>. HIDE DEF r
  <2>3. FreedOK(k, seat[c], c, r, left, room)
    <3>1. \A e \in connected \ {c} : e \in left /\ room[e] = room[e]
      OBVIOUS
    <3>2. seat[c] \in SeatIds \ {0} /\ k \in DOMAIN rooms /\ c = rooms[k].seats[seat[c]]
      BY <1>5, <1>7
    <3>. HIDE DEF k, left
    <3>. QED  BY <1>2, <2>2, <3>1, <3>2, Freed
  <2>4. RoomsOK(rooms', left, room, seat, told', toldCfg)
    BY <2>1, <2>3, OneRoom DEF FreedOK
  <2>5. /\ DOMAIN rooms' = DOMAIN rooms /\ rooms'[k] = r
        /\ \A j \in DOMAIN rooms \ {k} : rooms'[j] = rooms[j]
    BY <1>7, <2>1 DEF With
  <2>6. told' \in [Clients -> RosterType \cup {NoRoster}]
    BY <2>1, <2>2, TellRosterFacts DEF IInv
  <2>7. Shape'
    BY <1>1, <2>5, <2>6 DEF IInv, Shape
  <2>8. ASSUME NEW e \in left, room[e] \in DOMAIN rooms'
        PROVE  rooms'[room[e]].seats[seat[e]] = e
    <3>1. CASE room[e] = k
      BY <2>3, <2>5, <3>1 DEF FreedOK
    <3>2. CASE room[e] # k
      BY <2>3, <2>5, <2>8, <3>2 DEF FreedOK
    <3>. QED  BY <3>1, <3>2
  <2>. QED  BY <1>1, <2>4, <2>7, <2>8 DEF IInv, AllSeated, Seated
<1>. QED  BY <1>4, <1>6, <1>7

-------------------------------------------------------------------------------
LEMMA InitInv == Init => IInv
<1>. SUFFICES ASSUME Init PROVE IInv
  OBVIOUS
<1>1. DOMAIN rooms = {}
  BY DEF Init
<1>2. Shape
  BY <1>1 DEF Init, Shape
<1>. QED  BY <1>1, <1>2 DEF IInv, RoomsOK, AllSeated

LEMMA StepInv ==
  ASSUME Rejoin = FALSE, IInv, [Next]_vars
  PROVE  IInv'
<1>1. CASE Sweep
  BY <1>1, SweepInv
<1>2. CASE \E k \in DOMAIN rooms : Idle(k)
  BY <1>2, IdleInv
<1>3. ASSUME NEW c \in connected, Enter(c)
      PROVE  IInv'
  <2>1. room[c] \notin DOMAIN rooms
    BY <1>3 DEF Enter, IInv, AllSeated
  <2>. QED  BY <1>3, <2>1, CreateInv, JoinInv DEF Enter
<1>4. ASSUME NEW c \in connected, Message(c)
      PROVE  IInv'
  BY <1>3, <1>4, TouchInv, CloseInv, CfgInv, StartInv, ReadyInv, KickInv DEF Message
<1>5. CASE UNCHANGED vars
  <2>1. Shape'
    BY <1>5 DEF vars, IInv, Shape
  <2>2. RoomsOK(rooms', connected', room', seat', told', toldCfg')
    BY <1>5 DEF vars, IInv
  <2>3. AllSeated'
    BY <1>5 DEF vars, IInv, AllSeated, Seated
  <2>. QED  BY <2>1, <2>2, <2>3 DEF IInv
<1>. QED  BY <1>1, <1>2, <1>4, <1>5, DisconnectInv DEF Next

(* The rooms, and what clients remember and were told of them, agree after  *)
(* any messages of clients that enter rooms only without a seat.            *)
THEOREM Invariant ==
  ASSUME Rejoin = FALSE
  PROVE  Spec => []IInv
<1>1. IInv /\ [Next]_vars => IInv'
  BY StepInv
<1>. QED  BY <1>1, InitInv, PTL DEF Spec

(* Rooms, seats and what clients remember keep their types. *)
THEOREM TypeCorrect ==
  ASSUME Rejoin = FALSE
  PROVE  Spec => []TypeOK
<1>1. IInv => TypeOK
  BY DEF IInv, Shape, RoomsOK, RoomOK, TypeOK
<1>. QED  BY <1>1, Invariant, PTL

(* onDisconnect() and kick clear every seat they should: no ghost holds a   *)
(* seat and no client acts for a seat it has lost, in any number of rooms.  *)
THEOREM NoGhostHolds ==
  ASSUME Rejoin = FALSE
  PROVE  Spec => []NoGhost
<1>1. IInv => NoGhost
  BY DEF IInv, RoomsOK, RoomOK, AllSeated, NoGhost
<1>. QED  BY <1>1, Invariant, PTL

(* A room never outlives its host's connection, so somebody can start it. *)
THEOREM HostPresentHolds ==
  ASSUME Rejoin = FALSE
  PROVE  Spec => []HostPresent
<1>1. IInv => HostPresent
  BY DEF IInv, RoomsOK, RoomOK, HostPresent
<1>. QED  BY <1>1, Invariant, PTL

(* Everyone in a room was last told the roster and the config it now has,   *)
(* whoever joined, left, was kicked or got ready since.                     *)
THEOREM ToldHolds ==
  ASSUME Rejoin = FALSE
  PROVE  Spec => []Told
<1>1. IInv => Told
  BY DEF IInv, RoomsOK, RoomOK, Members, Told, RosterTold, CfgTold
<1>. QED  BY <1>1, Invariant, PTL
===============================================================================
