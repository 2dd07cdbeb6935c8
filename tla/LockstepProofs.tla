---------------------------- MODULE LockstepProofs ----------------------------
(* Proofs about Lockstep, for every number of peers, delay, ring size,      *)
(* redundancy and set of pads.                                              *)
EXTENDS Lockstep, FiniteSetTheorems, TLAPS

-------------------------------------------------------------------------------
(* The ring operators.                                                      *)

RingType == {r \in [0 .. Ring - 1 -> Slots] : \A i \in 0 .. Ring - 1 : r[i].tick % Ring = i}

(* Every pad present in ring r is that of a block of S. *)
RingFrom(r, S) ==
  \A i \in 0 .. Ring - 1, s \in Seats :
    r[i].pads[s] # NoPad => Block(s, r[i].tick, r[i].pads[s]) \in S

(* Every tick has a slot of the ring. *)
LEMMA IndexInRing == \A t \in Nat : t % Ring \in 0 .. Ring - 1
BY LockstepAssumption

(* A tick below Ring is its own index. *)
LEMMA OwnIndex == \A i \in 0 .. Ring - 1 : i % Ring = i
<1>. SUFFICES ASSUME NEW i \in 0 .. Ring - 1 PROVE i % Ring = i
  OBVIOUS
<1>1. Ring \in Nat \ {0}
  BY LockstepAssumption
<1>. QED  BY <1>1

(* slot() returns a slot of the tick asked for, which holds that tick's     *)
(* pads or none.                                                            *)
LEMMA SlotForTick ==
  ASSUME NEW r \in RingType, NEW t \in Nat
  PROVE  /\ SlotFor(r, t) \in Slots
         /\ SlotFor(r, t).tick = t
         /\ \A s \in Seats : SlotFor(r, t).pads[s] # NoPad =>
              r[t % Ring].tick = t /\ SlotFor(r, t).pads[s] = r[t % Ring].pads[s]
<1>1. r[t % Ring] \in Slots
  BY IndexInRing DEF RingType
<1>2. [tick |-> t, pads |-> EmptyPads] \in Slots
  BY DEF Slots, EmptyPads
<1>. QED  BY <1>1, <1>2 DEF SlotFor, EmptyPads

(* Storing a sent block keeps the ring well formed and sent. *)
LEMMA FillKeeps ==
  ASSUME NEW r \in RingType, NEW S, RingFrom(r, S),
         NEW t \in Nat, NEW s \in Seats, NEW pad \in Pads, Block(s, t, pad) \in S
  PROVE  LET f == Filled(SlotFor(r, t), s, pad)
         IN  /\ f \in Slots
             /\ f.tick = t
             /\ \A u \in Seats : f.pads[u] # NoPad => Block(u, t, f.pads[u]) \in S
<1>. DEFINE slot == SlotFor(r, t)
<1>1. slot \in Slots /\ slot.tick = t
  BY SlotForTick
<1>2. \A u \in Seats : slot.pads[u] # NoPad => Block(u, t, slot.pads[u]) \in S
  BY SlotForTick, IndexInRing DEF RingFrom
<1>3. CASE slot.pads[s] # NoPad
  BY <1>1, <1>2, <1>3 DEF Filled
<1>4. CASE slot.pads[s] = NoPad
  <2>. DEFINE f == [slot EXCEPT !.pads[s] = pad]
  <2>1. f \in Slots /\ f.tick = t
    BY <1>1 DEF Slots
  <2>2. \A u \in Seats : f.pads[u] = IF u = s THEN pad ELSE slot.pads[u]
    BY <1>1 DEF Slots
  <2>3. \A u \in Seats : f.pads[u] # NoPad => Block(u, t, f.pads[u]) \in S
    BY <2>2, <1>2
  <2>. QED  BY <2>1, <2>3, <1>4 DEF Filled
<1>. QED  BY <1>3, <1>4

(* submit() keeps the ring well formed and sent. *)
LEMMA SubmitKeeps ==
  ASSUME NEW p \in Seats, NEW r \in RingType, NEW S, RingFrom(r, S),
         NEW t \in Nat, NEW s \in Seats, NEW pad \in Pads, Block(s, t, pad) \in S
  PROVE  Submit(p, r, t, s, pad) \in RingType /\ RingFrom(Submit(p, r, t, s, pad), S)
<1>. DEFINE f == Filled(SlotFor(r, t), s, pad)
            q == [r EXCEPT ![t % Ring] = f]
<1>1. /\ f \in Slots /\ f.tick = t
      /\ \A u \in Seats : f.pads[u] # NoPad => Block(u, t, f.pads[u]) \in S
  BY FillKeeps
<1>2. t % Ring \in 0 .. Ring - 1
  BY IndexInRing
<1>. HIDE DEF f
<1>3. \A i \in 0 .. Ring - 1 : q[i] = IF i = t % Ring THEN f ELSE r[i]
  BY <1>2 DEF RingType
<1>4. q \in RingType
  <2>1. q \in [0 .. Ring - 1 -> Slots]
    BY <1>1 DEF RingType
  <2>2. \A i \in 0 .. Ring - 1 : q[i].tick % Ring = i
    BY <1>1, <1>3 DEF RingType
  <2>. QED  BY <2>1, <2>2 DEF RingType
<1>5. RingFrom(q, S)
  BY <1>1, <1>3 DEF RingFrom
<1>. QED  BY <1>4, <1>5 DEF Submit, f

(* ingest() of sent blocks keeps the ring well formed and sent. *)
LEMMA IngestKeeps ==
  ASSUME TypeOK, RingInv, NEW p \in Seats, NEW d \in net
  PROVE  Ingested(p, d) \in RingType /\ RingFrom(Ingested(p, d), Sent)
<1>1. ring[p] \in RingType /\ RingFrom(ring[p], Sent)
  BY DEF TypeOK, RingType, RingInv, RingFrom
<1>2. d \subseteq Sent /\ d \subseteq Blocks
  BY DEF Sent, TypeOK
<1>. DEFINE here(i) == {b \in d : b.seat # p /\ InWindow(p, b.tick) /\ b.tick % Ring = i}
            c(i) == CHOOSE b \in here(i) : TRUE
<1>3. ASSUME NEW i \in 0 .. Ring - 1, here(i) # {}
      PROVE  /\ c(i) \in d /\ c(i).tick % Ring = i
             /\ c(i).seat \in Seats /\ c(i).tick \in Nat /\ c(i).pad \in Pads
             /\ Block(c(i).seat, c(i).tick, c(i).pad) \in Sent
  <2>1. c(i) \in here(i)
    BY <1>3
  <2>3. c(i) \in Blocks
    BY <2>1, <1>2
  <2>. HIDE DEF c
  <2>4. c(i) = Block(c(i).seat, c(i).tick, c(i).pad)
    BY <2>3 DEF Blocks, Block
  <2>. QED  BY <2>1, <2>3, <2>4, <1>2 DEF Blocks
<1>4. ASSUME NEW i \in 0 .. Ring - 1
      PROVE  /\ Ingested(p, d)[i] \in Slots
             /\ Ingested(p, d)[i].tick % Ring = i
             /\ \A s \in Seats : Ingested(p, d)[i].pads[s] # NoPad =>
                  Block(s, Ingested(p, d)[i].tick, Ingested(p, d)[i].pads[s]) \in Sent
  <2>1. CASE here(i) = {}
    <3>1. Ingested(p, d)[i] = ring[p][i]
      BY <2>1 DEF Ingested
    <3>. QED  BY <3>1, <1>1 DEF RingType, RingFrom
  <2>2. CASE here(i) # {}
    <3>1. Ingested(p, d)[i] = Filled(SlotFor(ring[p], c(i).tick), c(i).seat, c(i).pad)
      BY <2>2 DEF Ingested
    <3>2. /\ c(i).tick % Ring = i
          /\ c(i).seat \in Seats /\ c(i).tick \in Nat /\ c(i).pad \in Pads
          /\ Block(c(i).seat, c(i).tick, c(i).pad) \in Sent
      BY <2>2, <1>3
    <3>. HIDE DEF c
    <3>. QED  BY <3>1, <3>2, <1>1, FillKeeps
  <2>. QED  BY <2>1, <2>2
<1>5. DOMAIN Ingested(p, d) = 0 .. Ring - 1 /\ Ingested(p, d) = [i \in 0 .. Ring - 1 |-> Ingested(p, d)[i]]
  BY DEF Ingested
<1>. HIDE DEF here, c
<1>6. Ingested(p, d) \in RingType
  BY <1>4, <1>5 DEF RingType
<1>. QED  BY <1>4, <1>6 DEF RingFrom

-------------------------------------------------------------------------------
(* What the commit at the head of every slice does.                         *)

(* unshift() and truncation: the new block first, then the old ones. *)
LEMMA PushedHistory ==
  ASSUME NEW h \in Seq(Blocks), Len(h) <= Redundancy, NEW b \in Blocks
  PROVE  /\ Pushed(h, b) \in Seq(Blocks)
         /\ Len(Pushed(h, b)) = Least(Len(h) + 1, Redundancy)
         /\ Pushed(h, b)[1] = b
         /\ \A k \in 2 .. Len(Pushed(h, b)) : Pushed(h, b)[k] = h[k - 1] /\ k - 1 \in 1 .. Len(h)
<1>. DEFINE n == Least(Len(h) + 1, Redundancy)
<1>1. n \in Nat \ {0} /\ n <= Len(h) + 1
  BY LockstepAssumption DEF Least
<1>2. Pushed(h, b) = [k \in 1 .. n |-> IF k = 1 THEN b ELSE h[k - 1]]
  BY DEF Pushed
<1>. HIDE DEF n
<1>3. \A k \in 1 .. n : (IF k = 1 THEN b ELSE h[k - 1]) \in Blocks
  BY <1>1
<1>4. Pushed(h, b) \in Seq(Blocks) /\ Len(Pushed(h, b)) = n
  BY <1>1, <1>2, <1>3
<1>5. \A k \in 1 .. n : Pushed(h, b)[k] = IF k = 1 THEN b ELSE h[k - 1]
  BY <1>2
<1>6. \A k \in 2 .. n : Pushed(h, b)[k] = h[k - 1] /\ k - 1 \in 1 .. Len(h)
  BY <1>1, <1>5
<1>. QED  BY <1>1, <1>4, <1>5, <1>6 DEF n

USE DEF Top

(* A session is at most one commit past its delay. *)
LEMMA TopTypes ==
  ASSUME IInv, NEW p \in Seats
  PROVE  /\ next[p] \in Nat /\ Delay \in Nat \ {0} /\ Redundancy \in Nat \ {0}
         /\ Top(p) = next[p] + Delay \/ Top(p) = next[p] + Delay + 1
         /\ next[p] + Delay \in committed[p] => Top(p) = next[p] + Delay + 1
         /\ next[p] + Delay \notin committed[p] => Top(p) = next[p] + Delay
BY LockstepAssumption DEF IInv, TypeOK, TopOf

(* Either the tick was committed before and nothing new is sent, or its     *)
(* block is new, goes to the front of the history and is sent.              *)
LEMMA CommitCases ==
  ASSUME IInv, NEW p \in started, NEW pad \in Pads, CommitLocal(p, pad)
  PROVE  LET t == next[p] + Delay
             b == Block(p, t, pad)
         IN  /\ t \in Nat /\ b \in Blocks
             /\ committed' = [committed EXCEPT ![p] = 0 .. t]
             /\ \/ t \in committed[p] /\ Sent' = Sent /\ history' = history
                \/ /\ t \notin committed[p] /\ Sent' = Sent \cup {b}
                   /\ history' = [history EXCEPT ![p] = Pushed(@, b)]
<1>. DEFINE t == next[p] + Delay
            b == Block(p, t, pad)
<1>1. p \in Seats /\ t \in Nat /\ b \in Blocks
  BY LockstepAssumption DEF IInv, TypeOK, Block, Blocks
<1>2. /\ history[p] \in Seq(Blocks)
      /\ Len(history[p]) <= Redundancy
      /\ BlocksOf(history[p]) \subseteq Sent
  <2>1. \A k \in 1 .. Len(history[p]) : history[p][k] \in Sent
    BY DEF IInv, HistoryInv
  <2>2. history[p] \in Seq(Blocks)
    BY <1>1 DEF IInv, TypeOK
  <2>3. Len(history[p]) <= Redundancy
    BY <1>1, TopTypes DEF IInv, HistoryInv, Least
  <2>. QED  BY <2>1, <2>2, <2>3 DEF BlocksOf
<1>3. committed[p] \cup {t} = 0 .. t
  <2>1. committed[p] = 0 .. Top(p) - 1
    BY <1>1 DEF IInv, CommittedInv
  <2>. HIDE DEF t
  <2>2. CASE Top(p) = t
    <3>1. \A x : x \in 0 .. t <=> x \in 0 .. t - 1 \/ x = t
      BY <1>1
    <3>2. committed[p] = 0 .. t - 1
      BY <2>1, <2>2
    <3>. QED  BY <3>1, <3>2
  <2>3. CASE Top(p) = t + 1
    <3>1. committed[p] = 0 .. t
      BY <2>1, <2>3, <1>1
    <3>. QED  BY <3>1, <1>1
  <2>4. Top(p) = t \/ Top(p) = t + 1
    BY <1>1, TopTypes DEF t
  <2>. QED  BY <2>2, <2>3, <2>4
<1>4. committed' = [committed EXCEPT ![p] = 0 .. t]
  BY <1>3 DEF CommitLocal
<1>5. CASE t \in committed[p]
  <2>1. history' = [history EXCEPT ![p] = history[p]] /\ net' = net \cup {BlocksOf(history[p])}
    BY <1>5 DEF CommitLocal
  <2>2. history' = history
    BY <2>1, <1>1 DEF IInv, TypeOK
  <2>3. Sent' = Sent
    BY <2>1, <1>2 DEF Sent
  <2>. QED  BY <2>2, <2>3, <1>1, <1>4, <1>5
<1>6. CASE t \notin committed[p]
  <2>. DEFINE h == Pushed(history[p], b)
  <2>1. history' = [history EXCEPT ![p] = h] /\ net' = net \cup {BlocksOf(h)}
    BY <1>6 DEF CommitLocal
  <2>2. /\ Len(h) \in Nat \ {0} /\ DOMAIN h = 1 .. Len(h) /\ h[1] = b
        /\ \A k \in 2 .. Len(h) : h[k] = history[p][k - 1] /\ k - 1 \in 1 .. Len(history[p])
    <3>1. h \in Seq(Blocks) /\ Len(h) = Least(Len(history[p]) + 1, Redundancy)
      BY <1>1, <1>2, PushedHistory
    <3>2. Len(h) \in Nat \ {0} /\ DOMAIN h = 1 .. Len(h)
      BY <3>1, <1>1, <1>2, TopTypes DEF Least
    <3>. QED  BY <1>1, <1>2, <3>2, PushedHistory
  <2>. HIDE DEF h, b, t
  <2>3. b \in BlocksOf(h)
    BY <2>2 DEF BlocksOf
  <2>4. BlocksOf(h) \subseteq Sent \cup {b}
    <3>1. SUFFICES ASSUME NEW k \in 1 .. Len(h) PROVE h[k] \in Sent \cup {b}
      BY <2>2 DEF BlocksOf
    <3>2. k = 1 \/ k \in 2 .. Len(h)
      BY <2>2
    <3>3. \A j \in 1 .. Len(history[p]) : history[p][j] \in Sent
      BY DEF IInv, HistoryInv
    <3>. QED  BY <3>2, <3>3, <2>2
  <2>5. Sent' = Sent \cup {b}
    BY <2>1, <2>3, <2>4 DEF Sent
  <2>6. history' = [history EXCEPT ![p] = Pushed(@, b)]
    BY <2>1 DEF h
  <2>. QED  BY <2>5, <2>6, <1>1, <1>4, <1>6 DEF t, b
<1>. QED  BY <1>5, <1>6

(* After the commit the own seat is committed through next + Delay, the     *)
(* history ends there, and no tick has been sent with two pads.             *)
LEMMA CommitKeeps ==
  ASSUME IInv, NEW p \in started, NEW pad \in Pads, CommitLocal(p, pad)
  PROVE  LET t == next[p] + Delay
         IN  /\ committed' \in [Seats -> SUBSET Nat]
             /\ committed' = [committed EXCEPT ![p] = 0 .. t]
             /\ history' \in [Seats -> Seq(Blocks)]
             /\ net' \in SUBSET (SUBSET Blocks)
             /\ Sent \subseteq Sent'
             /\ SentInv' /\ OneCommitPerTick'
             /\ Len(history'[p]) = Least(t + 1, Redundancy)
             /\ \A k \in 1 .. Len(history'[p]) :
                  /\ history'[p][k].tick = t + 1 - k
                  /\ history'[p][k].seat = p
                  /\ history'[p][k] \in Sent'
             /\ \A q \in Seats \ {p} : history'[q] = history[q]
<1>. DEFINE t == next[p] + Delay
            b == Block(p, t, pad)
<1>1. p \in Seats /\ t \in Nat /\ b \in Blocks /\ b.seat = p /\ b.tick = t
  BY CommitCases DEF IInv, TypeOK, Block
<1>2. committed' = [committed EXCEPT ![p] = 0 .. t] /\ committed' \in [Seats -> SUBSET Nat]
  <2>1. committed' = [committed EXCEPT ![p] = 0 .. t]
    BY CommitCases
  <2>2. 0 .. t \in SUBSET Nat /\ committed \in [Seats -> SUBSET Nat]
    BY <1>1 DEF IInv, TypeOK
  <2>. QED  BY <2>1, <2>2
<1>3. \/ t \in committed[p] /\ Sent' = Sent /\ history' = history
      \/ /\ t \notin committed[p] /\ Sent' = Sent \cup {b}
         /\ history' = [history EXCEPT ![p] = Pushed(@, b)]
  BY CommitCases
<1>4. Sent \subseteq Blocks /\ history \in [Seats -> Seq(Blocks)] /\ committed \in [Seats -> SUBSET Nat]
  BY DEF IInv, TypeOK, Sent
<1>. HIDE DEF b
<1>5. Sent \subseteq Sent' /\ Sent' \subseteq Blocks
  BY <1>1, <1>3, <1>4
<1>6. net' \in SUBSET (SUBSET Blocks)
  BY <1>5 DEF Sent
<1>7. committed[p] \subseteq 0 .. t
  BY <1>1, TopTypes DEF IInv, CommittedInv
<1>8. SentInv'
  <2>1. SUFFICES ASSUME NEW c \in Sent' PROVE c.tick \in committed'[c.seat]
    BY DEF SentInv
  <2>2. CASE c \in Sent
    <3>1. c.tick \in committed[c.seat] /\ c.seat \in Seats
      BY <2>2, <1>4 DEF IInv, SentInv, Blocks
    <3>. QED  BY <3>1, <1>1, <1>2, <1>4, <1>7
  <2>3. CASE c = b
    BY <2>3, <1>1, <1>2, <1>4
  <2>. QED  BY <2>1, <2>2, <2>3, <1>3
<1>9. OneCommitPerTick'
  <2>1. CASE Sent' = Sent
    BY <2>1 DEF IInv, OneCommitPerTick
  <2>2. CASE t \notin committed[p] /\ Sent' = Sent \cup {b}
    <3>1. \A c \in Sent : ~ (c.seat = b.seat /\ c.tick = b.tick)
      BY <2>2, <1>1 DEF IInv, SentInv
    <3>. QED  BY <2>2, <3>1 DEF IInv, OneCommitPerTick
  <2>. QED  BY <2>1, <2>2, <1>3
<1>10. /\ Len(history[p]) = Least(Top(p), Redundancy)
       /\ \A k \in 1 .. Len(history[p]) :
            /\ history[p][k].tick = Top(p) - k
            /\ history[p][k].seat = p
            /\ history[p][k] \in Sent
  BY DEF IInv, HistoryInv
<1>11. /\ Len(history'[p]) = Least(t + 1, Redundancy)
       /\ \A k \in 1 .. Len(history'[p]) :
            /\ history'[p][k].tick = t + 1 - k
            /\ history'[p][k].seat = p
            /\ history'[p][k] \in Sent'
       /\ \A q \in Seats \ {p} : history'[q] = history[q]
       /\ history' \in [Seats -> Seq(Blocks)]
  <2>1. CASE t \in committed[p] /\ Sent' = Sent /\ history' = history
    <3>1. Top(p) = t + 1
      BY <2>1, <1>1, TopTypes
    <3>2. \A q \in Seats : history'[q] = history[q]
      BY <2>1
    <3>3. Len(history'[p]) = Len(history[p]) /\ history'[p] = history[p]
      BY <2>1
    <3>4. \A k \in 1 .. Len(history[p]) : history[p][k] \in Sent'
      BY <1>10, <1>5
    <3>5. /\ Len(history[p]) = Least(t + 1, Redundancy)
          /\ \A k \in 1 .. Len(history[p]) :
               history[p][k].tick = t + 1 - k /\ history[p][k].seat = p
      <4>1. t + 1 \in Nat
        BY <1>1
      <4>. HIDE DEF t
      <4>2. Len(history[p]) = Least(t + 1, Redundancy)
        BY <3>1, <1>10, Zenon
      <4>3. ASSUME NEW k \in 1 .. Len(history[p])
            PROVE  history[p][k].tick = t + 1 - k /\ history[p][k].seat = p
        <5>1. history[p][k].tick = Top(p) - k /\ history[p][k].seat = p
          BY <1>10
        <5>. QED  BY <5>1, <3>1, <1>1, <4>1
      <4>. QED  BY <4>2, <4>3
    <3>. HIDE DEF t
    <3>. QED  BY <2>1, <3>2, <3>4, <3>5, <1>4
  <2>2. CASE /\ t \notin committed[p] /\ Sent' = Sent \cup {b}
             /\ history' = [history EXCEPT ![p] = Pushed(@, b)]
    <3>. DEFINE h == history'[p]
    <3>1. Top(p) = t
      BY <2>2, <1>1, TopTypes
    <3>2. h = Pushed(history[p], b) /\ history[p] \in Seq(Blocks)
      BY <2>2, <1>1, <1>4
    <3>3. Len(history[p]) <= Redundancy
      BY <3>1, <1>1, <1>10, TopTypes DEF Least
    <3>4. /\ h \in Seq(Blocks)
          /\ Len(h) = Least(Len(history[p]) + 1, Redundancy)
          /\ h[1] = b
          /\ \A k \in 2 .. Len(h) : h[k] = history[p][k - 1] /\ k - 1 \in 1 .. Len(history[p])
      <4>. HIDE DEF h
      <4>. QED  BY <3>2, <3>3, <1>1, PushedHistory
    <3>5. Len(h) = Least(t + 1, Redundancy)
      BY <3>1, <3>4, <1>1, <1>10, TopTypes DEF Least
    <3>6. history' \in [Seats -> Seq(Blocks)] /\ \A q \in Seats \ {p} : history'[q] = history[q]
      BY <2>2, <3>2, <3>4, <1>1, <1>4
    <3>7. ASSUME NEW k \in 1 .. Len(h)
          PROVE  h[k].tick = t + 1 - k /\ h[k].seat = p /\ h[k] \in Sent'
      <4>1. CASE k = 1
        BY <4>1, <3>4, <1>1, <2>2
      <4>2. CASE k \in 2 .. Len(h)
        <5>1. h[k] = history[p][k - 1] /\ k - 1 \in 1 .. Len(history[p])
          BY <4>2, <3>4
        <5>2. \A j \in 1 .. Len(history[p]) :
                history[p][j].tick = t - j /\ history[p][j].seat = p /\ history[p][j] \in Sent
          BY <3>1, <1>10, Zenon
        <5>3. h[k].tick = t - (k - 1) /\ h[k].seat = p /\ h[k] \in Sent'
          BY <5>1, <5>2, <1>5
        <5>. QED  BY <5>3, <4>2, <1>1
      <4>. QED  BY <4>1, <4>2, <3>5, <1>1
    <3>. QED  BY <3>5, <3>6, <3>7
  <2>. QED  BY <2>1, <2>2, <1>3
<1>. QED  BY <1>2, <1>5, <1>6, <1>8, <1>9, <1>11

(* The ring with the own pad in it holds sent blocks only. *)
LEMMA CommittedRingKeeps ==
  ASSUME IInv, NEW p \in started, NEW pad \in Pads, CommitLocal(p, pad)
  PROVE  CommittedRing(p, pad) \in RingType /\ RingFrom(CommittedRing(p, pad), Sent')
<1>. DEFINE t == next[p] + Delay
<1>1. p \in Seats /\ t \in Nat
  BY CommitCases DEF IInv, TypeOK
<1>2. ring[p] \in RingType /\ RingFrom(ring[p], Sent) /\ Sent \subseteq Sent'
  BY <1>1, CommitKeeps DEF IInv, TypeOK, RingType, RingInv, RingFrom
<1>3. RingFrom(ring[p], Sent')
  BY <1>2 DEF RingFrom
<1>4. CASE t \in committed[p]
  BY <1>4, <1>2, <1>3 DEF CommittedRing
<1>5. CASE t \notin committed[p]
  <2>1. Block(p, t, pad) \in Sent'
    BY <1>5, CommitCases
  <2>2. CommittedRing(p, pad) = Submit(p, ring[p], t, p, pad)
    BY <1>5 DEF CommittedRing
  <2>. QED  BY <2>1, <2>2, <1>1, <1>2, <1>3, SubmitKeeps
<1>. QED  BY <1>4, <1>5

-------------------------------------------------------------------------------
(* The invariant is inductive.                                              *)

(* The part of the invariant a slice settles whether or not it runs a tick. *)
LEMMA SliceKeeps ==
  ASSUME IInv, NEW p \in started, NEW pad \in Pads, CommitLocal(p, pad),
         ring' = [ring EXCEPT ![p] = CommittedRing(p, pad)]
  PROVE  /\ ring' \in [Seats -> [0 .. Ring - 1 -> Slots]]
         /\ \A q \in Seats, i \in 0 .. Ring - 1 : ring'[q][i].tick % Ring = i
         /\ RingInv'
<1>1. p \in Seats /\ ring \in [Seats -> RingType]
  BY DEF IInv, TypeOK, RingType
<1>2. CommittedRing(p, pad) \in RingType /\ RingFrom(CommittedRing(p, pad), Sent')
  BY CommittedRingKeeps
<1>3. ring' \in [Seats -> RingType]
  BY <1>1, <1>2
<1>4. RingInv'
  <2>1. SUFFICES ASSUME NEW q \in Seats PROVE RingFrom(ring'[q], Sent')
    BY DEF RingInv, RingFrom
  <2>2. CASE q = p
    BY <2>2, <1>1, <1>2
  <2>3. CASE q # p
    <3>1. ring'[q] = ring[q] /\ Sent \subseteq Sent'
      BY <2>3, <1>1, CommitKeeps
    <3>. QED  BY <3>1 DEF IInv, RingInv, RingFrom
  <2>. QED  BY <2>2, <2>3
<1>. QED  BY <1>3, <1>4 DEF RingType

(* Initially nothing is sent and every slot is empty. *)
LEMMA InitInv == Init => IInv
<1>. SUFFICES ASSUME Init PROVE IInv
  OBVIOUS
<1>1. Sent = {}
  BY DEF Init, Sent
<1>2. [i \in 0 .. Ring - 1 |-> [tick |-> i, pads |-> EmptyPads]] \in RingType
  <2>1. \A i \in 0 .. Ring - 1 : [tick |-> i, pads |-> EmptyPads] \in Slots
    BY LockstepAssumption DEF Slots, EmptyPads
  <2>. QED  BY <2>1, OwnIndex DEF RingType
<1>3. TypeOK
  <2>1. ring \in [Seats -> RingType]
    BY <1>2 DEF Init
  <2>. QED  BY <2>1 DEF Init, TypeOK, RingType
<1>4. CommittedInv /\ HistoryInv
  BY DEF Init, CommittedInv, HistoryInv
<1>5. SentInv /\ OneCommitPerTick
  BY <1>1 DEF SentInv, OneCommitPerTick
<1>6. RingInv
  BY DEF Init, RingInv, EmptyPads
<1>7. AppliedIsCommitted
  BY DEF Init, AppliedIsCommitted
<1>. QED  BY <1>3, <1>4, <1>5, <1>6, <1>7 DEF IInv

(* startLockstep(): the first Delay ticks of the own seat are committed.    *)
LEMMA StartInv ==
  ASSUME IInv, NEW p \in Seats, Start(p)
  PROVE  IInv'
<1>. DEFINE h == Prefill(p)
            r == StartRing(p)
<1>1. /\ Delay \in Nat \ {0} /\ Redundancy \in Nat /\ Delay <= Redundancy
      /\ Ring \in Nat /\ Delay < Ring /\ Idle \in Pads
  BY LockstepAssumption
<1>2. TypeOK /\ p \notin started /\ next[p] = 0 /\ committed[p] = {} /\ ring[p] \in RingType
  BY DEF IInv, TypeOK, CommittedInv, Start, RingType
<1>3. /\ h \in Seq(Blocks) /\ Len(h) = Delay
      /\ \A k \in 1 .. Delay : h[k] = Block(p, Delay - k, Idle)
  <2>1. \A k \in 1 .. Delay : Block(p, Delay - k, Idle) \in Blocks
    BY <1>1 DEF Block, Blocks
  <2>. QED  BY <2>1, <1>1 DEF Prefill
<1>4. BlocksOf(h) \subseteq Blocks /\ \A b \in BlocksOf(h) : b.seat = p /\ b.tick \in 0 .. Delay - 1 /\ b.pad = Idle
  <2>1. SUFFICES ASSUME NEW k \in 1 .. Delay
                 PROVE  h[k] \in Blocks /\ h[k].seat = p /\ h[k].tick \in 0 .. Delay - 1 /\ h[k].pad = Idle
    BY <1>1, <1>3 DEF BlocksOf
  <2>. QED  BY <1>1, <1>3 DEF Block
<1>5. \A t \in 0 .. Delay - 1 : Block(p, t, Idle) \in BlocksOf(h)
  <2>1. SUFFICES ASSUME NEW t \in 0 .. Delay - 1 PROVE Block(p, t, Idle) \in BlocksOf(h)
    OBVIOUS
  <2>2. Delay - t \in 1 .. Delay /\ Delay - (Delay - t) = t
    BY <1>1
  <2>3. h[Delay - t] = Block(p, t, Idle)
    BY <2>2, <1>3
  <2>. QED  BY <2>2, <2>3, <1>1, <1>3 DEF BlocksOf
<1>6. net' = net \cup {BlocksOf(h)} /\ Sent' = Sent \cup BlocksOf(h)
  BY DEF Start, Sent
<1>7. /\ started' = started \cup {p} /\ halted' = halted /\ next' = next /\ applied' = applied
      /\ committed' = [committed EXCEPT ![p] = 0 .. Delay - 1]
      /\ history' = [history EXCEPT ![p] = h]
      /\ ring' = [ring EXCEPT ![p] = r]
  BY <1>2 DEF Start, TypeOK
<1>. HIDE DEF h
<1>8. r \in RingType /\ RingFrom(r, Sent')
  <2>1. r \in RingType
    <3>1. \A i \in 0 .. Ring - 1 : r[i] \in Slots /\ r[i].tick = i
      BY <1>1 DEF StartRing, Slots
    <3>2. r = [i \in 0 .. Ring - 1 |-> r[i]]
      BY DEF StartRing
    <3>. HIDE DEF r
    <3>. QED  BY <3>1, <3>2, OwnIndex DEF RingType
  <2>2. \A i \in 0 .. Ring - 1 : r[i].tick = i
    BY DEF StartRing
  <2>3. \A i \in 0 .. Ring - 1, s \in Seats :
          r[i].pads[s] = IF s = p /\ i < Delay THEN Idle ELSE NoPad
    BY DEF StartRing
  <2>. HIDE DEF r
  <2>4. \A i \in 0 .. Ring - 1 : i < Delay => Block(p, i, Idle) \in Sent'
    BY <1>1, <1>5, <1>6
  <2>. QED  BY <2>1, <2>2, <2>3, <2>4 DEF RingFrom
<1>. HIDE DEF r
<1>9. TypeOK'
  <2>1. ring' \in [Seats -> RingType]
    BY <1>2, <1>7, <1>8 DEF TypeOK, RingType
  <2>2. net' \in SUBSET (SUBSET Blocks)
    BY <1>2, <1>4, <1>6 DEF TypeOK
  <2>3. /\ started' \in SUBSET Seats /\ halted' \in SUBSET started'
        /\ committed' \in [Seats -> SUBSET Nat] /\ history' \in [Seats -> Seq(Blocks)]
        /\ next' \in [Seats -> Nat] /\ applied' \in [Seats -> Seq([Seats -> Pads])]
    BY <1>1, <1>2, <1>3, <1>7 DEF TypeOK
  <2>. QED  BY <2>1, <2>2, <2>3 DEF TypeOK, RingType
<1>10. /\ committed'[p] = 0 .. Delay - 1 /\ history'[p] = h /\ next'[p] = 0
       /\ \A q \in Seats \ {p} : committed'[q] = committed[q] /\ history'[q] = history[q]
       /\ \A q \in Seats : next'[q] = next[q] /\ applied'[q] = applied[q]
  BY <1>2, <1>7 DEF TypeOK
<1>11. Top(p)' = Delay /\ \A q \in Seats \ {p} : Top(q)' = Top(q)
  BY <1>1, <1>10 DEF TopOf
<1>12. CommittedInv'
  <2>1. SUFFICES ASSUME NEW q \in Seats
                 PROVE  /\ Len(applied'[q]) = next'[q]
                        /\ q \notin started' => next'[q] = 0 /\ committed'[q] = {} /\ history'[q] = <<>>
                        /\ q \in started' => committed'[q] = 0 .. Top(q)' - 1
    BY DEF CommittedInv
  <2>2. CASE q = p
    BY <2>2, <1>7, <1>10, <1>11 DEF IInv, CommittedInv
  <2>3. CASE q # p
    BY <2>3, <1>7, <1>10, <1>11 DEF IInv, CommittedInv
  <2>. QED  BY <2>2, <2>3
<1>13. HistoryInv'
  <2>1. SUFFICES ASSUME NEW q \in started'
                 PROVE  /\ Len(history'[q]) = Least(Top(q)', Redundancy)
                        /\ \A k \in 1 .. Len(history'[q]) :
                             /\ history'[q][k].tick = Top(q)' - k
                             /\ history'[q][k].seat = q
                             /\ history'[q][k] \in Sent'
    BY DEF HistoryInv
  <2>2. CASE q = p
    <3>1. \A k \in 1 .. Delay : h[k] \in Sent'
      BY <1>1, <1>3, <1>6 DEF BlocksOf
    <3>2. \A k \in 1 .. Delay : h[k].tick = Delay - k /\ h[k].seat = p
      BY <1>3 DEF Block
    <3>. QED  BY <2>2, <3>1, <3>2, <1>1, <1>3, <1>10, <1>11 DEF Least
  <2>3. CASE q \in started /\ q # p
    <3>1. q \in Seats \ {p} /\ history'[q] = history[q] /\ Top(q)' = Top(q) /\ Sent \subseteq Sent'
      BY <2>3, <1>2, <1>6, <1>10, <1>11 DEF TypeOK
    <3>2. /\ Len(history[q]) = Least(Top(q), Redundancy)
          /\ \A k \in 1 .. Len(history[q]) :
               /\ history[q][k].tick = Top(q) - k
               /\ history[q][k].seat = q
               /\ history[q][k] \in Sent
      BY <2>3 DEF IInv, HistoryInv
    <3>. QED  BY <3>1, <3>2
  <2>. QED  BY <2>1, <2>2, <2>3, <1>7
<1>14. SentInv'
  <2>1. SUFFICES ASSUME NEW b \in Sent' PROVE b.tick \in committed'[b.seat]
    BY DEF SentInv
  <2>2. CASE b \in Sent
    <3>1. b.tick \in committed[b.seat] /\ b.seat \in Seats
      BY <2>2, <1>2 DEF IInv, SentInv, TypeOK, Sent, Blocks
    <3>. QED  BY <3>1, <1>2, <1>10
  <2>3. CASE b \in BlocksOf(h)
    BY <2>3, <1>4, <1>10
  <2>. QED  BY <2>1, <2>2, <2>3, <1>6
<1>15. RingInv'
  <2>1. SUFFICES ASSUME NEW q \in Seats PROVE RingFrom(ring'[q], Sent')
    BY DEF RingInv, RingFrom
  <2>2. CASE q = p
    BY <2>2, <1>2, <1>7, <1>8 DEF TypeOK
  <2>3. CASE q # p
    <3>1. ring'[q] = ring[q]
      BY <2>3, <1>2, <1>7 DEF TypeOK
    <3>. QED  BY <3>1, <1>6 DEF IInv, RingInv, RingFrom
  <2>. QED  BY <2>2, <2>3
<1>16. OneCommitPerTick'
  <2>1. \A b \in Sent : b.seat # p
    BY <1>2 DEF IInv, SentInv
  <2>2. \A b \in BlocksOf(h) : b.seat = p /\ b.pad = Idle
    BY <1>4
  <2>. QED  BY <2>1, <2>2, <1>6 DEF IInv, OneCommitPerTick
<1>17. AppliedIsCommitted'
  BY <1>6, <1>10 DEF IInv, AppliedIsCommitted
<1>. QED  BY <1>9, <1>12, <1>13, <1>14, <1>15, <1>16, <1>17 DEF IInv

(* What the two kinds of slice share: everything but next and applied. *)
LEMMA SliceSent ==
  ASSUME IInv, NEW p \in started, NEW pad \in Pads, CommitLocal(p, pad),
         ring' = [ring EXCEPT ![p] = CommittedRing(p, pad)],
         UNCHANGED <<started, halted>>,
         \/ next' = next
         \/ next' = [next EXCEPT ![p] = @ + 1],
         applied' \in [Seats -> Seq([Seats -> Pads])],
         \A q \in Seats : Len(applied'[q]) = next'[q],
         AppliedIsCommitted'
  PROVE  IInv'
<1>. DEFINE t == next[p] + Delay
<1>1. /\ p \in Seats /\ t \in Nat /\ Delay \in Nat \ {0} /\ next \in [Seats -> Nat]
      /\ committed \in [Seats -> SUBSET Nat]
  BY LockstepAssumption DEF IInv, TypeOK
<1>2. /\ committed' \in [Seats -> SUBSET Nat]
      /\ history' \in [Seats -> Seq(Blocks)]
      /\ net' \in SUBSET (SUBSET Blocks)
  BY CommitKeeps
<1>3. TypeOK'
  <2>1. started' \in SUBSET Seats /\ halted' \in SUBSET started' /\ next' \in [Seats -> Nat]
    BY <1>1 DEF IInv, TypeOK
  <2>2. /\ ring' \in [Seats -> [0 .. Ring - 1 -> Slots]]
        /\ \A q \in Seats, i \in 0 .. Ring - 1 : ring'[q][i].tick % Ring = i
    BY SliceKeeps
  <2>. QED  BY <2>1, <2>2, <1>2 DEF TypeOK
<1>4. committed' = [committed EXCEPT ![p] = 0 .. t]
  BY CommitKeeps
<1>5. committed'[p] = 0 .. t /\ Top(p)' = t + 1
  <2>1. committed'[p] = 0 .. t
    BY <1>1, <1>4
  <2>2. next'[p] = next[p] \/ next'[p] = next[p] + 1
    BY <1>1
  <2>3. CASE next'[p] = next[p]
    BY <2>1, <2>3, <1>1 DEF TopOf
  <2>4. CASE next'[p] = next[p] + 1
    <3>1. next'[p] + Delay = t + 1
      BY <2>4, <1>1
    <3>2. t + 1 \notin committed'[p]
      BY <2>1, <1>1
    <3>. HIDE DEF t
    <3>. QED  BY <2>1, <3>1, <3>2 DEF TopOf
  <2>. QED  BY <2>1, <2>2, <2>3, <2>4
<1>6. ASSUME NEW q \in Seats \ {p}
      PROVE  /\ next'[q] = next[q] /\ committed'[q] = committed[q]
             /\ history'[q] = history[q] /\ Top(q)' = Top(q)
  <2>1. next'[q] = next[q] /\ committed'[q] = committed[q]
    BY <1>1, <1>4
  <2>2. history'[q] = history[q]
    BY CommitKeeps
  <2>. QED  BY <2>1, <2>2 DEF TopOf
<1>7. CommittedInv'
  <2>1. SUFFICES ASSUME NEW q \in Seats
                 PROVE  /\ q \notin started => next'[q] = 0 /\ committed'[q] = {} /\ history'[q] = <<>>
                        /\ q \in started => committed'[q] = 0 .. Top(q)' - 1
    BY DEF CommittedInv
  <2>2. CASE q = p
    BY <2>2, <1>1, <1>5
  <2>3. CASE q # p
    BY <2>3, <1>6 DEF IInv, CommittedInv
  <2>. QED  BY <2>2, <2>3
<1>8. HistoryInv'
  <2>1. SUFFICES ASSUME NEW q \in started
                 PROVE  /\ Len(history'[q]) = Least(Top(q)', Redundancy)
                        /\ \A k \in 1 .. Len(history'[q]) :
                             /\ history'[q][k].tick = Top(q)' - k
                             /\ history'[q][k].seat = q
                             /\ history'[q][k] \in Sent'
    BY DEF HistoryInv
  <2>2. CASE q = p
    <3>1. /\ Len(history'[p]) = Least(t + 1, Redundancy)
          /\ \A k \in 1 .. Len(history'[p]) :
               /\ history'[p][k].tick = t + 1 - k
               /\ history'[p][k].seat = p
               /\ history'[p][k] \in Sent'
      BY CommitKeeps
    <3>2. t + 1 \in Nat
      BY <1>1
    <3>. HIDE DEF t
    <3>3. /\ Len(history'[p]) = Least(Top(p)', Redundancy)
          /\ \A k \in 1 .. Len(history'[p]) :
               /\ history'[p][k].tick = Top(p)' - k
               /\ history'[p][k].seat = p
               /\ history'[p][k] \in Sent'
      <4>1. Len(history'[p]) = Least(Top(p)', Redundancy)
        BY <3>1, <1>5, Zenon
      <4>2. ASSUME NEW k \in 1 .. Len(history'[p])
            PROVE  /\ history'[p][k].tick = Top(p)' - k
                   /\ history'[p][k].seat = p
                   /\ history'[p][k] \in Sent'
        <5>1. /\ history'[p][k].tick = t + 1 - k /\ history'[p][k].seat = p
              /\ history'[p][k] \in Sent'
          BY <3>1
        <5>. QED  BY <5>1, <1>5, <3>2, <1>1
      <4>. QED  BY <4>1, <4>2
    <3>. QED  BY <2>2, <3>3
  <2>3. CASE q # p
    <3>1. history'[q] = history[q] /\ Top(q)' = Top(q)
      BY <2>3, <1>6 DEF IInv, TypeOK
    <3>2. Sent \subseteq Sent'
      BY CommitKeeps
    <3>3. /\ Len(history[q]) = Least(Top(q), Redundancy)
          /\ \A k \in 1 .. Len(history[q]) :
               /\ history[q][k].tick = Top(q) - k
               /\ history[q][k].seat = q
               /\ history[q][k] \in Sent
      BY DEF IInv, HistoryInv
    <3>. QED  BY <3>1, <3>2, <3>3
  <2>. QED  BY <2>2, <2>3
<1>9. SentInv' /\ OneCommitPerTick'
  BY CommitKeeps
<1>10. RingInv'
  BY SliceKeeps
<1>. QED  BY <1>3, <1>7, <1>8, <1>9, <1>10 DEF IInv

(* A slice that runs no tick. *)
LEMMA WaitSliceInv ==
  ASSUME IInv, NEW p \in Seats, NEW pad \in Pads, NEW hidden \in BOOLEAN,
         WaitSlice(p, pad, hidden)
  PROVE  IInv'
<1>1. p \in started /\ CommitLocal(p, pad) /\ ring' = [ring EXCEPT ![p] = CommittedRing(p, pad)]
  BY DEF WaitSlice
<1>2. UNCHANGED <<started, halted, next, applied>>
  BY DEF WaitSlice
<1>3. AppliedIsCommitted'
  <2>1. Sent \subseteq Sent'
    BY <1>1, CommitKeeps
  <2>. QED  BY <2>1, <1>2 DEF IInv, AppliedIsCommitted
<1>4. /\ applied' \in [Seats -> Seq([Seats -> Pads])]
      /\ \A q \in Seats : Len(applied'[q]) = next'[q]
  BY <1>2 DEF IInv, TypeOK, CommittedInv
<1>. QED  BY <1>1, <1>2, <1>3, <1>4, SliceSent

(* A slice that runs a tick feeds the engine the pads sent for that tick.   *)
LEMMA RunSliceInv ==
  ASSUME IInv, NEW p \in Seats, NEW pad \in Pads, RunSlice(p, pad)
  PROVE  IInv'
<1>. DEFINE r == CommittedRing(p, pad)
            v == SlotFor(r, next[p]).pads
<1>1. /\ p \in started /\ CommitLocal(p, pad) /\ ring' = [ring EXCEPT ![p] = r]
      /\ UNCHANGED <<started, halted>>
      /\ HasAll(r, next[p])
      /\ applied' = [applied EXCEPT ![p] = Append(@, v)]
      /\ next' = [next EXCEPT ![p] = @ + 1]
  BY DEF RunSlice
<1>2. r \in RingType /\ RingFrom(r, Sent') /\ Sent \subseteq Sent'
  BY <1>1, CommittedRingKeeps, CommitKeeps
<1>3. /\ next[p] \in Nat /\ next \in [Seats -> Nat] /\ applied \in [Seats -> Seq([Seats -> Pads])]
      /\ \A q \in Seats : Len(applied[q]) = next[q]
  BY DEF IInv, TypeOK, CommittedInv
<1>. HIDE DEF r
<1>4. v \in [Seats -> Pads] /\ \A s \in Seats : Block(s, next[p], v[s]) \in Sent'
  <2>1. SlotFor(r, next[p]) \in Slots
    BY <1>2, <1>3, SlotForTick
  <2>2. \A s \in Seats : v[s] # NoPad
    BY <1>1 DEF HasAll
  <2>3. \A s \in Seats : r[next[p] % Ring].tick = next[p] /\ v[s] = r[next[p] % Ring].pads[s]
    BY <1>2, <1>3, <2>2, SlotForTick
  <2>4. \A s \in Seats : Block(s, next[p], v[s]) \in Sent'
    BY <1>2, <1>3, <2>2, <2>3, IndexInRing DEF RingFrom
  <2>. QED  BY <2>1, <2>2, <2>4 DEF Slots
<1>. HIDE DEF v
<1>5. /\ applied' \in [Seats -> Seq([Seats -> Pads])]
      /\ Len(applied'[p]) = next[p] + 1
      /\ applied'[p][next[p] + 1] = v
      /\ \A k \in 1 .. next[p] : applied'[p][k] = applied[p][k]
      /\ \A q \in Seats \ {p} : applied'[q] = applied[q]
  BY <1>1, <1>3, <1>4
<1>6. \A q \in Seats : Len(applied'[q]) = next'[q]
  BY <1>1, <1>3, <1>5
<1>7. AppliedIsCommitted'
  <2>1. SUFFICES ASSUME NEW q \in Seats, NEW k \in 1 .. Len(applied'[q]), NEW s \in Seats
                 PROVE  Block(s, k - 1, applied'[q][k][s]) \in Sent'
    BY DEF AppliedIsCommitted
  <2>2. CASE q = p /\ k = next[p] + 1
    BY <2>2, <1>3, <1>4, <1>5
  <2>3. CASE q = p /\ k \in 1 .. next[p]
    BY <2>3, <1>2, <1>3, <1>5 DEF IInv, AppliedIsCommitted
  <2>4. CASE q # p
    BY <2>4, <1>2, <1>5 DEF IInv, AppliedIsCommitted
  <2>. QED  BY <2>2, <2>3, <2>4, <1>3, <1>5
<1>. QED  BY <1>1, <1>5, <1>6, <1>7, SliceSent DEF r

(* Receiving a datagram, late, repeated or not, fills slots with what was   *)
(* sent.                                                                    *)
LEMMA ReceiveInv ==
  ASSUME IInv, NEW p \in Seats, NEW d \in net, Receive(p, d)
  PROVE  IInv'
<1>1. Ingested(p, d) \in RingType /\ RingFrom(Ingested(p, d), Sent)
  BY IngestKeeps DEF IInv
<1>2. /\ ring' = [ring EXCEPT ![p] = Ingested(p, d)]
      /\ UNCHANGED <<started, halted, next, committed, history, applied, net>>
  BY DEF Receive
<1>3. Sent' = Sent /\ \A q \in Seats : Top(q)' = Top(q)
  BY <1>2 DEF Sent
<1>4. TypeOK'
  <2>1. ring' \in [Seats -> RingType]
    BY <1>1, <1>2 DEF IInv, TypeOK, RingType
  <2>. QED  BY <2>1, <1>2 DEF IInv, TypeOK, RingType
<1>5. RingInv'
  <2>1. SUFFICES ASSUME NEW q \in Seats PROVE RingFrom(ring'[q], Sent)
    BY <1>3 DEF RingInv, RingFrom
  <2>2. CASE q = p
    BY <2>2, <1>1, <1>2 DEF IInv, TypeOK
  <2>3. CASE q # p
    BY <2>3, <1>2 DEF IInv, TypeOK, RingInv, RingFrom
  <2>. QED  BY <2>2, <2>3
<1>6. CommittedInv' /\ HistoryInv' /\ SentInv'
  <2>1. CommittedInv'
    BY <1>2, <1>3 DEF IInv, CommittedInv
  <2>2. HistoryInv'
    BY <1>2, <1>3 DEF IInv, HistoryInv
  <2>3. SentInv'
    BY <1>2, <1>3 DEF IInv, SentInv
  <2>. QED  BY <2>1, <2>2, <2>3
<1>7. OneCommitPerTick' /\ AppliedIsCommitted'
  BY <1>2, <1>3 DEF IInv, OneCommitPerTick, AppliedIsCommitted
<1>. QED  BY <1>4, <1>5, <1>6, <1>7 DEF IInv

(* Steps that leave what the invariant is about alone. *)
LEMMA SessionEndInv ==
  ASSUME IInv, UNCHANGED <<started, next, ring, committed, history, applied, net>>,
         halted' \in SUBSET started
  PROVE  IInv'
<1>1. Sent' = Sent /\ \A q \in Seats : Top(q)' = Top(q)
  BY DEF Sent
<1>2. TypeOK'
  BY DEF IInv, TypeOK
<1>3. CommittedInv' /\ HistoryInv' /\ SentInv'
  <2>1. CommittedInv'
    BY <1>1 DEF IInv, CommittedInv
  <2>2. HistoryInv'
    BY <1>1 DEF IInv, HistoryInv
  <2>3. SentInv'
    BY <1>1 DEF IInv, SentInv
  <2>. QED  BY <2>1, <2>2, <2>3
<1>4. RingInv' /\ OneCommitPerTick' /\ AppliedIsCommitted'
  BY <1>1 DEF IInv, RingInv, OneCommitPerTick, AppliedIsCommitted
<1>. QED  BY <1>2, <1>3, <1>4 DEF IInv

(* Every reachable state satisfies the inductive invariant. *)
THEOREM Invariant == Spec => []IInv
<1>1. IInv /\ [Next]_vars => IInv'
  <2>. SUFFICES ASSUME IInv, [Next]_vars PROVE IInv'
    OBVIOUS
  <2>1. ASSUME NEW p \in Seats, Start(p) PROVE IInv'
    BY <2>1, StartInv
  <2>2. ASSUME NEW p \in Seats, Slice(p) PROVE IInv'
    BY <2>2, RunSliceInv, WaitSliceInv DEF Slice
  <2>3. ASSUME NEW p \in Seats, NEW d \in net, Receive(p, d) PROVE IInv'
    BY <2>3, ReceiveInv
  <2>4. ASSUME NEW p \in Seats, Halt(p) PROVE IInv'
    BY <2>4, SessionEndInv DEF Halt, IInv, TypeOK
  <2>5. CASE UNCHANGED vars
    BY <2>5, SessionEndInv DEF vars, IInv, TypeOK
  <2>. QED  BY <2>1, <2>2, <2>3, <2>4, <2>5 DEF Next
<1>. QED  BY <1>1, InitInv, PTL DEF Spec

-------------------------------------------------------------------------------
(* What the invariant gives.                                                *)

(* A committed tick is at most Delay ahead of its seat's simulation. *)
LEMMA CommittedBound ==
  ASSUME IInv, NEW p \in Seats
  PROVE  \A t \in committed[p] : t \in Nat /\ t <= next[p] + Delay
<1>1. CASE p \in started
  <2>1. committed[p] = 0 .. Top(p) - 1
    BY <1>1 DEF IInv, CommittedInv
  <2>. QED  BY <2>1, TopTypes
<1>2. CASE p \notin started
  BY <1>2 DEF IInv, CommittedInv
<1>. QED  BY <1>1, <1>2

(* A tick that has run anywhere was committed by every seat: the barrier.   *)
LEMMA RanIsCommitted ==
  ASSUME IInv, NEW p \in Seats, NEW q \in Seats, NEW t \in 0 .. next[q] - 1
  PROVE  t \in committed[p]
<1>1. next[q] \in Nat /\ Len(applied[q]) = next[q]
  BY DEF IInv, TypeOK, CommittedInv
<1>2. Block(p, t, applied[q][t + 1][p]) \in Sent
  <2>1. t + 1 \in 1 .. Len(applied[q]) /\ (t + 1) - 1 = t
    BY <1>1
  <2>2. Block(p, (t + 1) - 1, applied[q][t + 1][p]) \in Sent
    BY <2>1 DEF IInv, AppliedIsCommitted
  <2>. QED  BY <2>1, <2>2
<1>. QED  BY <1>2 DEF IInv, SentInv, Block

(* The barrier bounds the lead: q cannot run a tick p has not committed. *)
LEMMA LeadFromInv == IInv => LeadBound
<1>. SUFFICES ASSUME IInv, NEW p \in Seats, NEW q \in Seats
              PROVE  next[q] <= next[p] + Delay + 1
  BY DEF LeadBound
<1>1. next[p] \in Nat /\ next[q] \in Nat /\ Delay \in Nat
  BY TopTypes
<1>2. CASE next[q] = 0
  BY <1>1, <1>2
<1>3. CASE next[q] > 0
  <2>1. next[q] - 1 \in committed[p]
    BY <1>1, <1>3, RanIsCommitted
  <2>. QED  BY <2>1, <1>1, CommittedBound
<1>. QED  BY <1>1, <1>2, <1>3

(* The types of Lockstep's variables hold for every value of its constants. *)
THEOREM TypeCorrect == Spec => []TypeOK
<1>1. IInv => TypeOK
  BY DEF IInv
<1>. QED  BY <1>1, Invariant, PTL

(* Two peers never simulate one tick with different pads, for any number of *)
(* peers, ring size, redundancy and delay.                                  *)
THEOREM AgreementHolds == Spec => []Agreement
<1>1. IInv => Agreement
  <2>. SUFFICES ASSUME IInv, NEW p \in Seats, NEW q \in Seats,
                       NEW k \in 1 .. Len(applied[p]), k <= Len(applied[q])
                PROVE  applied[p][k] = applied[q][k]
    BY DEF Agreement
  <2>1. applied \in [Seats -> Seq([Seats -> Pads])] /\ k \in 1 .. Len(applied[q])
    BY DEF IInv, TypeOK
  <2>2. ASSUME NEW s \in Seats PROVE applied[p][k][s] = applied[q][k][s]
    <3>1. /\ Block(s, k - 1, applied[p][k][s]) \in Sent
          /\ Block(s, k - 1, applied[q][k][s]) \in Sent
      BY <2>1 DEF IInv, AppliedIsCommitted
    <3>. QED  BY <3>1 DEF IInv, OneCommitPerTick, Block
  <2>3. applied[p][k] \in [Seats -> Pads] /\ applied[q][k] \in [Seats -> Pads]
    BY <2>1
  <2>. QED  BY <2>2, <2>3
<1>. QED  BY <1>1, Invariant, PTL

(* What an engine simulates is what the seats committed. *)
THEOREM AppliedIsCommittedHolds == Spec => []AppliedIsCommitted
<1>1. IInv => AppliedIsCommitted
  BY DEF IInv
<1>. QED  BY <1>1, Invariant, PTL

(* The peers stay within Delay + 1 ticks of each other. *)
THEOREM LeadBoundHolds == Spec => []LeadBound
BY LeadFromInv, Invariant, PTL

(* With 2 * Delay + 2 blocks per datagram, what a peer waits for is always  *)
(* still being resent.  The code's 8 blocks are enough up to its delay of 3 *)
(* and not beyond.                                                          *)
THEOREM HistoryCoversHolds ==
  ASSUME Redundancy >= 2 * Delay + 2
  PROVE  Spec => []HistoryCovers
<1>1. IInv => HistoryCovers
  <2>. SUFFICES ASSUME IInv, NEW p \in started, NEW q \in started, next[p] \in committed[q]
                PROVE  \E k \in DOMAIN history[q] : history[q][k].tick = next[p]
    BY DEF HistoryCovers
  <2>1. p \in Seats /\ q \in Seats
    BY DEF IInv, TypeOK
  <2>2. /\ next[p] \in Nat /\ next[q] \in Nat /\ Delay \in Nat \ {0} /\ Redundancy \in Nat
        /\ Top(q) \in Nat /\ Top(q) <= next[q] + Delay + 1
    BY <2>1, TopTypes
  <2>3. next[q] <= next[p] + Delay + 1
    BY <2>1, LeadFromInv DEF LeadBound
  <2>4. next[p] < Top(q)
    <3>1. committed[q] = 0 .. Top(q) - 1
      BY <2>1 DEF IInv, CommittedInv
    <3>. QED  BY <3>1, <2>2
  <2>. DEFINE k == Top(q) - next[p]
  <2>5. k \in 1 .. Least(Top(q), Redundancy)
    BY <2>2, <2>3, <2>4 DEF Least
  <2>6. k \in 1 .. Len(history[q]) /\ history[q][k].tick = Top(q) - k
    BY <2>5 DEF IInv, HistoryInv
  <2>7. Top(q) - k = next[p]
    BY <2>2
  <2>8. DOMAIN history[q] = 1 .. Len(history[q])
    BY <2>1 DEF IInv, TypeOK
  <2>. HIDE DEF k
  <2>. QED  BY <2>6, <2>7, <2>8
<1>. QED  BY <1>1, Invariant, PTL

(* A ring of 2 * Delay + 2 slots never refuses a peer's block as too far    *)
(* ahead; the code has 64.                                                  *)
THEOREM NeverRefusedHolds ==
  ASSUME Ring >= 2 * Delay + 2
  PROVE  Spec => []NeverRefused
<1>1. IInv => NeverRefused
  <2>. SUFFICES ASSUME IInv, NEW b \in Sent, NEW p \in Seats
                PROVE  b.tick < next[p] + Ring
    BY DEF NeverRefused
  <2>1. b.seat \in Seats /\ b.tick \in committed[b.seat]
    BY DEF IInv, TypeOK, Sent, Blocks, SentInv
  <2>2. b.tick \in Nat /\ b.tick <= next[b.seat] + Delay
    BY <2>1, CommittedBound
  <2>3. next[b.seat] <= next[p] + Delay + 1
    BY <2>1, LeadFromInv DEF LeadBound
  <2>4. next[p] \in Nat /\ next[b.seat] \in Nat /\ Delay \in Nat /\ Ring \in Nat
    BY <2>1, TopTypes, LockstepAssumption
  <2>. QED  BY <2>2, <2>3, <2>4
<1>. QED  BY <1>1, Invariant, PTL
===============================================================================
