---------------------------- MODULE MatchCtlProofs ----------------------------
(***************************************************************************)
(* Proofs about MatchCtl: the inductive invariant, and from it that a      *)
(* match ends with DESYNC only when two simulations differ and that two    *)
(* simulations that differ never both go on unnoticed, for any number of   *)
(* peers.                                                                  *)
(***************************************************************************)
EXTENDS MatchCtl, TLAPS

CtlType == [Seats -> [Seats -> SUBSET Envelopes]]
LinkType == [Links -> {"new", "up", "down"}]

(* What sendCtlAll() adds and what it leaves. *)
LEMMA SendAllFacts ==
  ASSUME NEW C \in CtlType, NEW p \in Seats, NEW msgs \in SUBSET Msgs
  PROVE  /\ SendAll(C, p, msgs) \in CtlType
         /\ \A a, b \in Seats : \A e \in SendAll(C, p, msgs)[a][b] :
              e \in C[a][b] \/ (a = p /\ b # p /\ e.msg \in msgs)
<1>. DEFINE new(b) == [path : Ways(link, p, b), msg : msgs]
<1>1. \A b \in Seats : new(b) \subseteq Envelopes /\ \A e \in new(b) : e.msg \in msgs
  BY DEF Envelopes, Ways
<1>2. SendAll(C, p, msgs) = [C EXCEPT ![p] = [b \in Seats |-> IF b = p THEN @[b] ELSE @[b] \cup new(b)]]
  BY DEF SendAll
<1>3. SendAll(C, p, msgs) \in CtlType
  BY <1>1, <1>2 DEF CtlType
<1>4. \A a, b \in Seats :
        SendAll(C, p, msgs)[a][b] = IF a = p /\ b # p THEN C[a][b] \cup new(b) ELSE C[a][b]
  BY DEF SendAll, CtlType
<1>. QED  BY <1>1, <1>3, <1>4

(* A delivered or lost message is the only one taken. *)
LEMMA TakenFacts ==
  ASSUME ctl \in CtlType, NEW q \in Seats, NEW p \in Seats, NEW e
  PROVE  /\ Taken(q, p, e) \in CtlType
         /\ \A a, b \in Seats : \A f \in Taken(q, p, e)[a][b] : f \in ctl[a][b]
BY DEF Taken, CtlType

(* Checksums computed are kept, so a difference is never undone. *)
LEMMA LocalGrows ==
  ASSUME TypeOK, NEW p \in Seats, NEW c \in Cks, NextTick(local, p) < MaxTick,
         local' = [local EXCEPT ![p] = Append(@, c)]
  PROVE  /\ local' \in [Seats -> Seq(Cks)]
         /\ NextTick(local, p) \in Ticks
         /\ \A q \in Seats :
              NextTick(local', q) = IF q = p THEN NextTick(local, q) + 1 ELSE NextTick(local, q)
         /\ \A q \in Seats : \A t \in Nat :
              t < NextTick(local, q) => LocalCk(local', q, t) = LocalCk(local, q, t)
         /\ LocalCk(local', p, NextTick(local, p)) = c
<1>1. \A q \in Seats : local[q] \in Seq(Cks) /\ Len(local[q]) \in Nat
  BY DEF TypeOK
<1>2. \A q \in Seats : local'[q] = IF q = p THEN Append(local[q], c) ELSE local[q]
  BY DEF TypeOK
<1>3. Append(local[p], c) \in Seq(Cks) /\ Len(Append(local[p], c)) = Len(local[p]) + 1
  BY <1>1
<1>4. \A t \in Nat : t < Len(local[p]) => Append(local[p], c)[t + 1] = local[p][t + 1]
  BY <1>1
<1>5. Append(local[p], c)[Len(local[p]) + 1] = c
  BY <1>1
<1>6. local' \in [Seats -> Seq(Cks)]
  BY <1>1, <1>3 DEF TypeOK
<1>7. NextTick(local, p) \in Ticks
  BY <1>1, MatchCtlAssumption DEF NextTick, Ticks
<1>. QED  BY <1>1, <1>2, <1>3, <1>4, <1>5, <1>6, <1>7 DEF NextTick, LocalCk

(* Initially nothing has run and nothing is on its way. *)
LEMMA InitInv == Init => IInv
<1>. SUFFICES ASSUME Init PROVE IInv
  OBVIOUS
<1>1. TypeOK
  BY MatchCtlAssumption DEF Init, TypeOK
<1>2. CkInv /\ DesyncInv /\ SeenInv
  BY DEF Init, CkInv, DesyncInv, SeenInv
<1>3. RemoteInv
  BY DEF Init, RemoteInv
<1>4. NoFalseDesync
  BY DEF Init, NoFalseDesync
<1>5. \A p \in Seats, t \in Ticks : ~(t < NextTick(local, p))
  BY DEF Init, NextTick, Ticks
<1>6. NoSilentDivergence
  BY <1>5 DEF NoSilentDivergence, Differ
<1>. QED  BY <1>1, <1>2, <1>3, <1>4, <1>6 DEF IInv

(* What a slice that runs a tick keeps. *)
LEMMA RunTickInv ==
  ASSUME IInv, NEW p \in Seats, NEW c \in Cks, RunTick(p, c)
  PROVE  IInv'
<1>. DEFINE t == NextTick(local, p)
            differs == remote[p][t] \notin {NoCk, c}
            msgs == IF differs THEN {Ck(t, c), Desync} ELSE {Ck(t, c)}
<1>0. TypeOK /\ CkInv /\ RemoteInv /\ SeenInv /\ DesyncInv /\ NoFalseDesync /\ NoSilentDivergence
  BY DEF IInv
<1>1. /\ t < MaxTick
      /\ local' = [local EXCEPT ![p] = Append(@, c)]
      /\ desynced' = IF differs THEN desynced \cup {p} ELSE desynced
      /\ ctl' = SendAll(ctl, p, msgs)
      /\ UNCHANGED <<remote, dropped, link, seen>>
  BY DEF RunTick
<1>2. /\ local' \in [Seats -> Seq(Cks)]
      /\ t \in Ticks
      /\ \A q \in Seats : NextTick(local', q) = IF q = p THEN t + 1 ELSE NextTick(local, q)
      /\ \A q \in Seats : \A s \in Nat :
           s < NextTick(local, q) => LocalCk(local', q, s) = LocalCk(local, q, s)
      /\ LocalCk(local', p, t) = c
  BY <1>0, <1>1, LocalGrows
<1>3. \A q \in Seats : NextTick(local, q) \in Nat /\ NextTick(local, q) <= MaxTick
  BY <1>0 DEF TypeOK, NextTick
<1>4. msgs \in SUBSET Msgs
  BY <1>2 DEF Msgs
<1>5. ctl \in CtlType
  BY <1>0 DEF TypeOK, CtlType
<1>6. /\ ctl' \in CtlType
      /\ \A a, b \in Seats : \A e \in ctl'[a][b] :
           e \in ctl[a][b] \/ (a = p /\ b # p /\ e.msg \in msgs)
  BY <1>1, <1>4, <1>5, SendAllFacts
<1>7. \A q \in Seats : \A s \in Nat :
        s < NextTick(local, q) => s < NextTick(local', q) /\ LocalCk(local', q, s) = LocalCk(local, q, s)
  BY <1>2, <1>3
<1>8. Ticks \subseteq Nat
  BY DEF Ticks
<1>9. TypeOK'
  <2>1. \A q \in Seats : Len(local'[q]) <= MaxTick
    BY <1>1, <1>2, <1>3, MatchCtlAssumption DEF NextTick
  <2>. QED  BY <2>1, <1>0, <1>1, <1>2, <1>6 DEF TypeOK, CtlType
<1>. HIDE DEF t, differs, msgs
<1>10. CkInv'
  <2>. SUFFICES ASSUME NEW a \in Seats, NEW b \in Seats, NEW e \in ctl'[a][b]
                PROVE  /\ a # b
                       /\ e.msg.t = "ck" => /\ e.msg.tick < NextTick(local', a)
                                            /\ e.msg.ck = LocalCk(local', a, e.msg.tick)
    BY DEF CkInv
  <2>1. CASE e \in ctl[a][b]
    <3>1. e.msg.t = "ck" => e.msg.tick \in Nat
      <4>1. e.msg \in Msgs
        BY <2>1, <1>0 DEF TypeOK, Envelopes
      <4>. QED  BY <4>1, <1>8 DEF Msgs, Ck, Bye, Desync
    <3>. QED  BY <2>1, <3>1, <1>0, <1>7 DEF CkInv
  <2>2. CASE a = p /\ b # p /\ e.msg \in msgs
    <3>1. e.msg = Ck(t, c) \/ e.msg = Desync
      BY <2>2 DEF msgs
    <3>. QED  BY <2>2, <3>1, <1>2, <1>3, <1>8 DEF Ck, Desync
  <2>. QED  BY <2>1, <2>2, <1>6
<1>11. RemoteInv'
  <2>. SUFFICES ASSUME NEW a \in Seats, NEW s \in Ticks, remote[a][s] # NoCk
                PROVE  \E q \in Seats \ {a} :
                         s < NextTick(local', q) /\ LocalCk(local', q, s) = remote[a][s]
    BY <1>1 DEF RemoteInv
  <2>1. PICK q \in Seats \ {a} : s < NextTick(local, q) /\ LocalCk(local, q, s) = remote[a][s]
    BY <1>0 DEF RemoteInv
  <2>. QED  BY <2>1, <1>7, <1>8
<1>12. NoFalseDesync'
  <2>1. CASE differs
    <3>1. remote[p][t] # NoCk /\ remote[p][t] # c
      BY <2>1 DEF differs
    <3>2. PICK q \in Seats \ {p} : t < NextTick(local, q) /\ LocalCk(local, q, t) = remote[p][t]
      BY <3>1, <1>0, <1>2 DEF RemoteInv
    <3>3. Differ(local', p, q, t)
      BY <3>1, <3>2, <1>2, <1>3, <1>8 DEF Differ
    <3>. QED  BY <3>3, <1>2 DEF NoFalseDesync
  <2>2. CASE ~differs
    <3>1. \A a, b \in Seats, s \in Ticks : Differ(local, a, b, s) => Differ(local', a, b, s)
      BY <1>7, <1>8 DEF Differ
    <3>. QED  BY <3>1, <2>2, <1>0, <1>1 DEF NoFalseDesync
  <2>. QED  BY <2>1, <2>2
<1>13. DesyncInv'
  <2>1. CASE differs
    BY <2>1, <1>1 DEF DesyncInv
  <2>2. CASE ~differs
    <3>1. \A a, b \in Seats : \A e \in ctl'[a][b] : e.msg.t = "desync" => e \in ctl[a][b]
      BY <2>2, <1>6 DEF msgs, Ck
    <3>. QED  BY <3>1, <2>2, <1>0, <1>1 DEF DesyncInv
  <2>. QED  BY <2>1, <2>2
<1>14. SeenInv'
  <2>. SUFFICES ASSUME NEW a \in Seats, NEW b \in Seats, NEW s \in seen[a][b]
                PROVE  s < NextTick(local', b)
    BY <1>1 DEF SeenInv
  <2>1. seen \in [Seats -> [Seats -> SUBSET Ticks]]
    BY <1>0 DEF TypeOK
  <2>2. s \in Nat /\ s < NextTick(local, b)
    BY <2>1, <1>0, <1>8 DEF SeenInv
  <2>. QED  BY <2>2, <1>7
<1>15. NoSilentDivergence'
  <2>. SUFFICES ASSUME NEW a \in Seats, NEW b \in Seats, NEW s \in Ticks,
                       Differ(local', a, b, s), s \in seen[a][b], s \in seen[b][a]
                PROVE  a \in desynced' \/ b \in desynced'
    BY <1>1 DEF NoSilentDivergence
  <2>1. s < NextTick(local, a) /\ s < NextTick(local, b)
    BY <1>0 DEF SeenInv
  <2>2. Differ(local, a, b, s)
    BY <2>1, <1>7, <1>8 DEF Differ
  <2>. QED  BY <2>2, <1>0, <1>1 DEF NoSilentDivergence
<1>. QED  BY <1>9, <1>10, <1>11, <1>12, <1>13, <1>14, <1>15 DEF IInv

(* Fewer messages on their way, or links that change, disturb nothing. *)
LEMMA FewerInv ==
  ASSUME IInv, UNCHANGED <<local, remote, desynced, seen>>, dropped' \in SUBSET Seats,
         link' \in LinkType, ctl' \in CtlType,
         \A a, b \in Seats : ctl'[a][b] \subseteq ctl[a][b]
  PROVE  IInv'
<1>1. TypeOK'
  BY DEF IInv, TypeOK, CtlType, LinkType
<1>2. CkInv' /\ DesyncInv'
  BY DEF IInv, CkInv, DesyncInv
<1>3. RemoteInv' /\ SeenInv' /\ NoFalseDesync' /\ NoSilentDivergence'
  BY DEF IInv, RemoteInv, SeenInv, NoFalseDesync, NoSilentDivergence
<1>. QED  BY <1>1, <1>2, <1>3 DEF IInv

(* Saying bye, after at most one message was taken, leaves the checksums    *)
(* alone.  Drop, HostLost and ReceiveBye share this.                        *)
LEMMA EndInv ==
  ASSUME IInv, UNCHANGED <<local, remote, desynced, seen>>, NEW p \in Seats,
         NEW C \in CtlType, \A a, b \in Seats : C[a][b] \subseteq ctl[a][b], End(C, p)
  PROVE  IInv'
<1>1. /\ dropped' = dropped \cup {p}
      /\ ctl' = SendAll(C, p, {Bye})
      /\ link' = Closed(p)
  BY DEF End
<1>2. {Bye} \in SUBSET Msgs
  BY DEF Msgs
<1>3. /\ ctl' \in CtlType
      /\ \A a, b \in Seats : \A e \in ctl'[a][b] :
           e \in ctl[a][b] \/ (a = p /\ b # p /\ e.msg = Bye)
  BY <1>1, <1>2, SendAllFacts
<1>4. link' \in LinkType
  BY <1>1 DEF IInv, TypeOK, LinkType, Closed
<1>5. TypeOK'
  BY <1>1, <1>3, <1>4 DEF IInv, TypeOK, CtlType, LinkType
<1>6. CkInv'
  <2>. SUFFICES ASSUME NEW a \in Seats, NEW b \in Seats, NEW e \in ctl'[a][b]
                PROVE  /\ a # b
                       /\ e.msg.t = "ck" => /\ e.msg.tick < NextTick(local, a)
                                            /\ e.msg.ck = LocalCk(local, a, e.msg.tick)
    BY DEF CkInv
  <2>1. CASE e \in ctl[a][b]
    BY <2>1 DEF IInv, CkInv
  <2>2. CASE a = p /\ b # p /\ e.msg = Bye
    BY <2>2 DEF Bye
  <2>. QED  BY <2>1, <2>2, <1>3
<1>7. DesyncInv'
  <2>1. \A a, b \in Seats : \A e \in ctl'[a][b] : e.msg.t = "desync" => e \in ctl[a][b]
    BY <1>3 DEF Bye
  <2>. QED  BY <2>1 DEF IInv, DesyncInv
<1>8. RemoteInv' /\ SeenInv' /\ NoFalseDesync' /\ NoSilentDivergence'
  BY DEF IInv, RemoteInv, SeenInv, NoFalseDesync, NoSilentDivergence
<1>. QED  BY <1>5, <1>6, <1>7, <1>8 DEF IInv

(* A wait, or the host's link, that ends a match. *)
LEMMA DropInv ==
  ASSUME IInv, NEW p \in Seats, Drop(p) \/ HostLost(p)
  PROVE  IInv'
<1>1. End(ctl, p) /\ UNCHANGED <<local, remote, desynced, seen>>
  BY DEF Drop, HostLost
<1>2. ctl \in CtlType
  BY DEF IInv, TypeOK, CtlType
<1>. QED  BY <1>1, <1>2, EndInv

(* A link that opens or breaks carries no checksum by itself. *)
LEMMA LinkInv ==
  ASSUME IInv, NEW l \in Links, Connect(l) \/ Break(l)
  PROVE  IInv'
<1>1. /\ UNCHANGED <<local, remote, desynced, seen, dropped, ctl>>
      /\ \E s \in {"up", "down"} : link' = [link EXCEPT ![l] = s]
  BY DEF Connect, Break
<1>2. link' \in LinkType /\ ctl' \in CtlType /\ dropped' \in SUBSET Seats
  BY <1>1 DEF IInv, TypeOK, LinkType, CtlType
<1>. QED  BY <1>1, <1>2, FewerInv

(* A bye that arrives ends a session that has not ended. *)
LEMMA ReceiveByeInv ==
  ASSUME IInv, NEW p \in Seats, NEW q \in Seats, NEW e \in ctl[q][p], ReceiveBye(p, q, e)
  PROVE  IInv'
<1>1. ctl \in CtlType /\ link \in LinkType /\ dropped \in SUBSET Seats
  BY DEF IInv, TypeOK, CtlType, LinkType
<1>2. /\ Taken(q, p, e) \in CtlType
      /\ \A a, b \in Seats : Taken(q, p, e)[a][b] \subseteq ctl[a][b]
  BY <1>1, TakenFacts
<1>3. UNCHANGED <<local, remote, desynced, seen>>
  BY DEF ReceiveBye
<1>4. CASE ctl' = Taken(q, p, e) /\ UNCHANGED <<dropped, link>>
  BY <1>1, <1>2, <1>3, <1>4, FewerInv
<1>5. CASE End(Taken(q, p, e), p)
  BY <1>2, <1>3, <1>5, EndInv
<1>. QED  BY <1>4, <1>5 DEF ReceiveBye

(* A desync that arrives tells of a difference that exists. *)
LEMMA ReceiveDesyncInv ==
  ASSUME IInv, NEW p \in Seats, NEW q \in Seats, NEW e \in ctl[q][p], ReceiveDesync(p, q, e)
  PROVE  IInv'
<1>. DEFINE C == Taken(q, p, e)
<1>1. /\ e.msg.t = "desync"
      /\ desynced' = desynced \cup {p}
      /\ ctl' = SendAll(C, p, {Desync})
      /\ UNCHANGED <<local, remote, dropped, link, seen>>
  BY DEF ReceiveDesync
<1>2. ctl \in CtlType /\ {Desync} \in SUBSET Msgs
  BY DEF IInv, TypeOK, CtlType, Msgs
<1>3. C \in CtlType /\ \A a, b \in Seats : C[a][b] \subseteq ctl[a][b]
  BY <1>2, TakenFacts
<1>. HIDE DEF C
<1>4. /\ ctl' \in CtlType
      /\ \A a, b \in Seats : \A f \in ctl'[a][b] :
           f \in ctl[a][b] \/ (a = p /\ b # p /\ f.msg = Desync)
  BY <1>1, <1>2, <1>3, SendAllFacts
<1>5. TypeOK'
  BY <1>1, <1>4 DEF IInv, TypeOK, CtlType
<1>6. CkInv'
  <2>. SUFFICES ASSUME NEW a \in Seats, NEW b \in Seats, NEW f \in ctl'[a][b]
                PROVE  /\ a # b
                       /\ f.msg.t = "ck" => /\ f.msg.tick < NextTick(local, a)
                                            /\ f.msg.ck = LocalCk(local, a, f.msg.tick)
    BY <1>1 DEF CkInv
  <2>1. CASE f \in ctl[a][b]
    BY <2>1 DEF IInv, CkInv
  <2>2. CASE a = p /\ b # p /\ f.msg = Desync
    BY <2>2 DEF Desync
  <2>. QED  BY <2>1, <2>2, <1>4
<1>7. DesyncInv'
  BY <1>1 DEF DesyncInv
<1>8. NoFalseDesync'
  BY <1>1 DEF IInv, NoFalseDesync, DesyncInv
<1>9. RemoteInv' /\ SeenInv' /\ NoSilentDivergence'
  BY <1>1 DEF IInv, RemoteInv, SeenInv, NoSilentDivergence
<1>. QED  BY <1>5, <1>6, <1>7, <1>8, <1>9 DEF IInv

(* A checksum that arrives after its tick was run is compared with the      *)
(* peer's own; one that arrives before is only remembered, and the sender   *)
(* cannot have been told the peer's own, which does not exist yet.          *)
LEMMA ReceiveCkInv ==
  ASSUME IInv, NEW p \in Seats, NEW q \in Seats, NEW e \in ctl[q][p], ReceiveCk(p, q, e)
  PROVE  IInv'
<1>0. TypeOK /\ CkInv /\ RemoteInv /\ SeenInv /\ DesyncInv /\ NoFalseDesync /\ NoSilentDivergence
  BY DEF IInv
<1>. DEFINE C == Taken(q, p, e)
            t == e.msg.tick
            differs == t < NextTick(local, p) /\ LocalCk(local, p, t) # e.msg.ck
            msgs == {Desync}
<1>1. /\ e.msg.t = "ck"
      /\ remote' = [remote EXCEPT ![p][t] = e.msg.ck]
      /\ desynced' = IF differs THEN desynced \cup {p} ELSE desynced
      /\ ctl' = IF differs THEN SendAll(C, p, msgs) ELSE C
      /\ seen' = [seen EXCEPT ![p][q] = @ \cup {t}]
      /\ UNCHANGED <<local, dropped, link>>
  BY DEF ReceiveCk
<1>2. ctl \in CtlType
  BY <1>0 DEF TypeOK, CtlType
<1>3. /\ C \in CtlType
      /\ \A a, b \in Seats : C[a][b] \subseteq ctl[a][b]
  BY <1>2, TakenFacts
<1>4. /\ q # p
      /\ t \in Ticks /\ e.msg.ck \in Cks
      /\ t < NextTick(local, q)
      /\ e.msg.ck = LocalCk(local, q, t)
  <2>1. e.msg \in Msgs
    BY <1>0 DEF TypeOK, Envelopes
  <2>2. t \in Ticks /\ e.msg.ck \in Cks
    BY <2>1, <1>1 DEF Msgs, Ck, Bye, Desync
  <2>. QED  BY <2>2, <1>0, <1>1 DEF CkInv
<1>5. Ticks \subseteq Nat
  BY DEF Ticks
<1>. HIDE DEF C, t, differs, msgs
<1>6. /\ ctl' \in CtlType
      /\ \A a, b \in Seats : \A f \in ctl'[a][b] :
           f \in C[a][b] \/ (a = p /\ b # p /\ differs /\ f.msg = Desync)
  <2>1. CASE differs
    <3>1. msgs \in SUBSET Msgs
      BY DEF msgs, Msgs
    <3>2. \A m \in msgs : m = Desync
      BY DEF msgs
    <3>. QED  BY <3>1, <3>2, <2>1, <1>1, <1>3, SendAllFacts
  <2>2. CASE ~differs
    BY <2>2, <1>1, <1>3
  <2>. QED  BY <2>1, <2>2
<1>7. \A a \in Seats, s \in Ticks :
        remote'[a][s] = IF a = p /\ s = t THEN e.msg.ck ELSE remote[a][s]
  BY <1>0, <1>1, <1>4 DEF TypeOK
<1>8. TypeOK'
  <2>1. remote' \in [Seats -> [Ticks -> Cks \cup {NoCk}]]
    BY <1>0, <1>1, <1>4 DEF TypeOK
  <2>2. seen' \in [Seats -> [Seats -> SUBSET Ticks]]
    BY <1>0, <1>1, <1>4 DEF TypeOK
  <2>. QED  BY <2>1, <2>2, <1>0, <1>1, <1>6 DEF TypeOK, CtlType
<1>9. CkInv'
  <2>. SUFFICES ASSUME NEW a \in Seats, NEW b \in Seats, NEW f \in ctl'[a][b]
                PROVE  /\ a # b
                       /\ f.msg.t = "ck" => /\ f.msg.tick < NextTick(local, a)
                                            /\ f.msg.ck = LocalCk(local, a, f.msg.tick)
    BY <1>1 DEF CkInv
  <2>1. CASE f \in C[a][b]
    BY <2>1, <1>0, <1>3 DEF CkInv
  <2>2. CASE a = p /\ b # p /\ f.msg = Desync
    BY <2>2 DEF Desync
  <2>. QED  BY <2>1, <2>2, <1>6
<1>10. RemoteInv'
  <2>. SUFFICES ASSUME NEW a \in Seats, NEW s \in Ticks, remote'[a][s] # NoCk
                PROVE  \E b \in Seats \ {a} :
                         s < NextTick(local, b) /\ LocalCk(local, b, s) = remote'[a][s]
    BY <1>1 DEF RemoteInv
  <2>1. CASE a = p /\ s = t
    BY <2>1, <1>4, <1>7
  <2>2. CASE ~(a = p /\ s = t)
    BY <2>2, <1>0, <1>7 DEF RemoteInv
  <2>. QED  BY <2>1, <2>2
<1>11. differs => Differ(local, p, q, t)
  BY <1>4 DEF differs, Differ
<1>12. NoFalseDesync'
  BY <1>0, <1>1, <1>4, <1>11 DEF NoFalseDesync
<1>13. DesyncInv'
  <2>1. CASE differs
    BY <2>1, <1>1 DEF DesyncInv
  <2>2. CASE ~differs
    BY <2>2, <1>0, <1>1, <1>3, <1>6 DEF DesyncInv
  <2>. QED  BY <2>1, <2>2
<1>14. \A a, b \in Seats : \A s \in seen'[a][b] :
         s \in seen[a][b] \/ (a = p /\ b = q /\ s = t)
  BY <1>0, <1>1 DEF TypeOK
<1>15. SeenInv'
  BY <1>0, <1>1, <1>4, <1>14 DEF SeenInv
<1>16. NoSilentDivergence'
  <2>. SUFFICES ASSUME NEW a \in Seats, NEW b \in Seats, NEW s \in Ticks,
                       Differ(local, a, b, s), s \in seen'[a][b], s \in seen'[b][a]
                PROVE  a \in desynced' \/ b \in desynced'
    BY <1>1 DEF NoSilentDivergence
  <2>1. Differ(local, q, p, t) => p \in desynced'
    BY <1>1, <1>4 DEF Differ, differs
  <2>2. Differ(local, b, a, s)
    BY DEF Differ
  <2>. QED  BY <2>1, <2>2, <1>0, <1>1, <1>14 DEF NoSilentDivergence
<1>. QED  BY <1>8, <1>9, <1>10, <1>12, <1>13, <1>15, <1>16 DEF IInv

(* Losing a message makes no checksum known. *)
LEMMA LoseInv ==
  ASSUME IInv, NEW p \in Seats, NEW q \in Seats, Lose(p, q)
  PROVE  IInv'
<1>1. PICK e \in ctl[q][p] :
        /\ ctl' = Taken(q, p, e)
        /\ UNCHANGED <<local, remote, desynced, dropped, link, seen>>
  BY DEF Lose
<1>2. ctl \in CtlType /\ link' \in LinkType /\ dropped' \in SUBSET Seats
  BY <1>1 DEF IInv, TypeOK, CtlType, LinkType
<1>. QED  BY <1>1, <1>2, TakenFacts, FewerInv

(* Every reachable state satisfies the inductive invariant. *)
THEOREM Invariant == Spec => []IInv
<1>1. IInv /\ [Next]_vars => IInv'
  <2>. SUFFICES ASSUME IInv, [Next]_vars PROVE IInv'
    OBVIOUS
  <2>1. CASE Next
    <3>1. CASE \E p \in Seats, c \in Cks : RunTick(p, c)
      BY <3>1, RunTickInv
    <3>2. CASE \E p \in Seats : Drop(p) \/ HostLost(p)
      BY <3>2, DropInv
    <3>3. CASE \E p, q \in Seats : Receive(p, q)
      BY <3>3, ReceiveCkInv, ReceiveByeInv, ReceiveDesyncInv DEF Receive
    <3>4. CASE \E p, q \in Seats : Lose(p, q)
      BY <3>4, LoseInv
    <3>5. CASE \E l \in Links : Connect(l) \/ Break(l)
      BY <3>5, LinkInv
    <3>. QED  BY <2>1, <3>1, <3>2, <3>3, <3>4, <3>5 DEF Next
  <2>2. CASE UNCHANGED vars
    BY <2>2 DEF vars, IInv, TypeOK, CkInv, RemoteInv, SeenInv, DesyncInv, NoFalseDesync, NoSilentDivergence
  <2>. QED  BY <2>1, <2>2
<1>. QED  BY <1>1, InitInv, PTL DEF Spec

(* A match ends with DESYNC only if two simulations of a tick differed.     *)
THEOREM NoFalseDesyncHolds == Spec => []NoFalseDesync
<1>1. IInv => NoFalseDesync
  BY DEF IInv
<1>. QED  BY <1>1, Invariant, PTL

(* Of two peers whose simulations of a tick differ one has halted once each *)
(* was told the other's checksum, for any number of peers and any loss.     *)
THEOREM NoSilentDivergenceHolds == Spec => []NoSilentDivergence
<1>1. IInv => NoSilentDivergence
  BY DEF IInv
<1>. QED  BY <1>1, Invariant, PTL
===============================================================================
