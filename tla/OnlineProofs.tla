------------------------------ MODULE OnlineProofs -----------------------------
(***************************************************************************)
(* What is proved of what lies about a match: that no session gives up     *)
(* early (StallTimer), that the server's limits are kept (Limits), that a  *)
(* page and its peers come together (Boot, Mesh), that the peers agree on  *)
(* the seats of their match (Lobby), that both programs read a config as   *)
(* it was meant (Config), that both pad rings say the same (TwoRings), and *)
(* that a pad comes over the wire as it was sent (Wire).                   *)
(***************************************************************************)
EXTENDS Online, FiniteSetTheorems, SequenceTheorems, TLAPS

-------------------------------------------------------------------------------
(* The wait for a pad.                                                     *)

(* A wait never started before the last tick was run. *)
WaitInv ==
  /\ wait \in Times \cup {NotWaiting}
  /\ quiet \in Times
  /\ wait # NotWaiting => wait <= quiet

(* waitSince is never earlier than the last run tick. *)
THEOREM WaitInvHolds == StallSpec => []WaitInv
<1>1. StallInit => WaitInv
  <2>1. StallInit => wait = NotWaiting /\ quiet = 0
    BY DEF StallInit
  <2>. QED  BY <2>1, StallTimerAssumption DEF WaitInv, Times
<1>2. WaitInv /\ [StallNext]_stallVars => WaitInv'
  <2>. SUFFICES ASSUME WaitInv, [StallNext]_stallVars PROVE WaitInv'
    OBVIOUS
  <2>1. CASE Pass
    <3>1. /\ wait' = IF wait = NotWaiting THEN NotWaiting ELSE Older(wait)
          /\ quiet' = Older(quiet)
      BY <2>1 DEF Pass
    <3>. QED  BY <3>1, StallTimerAssumption DEF WaitInv, Times, Older
  <2>2. CASE RunSlice
    <3>1. wait' = NotWaiting /\ quiet' = 0
      BY <2>2 DEF RunSlice
    <3>. QED  BY <3>1, StallTimerAssumption DEF WaitInv, Times
  <2>3. CASE WaitSlice
    <3>1. wait' = Waited /\ quiet' = quiet
      BY <2>3 DEF WaitSlice
    <3>. QED  BY <3>1, StallTimerAssumption DEF WaitInv, Times, Waited
  <2>4. CASE UNCHANGED <<wait, quiet>>
    BY <2>4 DEF WaitInv
  <2>. QED  BY <2>1, <2>2, <2>3, <2>4
            DEF StallNext, VisibleSlice, HiddenSlice, EndMatch, Arrive, stallVars
<1>. QED  BY <1>1, <1>2, PTL DEF StallSpec

(* The timer keeps its types. *)
THEOREM StallTypes == StallSpec => []StallTypeOK
<1>1. StallInit => StallTypeOK
  <2>1. 0 \in Times /\ "" \in Overlays
    BY StallTimerAssumption DEF Times, Overlays
  <2>. QED  BY <2>1 DEF StallInit, StallTypeOK
<1>2. StallTypeOK /\ [StallNext]_stallVars => StallTypeOK'
  <2>. SUFFICES ASSUME StallTypeOK, [StallNext]_stallVars PROVE StallTypeOK'
    OBVIOUS
  <2>1. \A t \in Times : Older(t) \in Times
    BY StallTimerAssumption DEF Times, Older
  <2>2. 0 \in Times /\ Waited \in Times
    BY StallTimerAssumption DEF StallTypeOK, Times, Waited
  <2>3. CASE Pass
    BY <2>1, <2>3 DEF Pass, StallTypeOK
  <2>4. CASE HiddenSlice
    BY <2>4 DEF HiddenSlice, StallTypeOK, Overlays, Waiting
  <2>5. CASE RunSlice
    BY <2>2, <2>5 DEF RunSlice, StallTypeOK, Overlays, Waiting
  <2>6. CASE WaitSlice
    BY <2>2, <2>6 DEF WaitSlice, StallTypeOK, Overlays, Waiting
  <2>7. CASE EndMatch
    BY <2>7 DEF EndMatch, StallTypeOK, Overlays
  <2>8. ASSUME NEW complete \in BOOLEAN, Arrive(complete) PROVE StallTypeOK'
    BY <2>8 DEF Arrive, StallTypeOK
  <2>9. CASE UNCHANGED stallVars
    BY <2>9 DEF stallVars, StallTypeOK
  <2>. QED  BY <2>3, <2>4, <2>5, <2>6, <2>7, <2>8, <2>9 DEF StallNext, VisibleSlice
<1>. QED  BY <1>1, <1>2, PTL DEF StallSpec

(* No session gives up before its limit, for any three limits. *)
THEOREM DropIsLateHolds == StallSpec => DropIsLate
<1>1. WaitInv /\ [StallNext]_stallVars => [dropped' /\ WaitSlice => quiet >= Limit]_stallVars
  <2>. SUFFICES ASSUME WaitInv, dropped', WaitSlice PROVE quiet >= Limit
    OBVIOUS
  <2>1. ~dropped /\ (dropped' = dropped \/ Waited >= Limit)
    BY DEF WaitSlice
  <2>2. Waited >= Limit
    BY <2>1
  <2>. QED  BY <2>2, StallTimerAssumption DEF WaitInv, Times, Waited, Limit
<1>. QED  BY <1>1, WaitInvHolds, PTL DEF StallSpec, DropIsLate

(* No player sits before a waiting banner while ticks run. *)
THEOREM BannerMeansStalledHolds == StallSpec => []BannerMeansStalled
<1>1. StallInit => BannerMeansStalled
  BY DEF StallInit, BannerMeansStalled, Waiting
<1>2. BannerMeansStalled /\ [StallNext]_stallVars => BannerMeansStalled'
  <2>. SUFFICES ASSUME BannerMeansStalled, [StallNext]_stallVars PROVE BannerMeansStalled'
    OBVIOUS
  <2>1. CASE HiddenSlice
    BY <2>1 DEF HiddenSlice, BannerMeansStalled
  <2>2. CASE RunSlice
    BY <2>2 DEF RunSlice, BannerMeansStalled, Waiting
  <2>3. CASE WaitSlice
    <3>1. \/ UNCHANGED <<stalled, overlay>>
          \/ stalled' = TRUE
          \/ overlay' \in {"left", "no connection"}
      BY <2>3 DEF WaitSlice
    <3>. QED  BY <3>1 DEF BannerMeansStalled, Waiting
  <2>4. CASE EndMatch
    BY <2>4 DEF EndMatch, BannerMeansStalled, Waiting
  <2>5. CASE UNCHANGED <<stalled, overlay>>
    BY <2>5 DEF BannerMeansStalled
  <2>. QED  BY <2>1, <2>2, <2>3, <2>4, <2>5 DEF StallNext, VisibleSlice, Pass, Arrive, stallVars
<1>. QED  BY <1>1, <1>2, PTL DEF StallSpec

-------------------------------------------------------------------------------
(* The request log.                                                        *)

(* What is still in the window is in the log. *)
LogInv ==
  /\ now \in Clock /\ IsFiniteSet(granted)
  /\ \A h \in granted : h.at \in 1 .. now
  /\ hits \subseteq granted /\ \A h \in granted : now - h.at < Window => h \in hits
  /\ SlidingLimit

LEMMA WithinIs ==
  ASSUME LogInv, NEW t \in Clock
  PROVE  IsFiniteSet(Within(t)) /\ Cardinality(Within(t)) \in Nat
<1>1. Within(t) \in SUBSET granted BY DEF Within
<1>2. IsFiniteSet(Within(t)) BY <1>1, FS_Subset DEF LogInv
<1> QED BY <1>2, FS_CardinalityType

(* A window that ends now, or would later on, holds the pruned log. *)
LEMMA PrunedIs ==
  ASSUME LogInv
  PROVE  /\ IsFiniteSet(Pruned) /\ Cardinality(Pruned) \in Nat
         /\ Pruned = Within(now)
         /\ \A t \in Clock : t >= now => Within(t) \subseteq Pruned
<1>1. now \in Nat /\ Window \in Nat BY LimitsAssumption DEF LogInv, Clock
<1>2. \A h \in granted : h.at \in Nat /\ h.at <= now BY <1>1 DEF LogInv
<1>3. Pruned = Within(now) BY <1>1, <1>2 DEF LogInv, Pruned, Within
<1>4. ASSUME NEW t \in Clock, t >= now PROVE Within(t) \subseteq Pruned
  <2>1. t \in Nat BY DEF Clock
  <2> QED BY <1>1, <1>2, <1>4, <2>1 DEF LogInv, Pruned, Within
<1>5. now \in Clock BY DEF LogInv
<1> QED BY <1>3, <1>4, <1>5, WithinIs

LEMMA RequestKeepsLog == ASSUME LogInv, Request PROVE LogInv'
<1> DEFINE hit == [at |-> now, nr |-> Cardinality(granted) + 1]
<1>1. now \in Nat /\ now \in Clock /\ Window \in Nat \ {0} BY LimitsAssumption DEF LogInv, Clock
<1>2. now' = now BY DEF Request
<1>3. \/ hits' = Pruned /\ granted' = granted
      \/ hits' = Pruned \cup {hit} /\ granted' = granted \cup {hit}
  BY DEF Request
<1>4. hit.at = now /\ (granted' # granted => Cardinality(Pruned) < RateLimit)
  BY PrunedIs, LimitsAssumption DEF Request, Refused
<1> HIDE DEF hit
<1>5. IsFiniteSet(granted') BY <1>3, FS_AddElement DEF LogInv
<1>6. \A h \in granted' : h.at \in 1 .. now
  <2>1. now \in 1 .. now BY <1>1 DEF Clock
  <2> QED BY <1>3, <1>4, <2>1 DEF LogInv
<1>7. hits' \subseteq granted' /\ \A h \in granted' : now - h.at < Window => h \in hits'
  BY <1>3 DEF LogInv, Pruned
<1>8. ASSUME NEW t \in Clock PROVE Cardinality(Within(t)') <= RateLimit
  <2>1. CASE granted' = granted BY <2>1 DEF LogInv, SlidingLimit, Within
  <2>2. CASE granted' = granted \cup {hit} /\ t < now
    <3>1. t \in Nat BY DEF Clock
    <3>2. Within(t)' = Within(t) BY <1>1, <1>4, <2>2, <3>1 DEF Within
    <3> QED BY <3>2 DEF LogInv, SlidingLimit
  <2>3. CASE granted' = granted \cup {hit} /\ granted' # granted /\ t >= now
    <3>1. Within(t)' \in SUBSET (Pruned \cup {hit}) BY <2>3, PrunedIs DEF Within
    <3>2. /\ IsFiniteSet(Pruned \cup {hit}) /\ Cardinality(Pruned \cup {hit}) \in Nat
          /\ Cardinality(Pruned \cup {hit}) <= Cardinality(Pruned) + 1
      <4>1. IsFiniteSet(Pruned) /\ Cardinality(Pruned) \in Nat BY PrunedIs
      <4>2. Cardinality(Pruned \cup {hit}) \in {Cardinality(Pruned), Cardinality(Pruned) + 1}
        BY <4>1, FS_AddElement
      <4>3. IsFiniteSet(Pruned \cup {hit}) BY <4>1, FS_AddElement
      <4> QED BY <4>1, <4>2, <4>3
    <3>3. IsFiniteSet(Within(t)') /\ Cardinality(Within(t)') <= Cardinality(Pruned \cup {hit})
      BY <3>1, <3>2, FS_Subset
    <3>4. Cardinality(Within(t)') \in Nat BY <3>3, FS_CardinalityType
    <3> QED BY <1>4, <2>3, <3>2, <3>3, <3>4, PrunedIs, LimitsAssumption
  <2>4. t \in Nat BY DEF Clock
  <2> QED BY <1>1, <1>3, <2>1, <2>2, <2>3, <2>4
<1>9. SlidingLimit' BY <1>8 DEF SlidingLimit
<1> QED BY <1>1, <1>2, <1>5, <1>6, <1>7, <1>9 DEF LogInv

THEOREM LogInvHolds == LimitsSpec => []LogInv
<1>1. LimitsInit => LogInv
  <2> SUFFICES ASSUME LimitsInit PROVE LogInv OBVIOUS
  <2>1. hits = {} /\ granted = {} /\ now \in Clock BY LimitsAssumption DEF LimitsInit, Clock
  <2>2. \A t \in Clock : Within(t) = {} BY <2>1 DEF Within
  <2>3. SlidingLimit BY <2>2, FS_EmptySet, LimitsAssumption DEF SlidingLimit
  <2> QED BY <2>1, <2>3, FS_EmptySet DEF LogInv
<1>2. LogInv /\ [LimitsNext]_limitVars => LogInv'
  <2> SUFFICES ASSUME LogInv, [LimitsNext]_limitVars PROVE LogInv' OBVIOUS
  <2>1. CASE ClockGoes
    <3>1. now' \in Clock /\ now' = now + 1 /\ now \in Nat
      BY <2>1, LimitsAssumption DEF ClockGoes, LogInv, Clock
    <3>2. hits' = hits /\ granted' = granted BY <2>1 DEF ClockGoes, rateVars
    <3>3. SlidingLimit' BY <3>2 DEF LogInv, SlidingLimit, Within
    <3>4. \A h \in granted : h.at \in 1 .. now' /\ (now' - h.at < Window => now - h.at < Window)
      BY <3>1, LimitsAssumption DEF LogInv
    <3> QED BY <3>1, <3>2, <3>3, <3>4 DEF LogInv
  <2>2. CASE Request BY <2>2, RequestKeepsLog
  <2>3. CASE UNCHANGED <<now, rateVars>>
    <3>1. now' = now /\ hits' = hits /\ granted' = granted BY <2>3 DEF rateVars
    <3> QED BY <3>1 DEF LogInv, SlidingLimit, Within
  <2> QED BY <2>1, <2>2, <2>3 DEF LimitsNext, Relay, limitVars, rateVars
<1> QED BY <1>1, <1>2, PTL DEF LimitsSpec

-------------------------------------------------------------------------------
(* The relay windows.                                                      *)

(* A window lets RelayLimit bytes through, none of them later than Second   *)
(* after it began; and at most as many were let through in the Second       *)
(* before it.                                                               *)
RelayIs(win, bytes, rel) ==
  /\ now \in Clock /\ win \in 0 .. now /\ bytes \in 0 .. RelayLimit
  /\ rel \in [0 .. MaxNow -> Nat]
  /\ \A s, t \in 0 .. MaxNow : s <= t => rel[s] <= rel[t]
  /\ \A t \in now .. MaxNow : rel[t] = rel[now]
  /\ win = 0 => \A t \in 0 .. MaxNow : rel[t] = 0
  /\ win > 0 =>
       /\ rel[now] = rel[win - 1] + bytes
       /\ \A t \in 0 .. MaxNow : t >= win + Second => rel[t] = rel[now]
       /\ \A s \in 0 .. MaxNow : s < win /\ win <= s + Second => rel[win - 1] <= rel[s] + RelayLimit
  /\ \A t \in Clock : rel[t] - rel[Before(t - Second)] <= 2 * RelayLimit
RelayInv == RelayIs(relayWin, relayBytes, relayed)

LEMMA ClockNumbers ==
  ASSUME now \in Clock
  PROVE  /\ now \in Nat /\ now > 0 /\ now \in 0 .. MaxNow /\ now - 1 \in 0 .. MaxNow
         /\ Second \in Nat /\ RelayLimit \in Nat /\ MaxNow \in Nat
         /\ \A t \in Clock : t \in 0 .. MaxNow /\ Before(t - Second) \in 0 .. MaxNow
                             /\ Before(t - Second) <= t /\ t <= Before(t - Second) + Second
BY LimitsAssumption DEF Clock, Before

LEMMA OpenedIs ==
  ASSUME NEW win, NEW bytes, NEW rel, RelayIs(win, bytes, rel), win = 0 \/ now - win > Second
  PROVE  RelayIs(now, 0, rel)
<1>1. /\ now \in Nat /\ now > 0 /\ now \in 0 .. MaxNow /\ now - 1 \in 0 .. MaxNow
      /\ Second \in Nat /\ RelayLimit \in Nat /\ MaxNow \in Nat
  BY ClockNumbers DEF RelayIs
<1>2. rel \in [0 .. MaxNow -> Nat] BY DEF RelayIs
<1>3. rel[now] = rel[now - 1]
  <2>1. CASE win = 0 BY <1>1, <2>1 DEF RelayIs
  <2>2. CASE win # 0
    <3>1. win \in Nat /\ win > 0 /\ now - 1 >= win + Second BY <1>1, <2>2 DEF RelayIs
    <3> QED BY <1>1, <3>1 DEF RelayIs
  <2> QED BY <2>1, <2>2
<1>4. ASSUME NEW t \in 0 .. MaxNow, t >= now + Second PROVE rel[t] = rel[now]
  <2>1. t \in now .. MaxNow BY <1>1, <1>4
  <2> QED BY <2>1 DEF RelayIs
<1>5. ASSUME NEW s \in 0 .. MaxNow, s < now, now <= s + Second
      PROVE  rel[now - 1] <= rel[s] + RelayLimit
  <2>1. CASE win = 0
    <3>1. rel[now - 1] = 0 /\ rel[s] = 0 BY <1>1, <2>1 DEF RelayIs
    <3> QED BY <1>1, <3>1
  <2>2. CASE win # 0
    <3>1. win \in Nat /\ win > 0 /\ win - 1 \in 0 .. MaxNow /\ win - 1 <= s
      BY <1>1, <1>5, <2>2 DEF RelayIs
    <3>2. rel[win - 1] <= rel[s] /\ rel[now] = rel[win - 1] + bytes /\ bytes \in 0 .. RelayLimit
      BY <3>1 DEF RelayIs
    <3>3. {rel[win - 1], rel[s], rel[now]} \subseteq Nat BY <1>1, <1>2, <3>1
    <3> QED BY <1>1, <1>3, <3>2, <3>3
  <2> QED BY <2>1, <2>2
<1>6. rel[now] = rel[now - 1] + 0
  <2>1. rel[now - 1] \in Nat BY <1>1, <1>2
  <2> QED BY <1>3, <2>1
<1>7. now \in 0 .. now /\ 0 \in 0 .. RelayLimit /\ now # 0 BY <1>1
<1> QED BY <1>4, <1>5, <1>6, <1>7 DEF RelayIs

LEMMA CountedIs ==
  ASSUME NEW win, NEW bytes, NEW rel, RelayIs(win, bytes, rel), win > 0, now - win <= Second,
         NEW n \in Nat, bytes + n <= RelayLimit
  PROVE  RelayIs(win, bytes + n, [t \in 0 .. MaxNow |-> IF t < now THEN rel[t] ELSE rel[t] + n])
<1> DEFINE more == [t \in 0 .. MaxNow |-> IF t < now THEN rel[t] ELSE rel[t] + n]
<1>1. /\ now \in Nat /\ now > 0 /\ now \in 0 .. MaxNow /\ now - 1 \in 0 .. MaxNow
      /\ Second \in Nat /\ RelayLimit \in Nat /\ MaxNow \in Nat
      /\ \A t \in Clock : t \in 0 .. MaxNow /\ Before(t - Second) \in 0 .. MaxNow
                          /\ Before(t - Second) <= t /\ t <= Before(t - Second) + Second
  BY ClockNumbers DEF RelayIs
<1>2. rel \in [0 .. MaxNow -> Nat] /\ win \in Nat /\ win > 0 /\ win <= now /\ win - 1 \in 0 .. MaxNow
      /\ bytes \in Nat
  BY <1>1 DEF RelayIs
<1>3. /\ \A t \in 0 .. MaxNow : t < now => more[t] = rel[t]
      /\ \A t \in 0 .. MaxNow : t >= now => more[t] = rel[t] + n
      /\ \A t \in 0 .. MaxNow : rel[t] \in Nat /\ more[t] \in Nat /\ rel[t] <= more[t]
  BY <1>1, <1>2
<1>4. more \in [0 .. MaxNow -> Nat] BY <1>2
<1> HIDE DEF more
<1>5. \A s, t \in 0 .. MaxNow : s <= t => rel[s] <= rel[t] BY DEF RelayIs
<1>6. \A t \in now .. MaxNow : rel[t] = rel[now] BY DEF RelayIs
<1>7. /\ rel[now] = rel[win - 1] + bytes
      /\ \A t \in 0 .. MaxNow : t >= win + Second => rel[t] = rel[now]
      /\ \A s \in 0 .. MaxNow : s < win /\ win <= s + Second => rel[win - 1] <= rel[s] + RelayLimit
  BY <1>2 DEF RelayIs
<1>8. ASSUME NEW s \in 0 .. MaxNow, NEW t \in 0 .. MaxNow, s <= t PROVE more[s] <= more[t]
  <2>1. rel[s] <= rel[t] BY <1>5, <1>8
  <2> QED BY <1>1, <1>3, <1>8, <2>1
<1>9. ASSUME NEW t \in now .. MaxNow PROVE more[t] = more[now]
  <2>1. t \in 0 .. MaxNow /\ t >= now BY <1>1
  <2> QED BY <1>1, <1>3, <1>6, <2>1
<1>10. more[win - 1] = rel[win - 1] /\ more[now] = rel[now] + n
  <2>1. win - 1 < now BY <1>1, <1>2
  <2> QED BY <1>1, <1>2, <1>3, <2>1
<1>11. more[now] = more[win - 1] + (bytes + n) BY <1>1, <1>2, <1>3, <1>7, <1>10
<1>12. ASSUME NEW t \in 0 .. MaxNow, t >= win + Second PROVE more[t] = more[now]
  <2>1. t >= now BY <1>1, <1>2, <1>12
  <2> QED BY <1>1, <1>3, <1>7, <1>12, <2>1
<1>13. ASSUME NEW s \in 0 .. MaxNow, s < win, win <= s + Second
       PROVE  more[win - 1] <= more[s] + RelayLimit
  <2>1. more[s] = rel[s] BY <1>1, <1>2, <1>3, <1>13
  <2> QED BY <1>7, <1>10, <1>13, <2>1
<1>14. ASSUME NEW t \in Clock PROVE more[t] - more[Before(t - Second)] <= 2 * RelayLimit
  <2> DEFINE s == Before(t - Second)
  <2>1. t \in 0 .. MaxNow /\ s \in 0 .. MaxNow /\ s <= t /\ t <= s + Second BY <1>1
  <2>2. rel[t] - rel[s] <= 2 * RelayLimit BY DEF RelayIs
  <2> SUFFICES more[t] - more[s] <= 2 * RelayLimit OBVIOUS
  <2> HIDE DEF s
  <2>3. CASE t < now
    <3>1. more[t] = rel[t] /\ more[s] = rel[s] BY <1>1, <1>3, <2>1, <2>3
    <3> QED BY <2>2, <3>1
  <2>4. CASE t >= now
    <3>1. more[t] = more[now] BY <1>9, <1>1, <2>1, <2>4
    <3>2. more[t] = more[win - 1] + (bytes + n) BY <1>11, <3>1
    <3>5. more[win - 1] \in Nat /\ more[s] \in Nat /\ more[t] \in Nat BY <1>2, <1>3, <2>1
    <3>6. more[t] <= more[win - 1] + RelayLimit
      <4>1. bytes \in Nat /\ RelayLimit \in Nat BY <1>1, <1>2
      <4> QED BY <3>2, <3>5, <4>1
    <3>3. CASE s >= win - 1
      <4>1. more[win - 1] <= more[s] BY <1>2, <1>8, <2>1, <3>3
      <4> QED BY <1>1, <3>5, <3>6, <4>1
    <3>4. CASE s < win - 1
      <4>1. win <= s + Second BY <1>1, <1>2, <2>1, <2>4, <3>4
      <4>2. more[win - 1] <= more[s] + RelayLimit BY <1>1, <1>2, <1>13, <2>1, <3>4, <4>1
      <4> QED BY <1>1, <3>5, <3>6, <4>2
    <3> QED BY <1>1, <1>2, <2>1, <3>3, <3>4
  <2> QED BY <1>1, <2>1, <2>3, <2>4
<1>15. bytes + n \in 0 .. RelayLimit /\ win # 0 BY <1>1, <1>2
<1>16. now \in Clock /\ win \in 0 .. now BY DEF RelayIs
<1>17. RelayIs(win, bytes + n, more)
  BY <1>4, <1>8, <1>9, <1>11, <1>12, <1>13, <1>14, <1>15, <1>16 DEF RelayIs
<1> QED BY <1>17 DEF more

THEOREM RelayInvHolds == LimitsSpec => []RelayInv
<1>1. LimitsInit => RelayInv
  <2> SUFFICES ASSUME LimitsInit PROVE RelayInv OBVIOUS
  <2>1. now = 1 /\ relayWin = 0 /\ relayBytes = 0 /\ relayed = [t \in 0 .. MaxNow |-> 0]
    BY DEF LimitsInit
  <2>2. now \in Clock BY <2>1, LimitsAssumption DEF Clock
  <2>3. \A t \in Clock : t \in 0 .. MaxNow /\ Before(t - Second) \in 0 .. MaxNow BY <2>2, ClockNumbers
  <2>4. relayed \in [0 .. MaxNow -> Nat] /\ \A t \in 0 .. MaxNow : relayed[t] = 0 BY <2>1
  <2>5. now .. MaxNow \subseteq 0 .. MaxNow /\ now \in 0 .. MaxNow /\ RelayLimit \in Nat
    BY <2>2, ClockNumbers
  <2>6. \A t \in Clock : relayed[t] - relayed[Before(t - Second)] <= 2 * RelayLimit
    BY <2>3, <2>4, <2>5
  <2>7. 0 \in 0 .. now /\ 0 \in 0 .. RelayLimit BY <2>1, <2>5
  <2>8. (\A s, t \in 0 .. MaxNow : s <= t => relayed[s] <= relayed[t])
        /\ \A t \in now .. MaxNow : relayed[t] = relayed[now]
    BY <2>4, <2>5
  <2>9. RelayIs(0, 0, relayed) BY <2>2, <2>4, <2>6, <2>7, <2>8 DEF RelayIs
  <2> QED BY <2>1, <2>9 DEF RelayInv
<1>2. RelayInv /\ [LimitsNext]_limitVars => RelayInv'
  <2> SUFFICES ASSUME RelayInv, [LimitsNext]_limitVars PROVE RelayInv' OBVIOUS
  <2>1. CASE ClockGoes
    <3>1. now' = now + 1 /\ now' <= MaxNow /\ now \in 1 .. MaxNow /\ MaxNow \in Nat
          /\ relayWin' = relayWin /\ relayBytes' = relayBytes /\ relayed' = relayed
      BY <2>1, LimitsAssumption DEF ClockGoes, relayVars, RelayInv, RelayIs, Clock
    <3>2. now' \in Clock /\ now' \in now .. MaxNow /\ now' .. MaxNow \subseteq now .. MaxNow
          /\ 0 .. now \subseteq 0 .. now'
      BY <3>1 DEF Clock
    <3>3. relayed[now'] = relayed[now] /\ \A t \in now' .. MaxNow : relayed[t] = relayed[now']
      BY <3>2 DEF RelayInv, RelayIs
    <3>4. relayWin \in 0 .. now' BY <3>2 DEF RelayInv, RelayIs
    <3>5. /\ relayBytes \in 0 .. RelayLimit
          /\ relayed \in [0 .. MaxNow -> Nat]
          /\ \A s, t \in 0 .. MaxNow : s <= t => relayed[s] <= relayed[t]
          /\ relayWin = 0 => \A t \in 0 .. MaxNow : relayed[t] = 0
          /\ relayWin > 0 =>
               /\ relayed[now'] = relayed[relayWin - 1] + relayBytes
               /\ \A t \in 0 .. MaxNow : t >= relayWin + Second => relayed[t] = relayed[now']
               /\ \A s \in 0 .. MaxNow :
                    s < relayWin /\ relayWin <= s + Second => relayed[relayWin - 1] <= relayed[s] + RelayLimit
          /\ \A t \in Clock : relayed[t] - relayed[Before(t - Second)] <= 2 * RelayLimit
      BY <3>3 DEF RelayInv, RelayIs
    <3>6. RelayIs(relayWin, relayBytes, relayed)' BY <3>1, <3>2, <3>3, <3>4, <3>5 DEF RelayIs
    <3> QED BY <3>6 DEF RelayInv
  <2>2. ASSUME NEW n \in Sizes, Relay(n) PROVE RelayInv'
    <3> DEFINE win == IF NewWindow THEN now ELSE relayWin
               used == IF NewWindow THEN 0 ELSE relayBytes
    <3>1. n \in Nat /\ Second \in Nat /\ RelayLimit \in Nat /\ now \in Nat /\ now > 0
          /\ relayWin \in Nat /\ relayWin <= now
      BY LimitsAssumption, ClockNumbers DEF RelayInv, RelayIs
    <3>2. RelayIs(win, used, relayed) BY OpenedIs DEF RelayInv, NewWindow
    <3>3. win > 0 /\ now - win <= Second BY <3>1 DEF NewWindow
    <3>4. now' = now /\ relayWin' = win BY <2>2 DEF Relay
    <3>5. \/ relayBytes' = used /\ relayed' = relayed
          \/ used + n <= RelayLimit /\ relayBytes' = used + n /\ Counted(n)
      <4>1. used \in Nat BY DEF RelayInv, RelayIs
      <4> QED BY <2>2, <3>1, <4>1 DEF Relay
    <3> HIDE DEF win, used
    <3>6. RelayIs(relayWin', relayBytes', relayed')
      <4>1. CASE relayBytes' = used /\ relayed' = relayed BY <3>2, <3>4, <4>1
      <4>2. CASE used + n <= RelayLimit /\ relayBytes' = used + n /\ Counted(n)
        BY <3>1, <3>2, <3>3, <3>4, <4>2, CountedIs DEF Counted
      <4> QED BY <3>5, <4>1, <4>2
    <3> QED BY <3>4, <3>6 DEF RelayInv, RelayIs
  <2>3. CASE UNCHANGED <<now, relayVars>>
    <3>1. now' = now /\ relayWin' = relayWin /\ relayBytes' = relayBytes /\ relayed' = relayed
      BY <2>3 DEF relayVars
    <3> QED BY <3>1 DEF RelayInv, RelayIs
  <2> QED BY <2>1, <2>2, <2>3 DEF LimitsNext, Request, limitVars, relayVars
<1> QED BY <1>1, <1>2, PTL DEF LimitsSpec

(* Whenever requests come and whatever is relayed, no window of the log and *)
(* no second of a relay lets more through than rooms.js means to allow.     *)
THEOREM LimitsHold == LimitsSpec => []Limited
<1>1. LogInv /\ RelayInv => Limited BY DEF LogInv, RelayInv, RelayIs, Limited, RelayTwice
<1> QED BY <1>1, LogInvHolds, RelayInvHolds, PTL

-------------------------------------------------------------------------------
(* A page and its engine.                                                  *)

(* What a flow has passed: a file that is of the region, a pack that is     *)
(* stored.                                                                  *)
Named == (DOMAIN Region) \X Extractors
Verified == {"extract", "put", "note", "packGet", "start", "loading"}
Steps == Verified \cup {"kvGet", "verify", "over"}
FlowInv ==
  /\ flow \in [Flows -> [at : Steps, pack : Named \cup {NoPack}]]
  /\ \A f \in Flows : flow[f].at \in Verified => flow[f].pack \in Packs
  /\ \A f \in Flows : flow[f].at = "verify" => flow[f].pack \in Named
  /\ \A f \in FileFlows : flow[f].at = "note" => flow[f].pack \in store.packs
  /\ flow["visit"].at = "packGet" => flow["visit"].pack \in store.packs
StoreInv ==
  /\ store \in [last : Packs \cup {NoPack}, packs : SUBSET Packs]
  /\ store.last # NoPack => store.last \in store.packs
GameInv ==
  /\ engines \in Seq([pack : Packs \cup {NoPack}, ready : BOOLEAN])
  /\ game \in 0 .. Len(engines) /\ release \in Extractors
  /\ HashIsEngines
BootInv == FlowInv /\ StoreInv /\ GameInv

(* A flow goes on with its own pack: then only where it waits changes.      *)
LEMMA GoesOn ==
  ASSUME FlowInv, NEW f \in Flows, NEW at \in Steps, NEW pack, Goes(f, At(at, pack)),
         pack \in Named \cup {NoPack},
         at \in Verified => pack \in Packs, at = "verify" => pack \in Named,
         at = "note" /\ f \in FileFlows => pack \in store'.packs,
         at = "packGet" /\ f = "visit" => pack \in store'.packs,
         store.packs \subseteq store'.packs
  PROVE  FlowInv'
<1>1. flow' \in [Flows -> [at : Steps, pack : Named \cup {NoPack}]]
  BY DEF FlowInv, Goes, At
<1>2. /\ flow'[f].at = at /\ flow'[f].pack = pack
      /\ \A g \in Flows : g # f => flow'[g] = flow[g]
  BY DEF FlowInv, Goes, At
<1>3. "visit" \in Flows /\ FileFlows \subseteq Flows BY DEF Flows
<1>4. \A g \in Flows : flow'[g].at \in Verified => flow'[g].pack \in Packs BY <1>2 DEF FlowInv
<1>5. \A g \in FileFlows : flow'[g].at = "note" => flow'[g].pack \in store'.packs BY <1>2, <1>3 DEF FlowInv
<1>6. flow'["visit"].at = "packGet" => flow'["visit"].pack \in store'.packs BY <1>2, <1>3 DEF FlowInv
<1>7. \A g \in Flows : flow'[g].at = "verify" => flow'[g].pack \in Named BY <1>2 DEF FlowInv
<1> QED BY <1>1, <1>4, <1>5, <1>6, <1>7 DEF FlowInv

LEMMA EnginesStarts ==
  ASSUME BootInv, NEW f \in Flows, flow[f].at \in {"start", "loading"}, NEW at \in {"start", "loading"},
         NEW all \in Seq([pack : Packs \cup {NoPack}, ready : BOOLEAN]), NEW g \in 1 .. Len(all),
         InitEngine(f, at, all, g)
  PROVE  BootInv'
<1>1. flow[f].pack \in Packs BY DEF BootInv, FlowInv, Verified
<1>2. PICK works \in BOOLEAN :
        engines' = [all EXCEPT ![g] = IF works THEN [pack |-> flow[f].pack, ready |-> TRUE] ELSE Unready]
  BY DEF InitEngine
<1>3. game' = g /\ shown' = flow[f].pack /\ store' = store /\ release' = release
  BY DEF InitEngine, Shown
<1> DEFINE e == IF works THEN [pack |-> flow[f].pack, ready |-> TRUE] ELSE Unready
<1>4. e \in [pack : Packs \cup {NoPack}, ready : BOOLEAN] /\ (e.ready => e.pack = flow[f].pack)
  BY <1>1 DEF Unready
<1> HIDE DEF e
<1>5. /\ engines' \in Seq([pack : Packs \cup {NoPack}, ready : BOOLEAN])
      /\ Len(engines') = Len(all) /\ engines'[g] = e
  <2>1. engines' = [all EXCEPT ![g] = e] BY <1>2 DEF e
  <2> QED BY <1>4, <2>1, ExceptSeq
<1>6. GameInv'
  <2>1. game' \in 0 .. Len(engines') BY <1>3, <1>5
  <2> QED BY <1>3, <1>4, <1>5, <2>1 DEF BootInv, GameInv, HashIsEngines
<1>7. FlowInv'
  <2>1. Goes(f, At("over", NoPack)) BY DEF InitEngine, Over
  <2> QED BY <1>3, <2>1, GoesOn DEF BootInv, Steps, Verified
<1> QED BY <1>3, <1>6, <1>7 DEF BootInv, StoreInv

THEOREM BootInvHolds == BootSpec => []BootInv
<1> DEFINE E == [pack : Packs \cup {NoPack}, ready : BOOLEAN]
<1>1. BootInit => BootInv
  <2> SUFFICES ASSUME BootInit PROVE BootInv OBVIOUS
  <2>1. FlowInv BY BootAssumption DEF BootInit, FlowInv, Opened, Over, At, Flows, Steps, Verified
  <2>2. StoreInv BY DEF BootInit, StoreInv
  <2>3. engines = << >> /\ game = 0 /\ release = 1 BY DEF BootInit
  <2>4. << >> \in Seq(E) /\ Len(<< >>) = 0 BY EmptySeq
  <2>5. GameInv BY <2>3, <2>4, BootAssumption DEF GameInv, HashIsEngines
  <2> QED BY <2>1, <2>2, <2>5 DEF BootInv
<1>2. BootInv /\ [BootNext]_bootVars => BootInv'
  <2> SUFFICES ASSUME BootInv, [BootNext]_bootVars PROVE BootInv' OBVIOUS
  <2>1. /\ flow \in [Flows -> [at : Steps, pack : Named \cup {NoPack}]]
        /\ \A f \in Flows : flow[f].at \in Verified => flow[f].pack \in Packs
        /\ "visit" \in Flows /\ FileFlows \subseteq Flows
    BY DEF BootInv, FlowInv, Flows
  <2>2. Packs \subseteq Named BY DEF Packs, Named
  <2>3. ASSUME UNCHANGED <<store, engines, game, shown, release>>, FlowInv' PROVE BootInv'
    BY <2>3 DEF BootInv, StoreInv, GameInv, HashIsEngines
  <2>4. CASE Reload
    <3>1. /\ flow' = Opened /\ engines' = << >> /\ game' = 0 /\ store' = store
          /\ release' \in Extractors
      BY <2>4 DEF Reload
    <3>2. FlowInv' BY <3>1, BootAssumption DEF FlowInv, Opened, Over, At, Flows, Steps, Verified
    <3>3. << >> \in Seq(E) /\ Len(<< >>) = 0 BY EmptySeq
    <3>4. GameInv' BY <3>1, <3>3 DEF GameInv, HashIsEngines
    <3> QED BY <3>1, <3>2, <3>4 DEF BootInv, StoreInv
  <2>5. CASE KvGet
    <3>1. CASE Goes("visit", Over)
      BY <2>1, <2>3, <2>5, <3>1, GoesOn DEF KvGet, BootInv, Over, Steps, Verified
    <3>2. CASE store.last # NoPack /\ Goes("visit", At("packGet", store.last))
      <4>1. store.last \in Packs /\ store.last \in store.packs BY <3>2 DEF BootInv, StoreInv
      <4>2. store' = store BY <2>5 DEF KvGet
      <4>3. FlowInv' BY <2>1, <2>2, <3>2, <4>1, <4>2, GoesOn, BootAssumption DEF BootInv, Steps, Verified
      <4> QED BY <2>3, <2>5, <4>3 DEF KvGet
    <3> QED BY <2>5, <3>1, <3>2 DEF KvGet
  <2>6. CASE PackGet
    <3> DEFINE hash == flow["visit"].pack
    <3>1. hash \in store.packs /\ hash \in Packs /\ store' = store
      BY <2>1, <2>6 DEF PackGet, BootInv, FlowInv, Verified
    <3>2. Goes("visit", At("start", hash)) BY <2>6, <3>1 DEF PackGet
    <3>3. FlowInv' BY <2>1, <2>2, <3>1, <3>2, GoesOn DEF BootInv, Steps, Verified
    <3> QED BY <2>3, <2>6, <3>3 DEF PackGet
  <2>7. ASSUME NEW f \in FileFlows, Drop(f) PROVE BootInv'
    <3>1. PICK rom \in DOMAIN Region : Goes(f, At("verify", <<rom, release>>)) BY <2>7 DEF Drop
    <3>2. <<rom, release>> \in Named BY DEF BootInv, GameInv, Named
    <3>3. store' = store BY <2>7 DEF Drop
    <3>4. FlowInv' BY <2>1, <3>1, <3>2, <3>3, GoesOn DEF BootInv, Steps, Verified
    <3> QED BY <2>3, <2>7, <3>4 DEF Drop
  <2>8. ASSUME NEW f \in FileFlows, Verify(f) PROVE BootInv'
    <3> DEFINE p == flow[f].pack
    <3>1. store' = store /\ p \in Named BY <2>1, <2>8 DEF Verify, BootInv, FlowInv
    <3>2. CASE Region[p[1]] = "U" /\ Goes(f, At("extract", p))
      <4>1. p \in Packs BY <3>1, <3>2 DEF Packs, Named
      <4>2. FlowInv' BY <2>1, <3>1, <3>2, <4>1, GoesOn DEF BootInv, Steps, Verified
      <4> QED BY <2>3, <2>8, <4>2 DEF Verify
    <3>3. CASE Goes(f, Over)
      <4>1. FlowInv' BY <2>1, <3>1, <3>3, GoesOn DEF BootInv, Over, Steps, Verified
      <4> QED BY <2>3, <2>8, <4>1 DEF Verify
    <3> QED BY <2>8, <3>2, <3>3 DEF Verify
  <2>9. ASSUME NEW f \in FileFlows, Extract(f) PROVE BootInv'
    <3>1. store' = store /\ flow[f].pack \in Packs BY <2>1, <2>9 DEF Extract, Verified
    <3>2. Goes(f, At("put", flow[f].pack)) \/ Goes(f, At("over", NoPack)) BY <2>9 DEF Extract, Over
    <3>3. FlowInv' BY <2>1, <2>2, <3>1, <3>2, GoesOn DEF BootInv, Steps, Verified
    <3> QED BY <2>3, <2>9, <3>3 DEF Extract
  <2>10. ASSUME NEW f \in FileFlows, Store(f) PROVE BootInv'
    <3> DEFINE hash == flow[f].pack
    <3>1. hash \in Packs /\ flow[f].at \in {"put", "note"} BY <2>1, <2>10 DEF Store, Verified
    <3>2. flow[f].at = "note" => hash \in store.packs BY DEF BootInv, FlowInv
    <3>3. UNCHANGED <<engines, game, shown, release>> BY <2>10 DEF Store
    <3>4. GameInv' BY <3>3 DEF BootInv, GameInv, HashIsEngines
    <3>5. f # "visit" BY BootAssumption
    <3>6. CASE store' = store /\ Goes(f, At("start", hash))
      <4>1. FlowInv' BY <2>1, <2>2, <3>1, <3>6, GoesOn DEF BootInv, Steps, Verified
      <4> QED BY <3>4, <3>6, <4>1 DEF BootInv, StoreInv
    <3>7. CASE flow[f].at = "put" /\ store' = [store EXCEPT !.packs = @ \cup {hash}] /\ Goes(f, At("note", hash))
      <4>1. StoreInv' /\ store'.packs = store.packs \cup {hash} BY <3>1, <3>7 DEF BootInv, StoreInv
      <4>2. FlowInv' BY <2>1, <2>2, <3>1, <3>5, <3>7, <4>1, GoesOn DEF BootInv, Steps, Verified
      <4> QED BY <3>4, <4>1, <4>2 DEF BootInv
    <3>8. CASE flow[f].at = "note" /\ store' = [store EXCEPT !.last = hash] /\ Goes(f, At("start", hash))
      <4>1. StoreInv' /\ store'.packs = store.packs BY <3>1, <3>2, <3>8 DEF BootInv, StoreInv
      <4>2. FlowInv' BY <2>1, <2>2, <3>1, <3>5, <3>8, <4>1, GoesOn DEF BootInv, Steps, Verified
      <4> QED BY <3>4, <4>1, <4>2 DEF BootInv
    <3> QED BY <2>10, <3>1, <3>6, <3>7, <3>8 DEF Store, Stored
  <2>11. ASSUME NEW f \in Flows, StartEngine(f) PROVE BootInv'
    <3>1. flow[f].at = "start" /\ flow[f].pack \in Packs BY <2>1, <2>11 DEF StartEngine, Verified
    <3>2. engines \in Seq(E) /\ game \in 0 .. Len(engines) BY DEF BootInv, GameInv
    <3>3. CASE game # 0
      <4>1. game \in 1 .. Len(engines) /\ InitEngine(f, "start", engines, game)
        BY <2>11, <3>2, <3>3 DEF StartEngine
      <4> QED BY <3>1, <3>2, <4>1, EnginesStarts
    <3>4. CASE game = 0
      <4>1. Goes(f, At("loading", flow[f].pack)) /\ UNCHANGED <<store, engines, game, release>>
        BY <2>11, <3>4 DEF StartEngine
      <4>2. FlowInv' BY <2>1, <2>2, <3>1, <4>1, GoesOn DEF BootInv, Steps, Verified
      <4> QED BY <3>4, <4>1, <4>2 DEF BootInv, StoreInv, GameInv, HashIsEngines
    <3> QED BY <3>3, <3>4
  <2>12. ASSUME NEW f \in Flows, Fetched(f) PROVE BootInv'
    <3>1. flow[f].at = "loading" BY <2>12 DEF Fetched
    <3>2. CASE Goes(f, Over) /\ UNCHANGED <<store, engines, game, shown, release>>
      <4>1. FlowInv' BY <2>1, <3>2, GoesOn DEF BootInv, Over, Steps, Verified
      <4> QED BY <2>3, <3>2, <4>1
    <3>3. CASE InitEngine(f, "loading", Append(engines, Unready), Len(engines) + 1)
      <4>1. engines \in Seq(E) /\ Unready \in E BY DEF BootInv, GameInv, Unready
      <4>2. /\ Append(engines, Unready) \in Seq(E)
            /\ Len(engines) + 1 \in 1 .. Len(Append(engines, Unready))
        <5>1. Len(engines) \in Nat BY <4>1, LenProperties
        <5> QED BY <4>1, <5>1, AppendProperties
      <4> QED BY <3>1, <3>3, <4>2, EnginesStarts
    <3> QED BY <2>12, <3>2, <3>3 DEF Fetched
  <2>13. CASE UNCHANGED bootVars
    BY <2>13 DEF bootVars, BootInv, FlowInv, StoreInv, GameInv, HashIsEngines
  <2> QED BY <2>4, <2>5, <2>6, <2>7, <2>8, <2>9, <2>10, <2>11, <2>12, <2>13 DEF BootNext
<1> QED BY <1>1, <1>2, PTL DEF BootSpec

-------------------------------------------------------------------------------
(* The messages from one peer to another.                                  *)

Messages == {"offer", "answer", "ice"}
(* The other side has a connection, or will have one when it has read this. *)
Reported(q, made) == made \/ \E j \in 1 .. Len(q) : q[j] # "ice"
(* Candidates are looked for once an offer or answer is sent, and follow it.*)
QueueOK(q, made, sought) ==
  /\ sought => Reported(q, made)
  /\ \A i \in 1 .. Len(q) : q[i] = "ice" => made \/ \E j \in 1 .. Len(q) : j < i /\ q[j] # "ice"

LEMMA Posts ==
  ASSUME NEW q \in Seq(Messages), NEW made \in BOOLEAN, NEW sought \in BOOLEAN, NEW m \in Messages,
         QueueOK(q, made, sought), m = "ice" => sought
  PROVE  /\ \A more \in BOOLEAN : QueueOK(Append(q, m), made, more)
         /\ Reported(Append(q, m), made)
<1> DEFINE r == Append(q, m)
<1>1. /\ Len(q) \in Nat /\ Len(r) = Len(q) + 1 /\ r[Len(q) + 1] = m
      /\ \A i \in 1 .. Len(q) : r[i] = q[i]
  BY AppendProperties, LenProperties
<1> HIDE DEF r
<1>2. Len(q) + 1 \in 1 .. Len(r) /\ \A i \in 1 .. Len(q) : i \in 1 .. Len(r) /\ i < Len(q) + 1
  BY <1>1
<1>3. Reported(r, made)
  <2>1. CASE m # "ice" BY <1>1, <1>2, <2>1 DEF Reported
  <2>2. CASE m = "ice" BY <1>1, <1>2, <2>2 DEF Reported, QueueOK
  <2> QED BY <2>1, <2>2
<1>4. ASSUME NEW i \in 1 .. Len(r), r[i] = "ice", ~made
      PROVE  \E j \in 1 .. Len(r) : j < i /\ r[j] # "ice"
  <2>1. CASE i = Len(q) + 1
    <3>1. PICK j \in 1 .. Len(q) : q[j] # "ice" BY <1>1, <1>4, <2>1 DEF QueueOK, Reported
    <3> QED BY <1>1, <1>2, <2>1, <3>1
  <2>2. CASE i \in 1 .. Len(q)
    <3>1. q[i] = "ice" BY <1>1, <1>4, <2>2
    <3>2. PICK j \in 1 .. Len(q) : j < i /\ q[j] # "ice" BY <1>4, <2>2, <3>1 DEF QueueOK
    <3> QED BY <1>1, <1>2, <3>2
  <2> QED BY <1>1, <2>1, <2>2
<1>5. \A more \in BOOLEAN : QueueOK(r, made, more) BY <1>3, <1>4 DEF QueueOK
<1> QED BY <1>3, <1>5 DEF r

LEMMA Takes ==
  ASSUME NEW q \in Seq(Messages), q # << >>, NEW made \in BOOLEAN, NEW then \in BOOLEAN,
         NEW sought \in BOOLEAN, QueueOK(q, made, sought),
         made => then, Head(q) # "ice" => then
  PROVE  /\ then /\ (Head(q) = "ice" => made)
         /\ QueueOK(Tail(q), then, sought) /\ Reported(Tail(q), then)
<1>1. 1 \in 1 .. Len(q) /\ Head(q) = q[1]
  <2>1. Len(q) \in Nat /\ Len(q) # 0 BY EmptySeq, LenProperties
  <2> QED BY <2>1
<1>2. Head(q) = "ice" => made
  <2>1. \A j \in 1 .. Len(q) : ~ (j < 1) OBVIOUS
  <2> QED BY <1>1, <2>1 DEF QueueOK
<1>3. then BY <1>2
<1> QED BY <1>2, <1>3 DEF QueueOK, Reported

(* It goes on being so while the connection stays and fewer are sought. *)
LEMMA Stays ==
  ASSUME NEW q, NEW made \in BOOLEAN, NEW then \in BOOLEAN, NEW sought \in BOOLEAN, NEW later \in BOOLEAN,
         made => then, later => sought
  PROVE  /\ QueueOK(q, made, sought) => QueueOK(q, then, later)
         /\ Reported(q, made) => Reported(q, then)
BY DEF QueueOK, Reported

-------------------------------------------------------------------------------
(* The connections of a mesh.                                              *)

Pairs == {q \in Peers \X Peers : q[1] # q[2]}
States == {"none", "bound", "open", "closed"}
LinkTypes == [made : BOOLEAN, remote : BOOLEAN, todo : {"-", "answer"}, sought : BOOLEAN,
              cand : BOOLEAN, inp : States, ctl : States]
(* Whatever has happened to a connection, there is one. *)
Links == {l \in LinkTypes :
            l.remote \/ l.sought \/ l.todo = "answer" \/ l.inp = "open" \/ l.ctl = "open" => l.made}
MeshTypes ==
  /\ net \in [Pairs -> Seq(Messages)]
  /\ DOMAIN links = Peers /\ \A s \in Peers : links[s] \in [Other(s) -> Links]
  /\ DOMAIN offers = Peers /\ \A s \in Peers : offers[s] \in Seq({r \in Peers : s < r})
  /\ meshed \subseteq Peers

(* The other side knows of the connection, or is told of it. *)
Offered(a, b) == links[a][b].made /\ Reported(net[<<a, b>>], links[b][a].made)
Queue(a, b) == QueueOK(net[<<a, b>>], links[b][a].made, links[a][b].sought)
Queues == \A a \in Peers : \A b \in Other(a) : Queue(a, b)
Lower == \A a \in meshed : \A b \in Other(a) :
           a < b => Offered(a, b) \/ \E i \in 1 .. Len(offers[a]) : offers[a][i] = b
MeshInv ==
  /\ MeshTypes /\ Queues /\ Lower /\ NoCandidateLost
  /\ sessions \subseteq meshed /\ \A s \in sessions : offers[s] = <<>>

LEMMA LinkIsSet ==
  ASSUME MeshTypes, NEW s \in Peers, NEW r \in Other(s), NEW link \in Links, SetLink(s, r, link)
  PROVE  /\ DOMAIN links' = Peers /\ \A a \in Peers : links'[a] \in [Other(a) -> Links]
         /\ links'[s][r] = link
         /\ \A a \in Peers : \A b \in Other(a) : a # s \/ b # r => links'[a][b] = links[a][b]
<1>1. links' = [links EXCEPT ![s] = [links[s] EXCEPT ![r] = link]] BY DEF SetLink
<1>2. DOMAIN links = Peers /\ links[s] \in [Other(s) -> Links] BY DEF MeshTypes
<1>3. DOMAIN links' = Peers /\ \A a \in Peers : a # s => links'[a] = links[a] BY <1>1, <1>2
<1>4. links'[s] = [links[s] EXCEPT ![r] = link] BY <1>1, <1>2
<1>5. links'[s] \in [Other(s) -> Links] BY <1>2, <1>4
<1>6. \A b \in Other(s) : links'[s][b] = IF b = r THEN link ELSE links[s][b] BY <1>2, <1>4
<1>7. \A a \in Peers : links'[a] \in [Other(a) -> Links] BY <1>3, <1>5 DEF MeshTypes
<1> QED BY <1>3, <1>6, <1>7

LEMMA MessageIsPosted ==
  ASSUME MeshTypes, NEW s \in Peers, NEW r \in Other(s), NEW m \in Messages, net' = Posted(s, r, m)
  PROVE  /\ net' \in [Pairs -> Seq(Messages)]
         /\ net'[<<s, r>>] = Append(net[<<s, r>>], m)
         /\ \A p \in Pairs : p # <<s, r>> => net'[p] = net[p]
<1>1. <<s, r>> \in Pairs BY DEF Pairs, Other
<1>2. net[<<s, r>>] \in Seq(Messages) BY <1>1 DEF MeshTypes
<1>3. Append(net[<<s, r>>], m) \in Seq(Messages) BY <1>2, AppendProperties
<1> QED BY <1>1, <1>3 DEF MeshTypes, Posted

(* A step of s with its connection to r, and with the messages between them.*)
LEMMA PairMoves ==
  ASSUME MeshInv, NEW s \in Peers, NEW r \in Other(s), NEW link \in Links, SetLink(s, r, link),
         links[s][r].made => link.made,
         net' \in [Pairs -> Seq(Messages)],
         \A p \in Pairs : p # <<s, r>> /\ p # <<r, s>> => net'[p] = net[p],
         QueueOK(net'[<<s, r>>], links[r][s].made, link.sought),
         QueueOK(net'[<<r, s>>], link.made, links[r][s].sought),
         Reported(net[<<s, r>>], links[r][s].made) => Reported(net'[<<s, r>>], links[r][s].made),
         Reported(net[<<r, s>>], links[s][r].made) => Reported(net'[<<r, s>>], link.made)
  PROVE  /\ Queues'
         /\ \A a \in Peers : \A b \in Other(a) : Offered(a, b) => Offered(a, b)'
         /\ links'[s][r] = link
         /\ UNCHANGED <<offers, meshed>> => MeshTypes'
<1>1. /\ DOMAIN links' = Peers /\ \A a \in Peers : links'[a] \in [Other(a) -> Links]
      /\ links'[s][r] = link
      /\ \A a \in Peers : \A b \in Other(a) : a # s \/ b # r => links'[a][b] = links[a][b]
  BY LinkIsSet DEF MeshInv
<1>2. r \in Peers /\ s \in Other(r) /\ r # s BY DEF Other
<1>3. links'[r][s] = links[r][s] BY <1>1, <1>2
<1>4. ASSUME NEW a \in Peers, NEW b \in Other(a)
      PROVE  Queue(a, b)' /\ (Offered(a, b) => Offered(a, b)')
  <2>1. CASE a = s /\ b = r BY <1>1, <1>3, <2>1 DEF Queue, Offered
  <2>2. CASE a = r /\ b = s BY <1>1, <1>3, <2>2 DEF Queue, Offered
  <2>3. CASE ~ (a = s /\ b = r) /\ ~ (a = r /\ b = s)
    <3>1. <<a, b>> \in Pairs /\ <<a, b>> # <<s, r>> /\ <<a, b>> # <<r, s>> /\ b \in Peers /\ a \in Other(b)
      BY <2>3 DEF Pairs, Other
    <3>2. net'[<<a, b>>] = net[<<a, b>>] /\ links'[a][b] = links[a][b] /\ links'[b][a] = links[b][a]
      BY <1>1, <2>3, <3>1
    <3>3. Queue(a, b) BY DEF MeshInv, Queues
    <3> QED BY <3>2, <3>3 DEF Queue, Offered
  <2> QED BY <2>1, <2>2, <2>3
<1>5. Queues' BY <1>4 DEF Queues, Other
<1>6. UNCHANGED <<offers, meshed>> => MeshTypes' BY <1>1 DEF MeshInv, MeshTypes
<1> QED BY <1>1, <1>4, <1>5, <1>6

(* What is known of s and r before a step of s. *)
LEMMA PairIs ==
  ASSUME MeshInv, NEW s \in Peers, NEW r \in Other(s)
  PROVE  /\ r \in Peers /\ s \in Other(r) /\ s # r
         /\ <<s, r>> \in Pairs /\ <<r, s>> \in Pairs /\ <<s, r>> # <<r, s>>
         /\ links[s][r] \in Links /\ links[r][s] \in Links
         /\ net \in [Pairs -> Seq(Messages)]
         /\ net[<<s, r>>] \in Seq(Messages) /\ net[<<r, s>>] \in Seq(Messages)
         /\ Queue(s, r) /\ Queue(r, s)
<1>1. r \in Peers /\ s \in Other(r) /\ s # r BY DEF Other
<1>2. <<s, r>> \in Pairs /\ <<r, s>> \in Pairs /\ <<s, r>> # <<r, s>> BY <1>1 DEF Pairs
<1>3. links[s][r] \in Links /\ links[r][s] \in Links BY <1>1 DEF MeshInv, MeshTypes
<1>4. /\ net \in [Pairs -> Seq(Messages)]
      /\ net[<<s, r>>] \in Seq(Messages) /\ net[<<r, s>>] \in Seq(Messages)
  BY <1>2 DEF MeshInv, MeshTypes
<1>5. Queue(s, r) /\ Queue(r, s) BY <1>1 DEF MeshInv, Queues
<1> QED BY <1>1, <1>2, <1>3, <1>4, <1>5

(* s sends r something of their connection. *)
LEMMA Posting ==
  ASSUME MeshInv, NEW s \in Peers, NEW r \in Other(s), NEW link \in Links, SetLink(s, r, link),
         NEW m \in Messages, net' = Posted(s, r, m), links[s][r].made, link.made,
         m = "ice" => links[s][r].sought
  PROVE  /\ Queues'
         /\ \A a \in Peers : \A b \in Other(a) : Offered(a, b) => Offered(a, b)'
         /\ Offered(s, r)'
         /\ UNCHANGED <<offers, meshed>> => MeshTypes'
<1> DEFINE q == net[<<s, r>>]
<1>1. /\ r \in Peers /\ s \in Other(r) /\ s # r
      /\ <<s, r>> \in Pairs /\ <<r, s>> \in Pairs /\ <<s, r>> # <<r, s>>
      /\ links[s][r] \in Links /\ links[r][s] \in Links
      /\ q \in Seq(Messages) /\ Queue(s, r) /\ Queue(r, s)
  BY PairIs
<1>2. /\ net' \in [Pairs -> Seq(Messages)] /\ net'[<<s, r>>] = Append(q, m)
      /\ \A p \in Pairs : p # <<s, r>> => net'[p] = net[p]
  BY MessageIsPosted DEF MeshInv
<1>3. /\ links[s][r].made \in BOOLEAN /\ links[s][r].sought \in BOOLEAN /\ link.sought \in BOOLEAN
      /\ links[r][s].made \in BOOLEAN /\ links[r][s].sought \in BOOLEAN
  BY <1>1 DEF Links, LinkTypes
<1>4. QueueOK(q, links[r][s].made, links[s][r].sought) BY <1>1 DEF Queue
<1>5. /\ QueueOK(Append(q, m), links[r][s].made, link.sought)
      /\ Reported(Append(q, m), links[r][s].made)
  BY <1>1, <1>3, <1>4, Posts
<1>6. net'[<<r, s>>] = net[<<r, s>>] BY <1>1, <1>2
<1>7. QueueOK(net'[<<r, s>>], link.made, links[r][s].sought)
  BY <1>1, <1>3, <1>6, Stays DEF Queue
<1>8. Reported(net'[<<r, s>>], link.made) \/ ~ Reported(net[<<r, s>>], links[s][r].made)
  BY <1>6 DEF Reported
<1> HIDE DEF q
<1>9. /\ Queues' /\ links'[s][r] = link
      /\ \A a \in Peers : \A b \in Other(a) : Offered(a, b) => Offered(a, b)'
      /\ UNCHANGED <<offers, meshed>> => MeshTypes'
  BY <1>2, <1>5, <1>7, <1>8, PairMoves
<1>10. links'[r][s] = links[r][s] BY <1>1, LinkIsSet DEF MeshInv
<1> QED BY <1>2, <1>5, <1>9, <1>10 DEF Offered

(* s changes its connection to r without a word. *)
LEMMA Silent ==
  ASSUME MeshInv, NEW s \in Peers, NEW r \in Other(s), NEW link \in Links, SetLink(s, r, link),
         links[s][r].made => link.made, link.sought => links[s][r].sought,
         UNCHANGED <<net, offers, meshed>>
  PROVE  /\ MeshTypes' /\ Queues' /\ links'[s][r] = link
         /\ \A a \in Peers : \A b \in Other(a) : Offered(a, b) => Offered(a, b)'
<1>1. /\ r \in Peers /\ s \in Other(r) /\ links[s][r] \in Links /\ links[r][s] \in Links
      /\ net \in [Pairs -> Seq(Messages)] /\ Queue(s, r) /\ Queue(r, s)
  BY PairIs
<1>2. /\ links[s][r].made \in BOOLEAN /\ links[s][r].sought \in BOOLEAN
      /\ link.made \in BOOLEAN /\ link.sought \in BOOLEAN
      /\ links[r][s].made \in BOOLEAN /\ links[r][s].sought \in BOOLEAN
  BY <1>1 DEF Links, LinkTypes
<1>3. QueueOK(net[<<s, r>>], links[r][s].made, link.sought) BY <1>1, <1>2, Stays DEF Queue
<1>4. QueueOK(net[<<r, s>>], link.made, links[r][s].sought) BY <1>1, <1>2, Stays DEF Queue
<1>5. Reported(net[<<r, s>>], links[s][r].made) => Reported(net[<<r, s>>], link.made)
  BY DEF Reported
<1> QED BY <1>1, <1>3, <1>4, <1>5, PairMoves

(* What stays when nothing is offered and nothing begins. *)
LEMMA Unoffered ==
  ASSUME MeshInv, MeshTypes', Queues', UNCHANGED <<offers, meshed, lostIce, sessions>>,
         \A a \in Peers : \A b \in Other(a) : Offered(a, b) => Offered(a, b)'
  PROVE  MeshInv'
<1>1. meshed \subseteq Peers BY DEF MeshInv, MeshTypes
<1>2. Lower' BY <1>1 DEF MeshInv, Lower
<1> QED BY <1>2 DEF MeshInv, NoCandidateLost

LEMMA PeersAre ==
  LET n == Cardinality(Peers)
  IN  n \in Nat /\ Peers = 0 .. n - 1 /\ \A s \in Peers : s \in Nat /\ s < n
<1>1. Cardinality(Peers) \in Nat BY MeshAssumption, FS_CardinalityType
<1> QED BY <1>1, MeshAssumption

LEMMA BeginKeeps == ASSUME MeshInv, NEW s \in Peers, Begin(s) PROVE MeshInv'
<1> DEFINE n == Cardinality(Peers)
           higher == {r \in Peers : s < r}
<1>1. Peers = 0 .. n - 1 /\ n \in Nat /\ s \in Nat /\ s < n
  BY PeersAre
<1>2. {r \in Peers : r > s} = s + 1 .. n - 1 /\ higher = s + 1 .. n - 1 BY <1>1
<1>3. Cardinality({r \in Peers : r > s}) = n - 1 - s
  <2>1. Cardinality(s + 1 .. n - 1) = IF s + 1 > n - 1 THEN 0 ELSE (n - 1) - (s + 1) + 1
    <3>1. s + 1 \in Int /\ n - 1 \in Int BY <1>1
    <3> HIDE DEF n
    <3> QED BY <3>1, FS_Interval
  <2>2. (IF s + 1 > n - 1 THEN 0 ELSE (n - 1) - (s + 1) + 1) = n - 1 - s
    <3> HIDE DEF n
    <3> QED BY <1>1
  <2> QED BY <1>2, <2>1, <2>2
<1> DEFINE c == n - 1 - s
<1>4. OfferTargets(s) = [i \in 1 .. c |-> s + i] /\ c \in Nat BY <1>1, <1>3 DEF OfferTargets
<1>5. \A i \in 1 .. c : s + i \in higher BY <1>1, <1>2
<1>6. /\ OfferTargets(s) \in Seq(higher) /\ Len(OfferTargets(s)) = c
      /\ \A i \in 1 .. c : OfferTargets(s)[i] = s + i
  <2> HIDE DEF c, higher
  <2> QED BY <1>4, <1>5, IsASeq
<1>7. \A b \in higher : \E i \in 1 .. Len(OfferTargets(s)) : OfferTargets(s)[i] = b
  <2> SUFFICES ASSUME NEW b \in higher PROVE \E i \in 1 .. c : OfferTargets(s)[i] = b BY <1>6
  <2>1. b - s \in 1 .. c /\ s + (b - s) = b BY <1>1, <1>2
  <2> QED BY <1>6, <2>1
<1>8. /\ s \notin meshed /\ meshed' = meshed \cup {s} /\ offers' = [offers EXCEPT ![s] = OfferTargets(s)]
      /\ UNCHANGED <<net, links, lostIce, sessions>>
  BY DEF Begin
<1>9. /\ DOMAIN offers' = Peers /\ offers'[s] = OfferTargets(s)
      /\ \A a \in Peers : a # s => offers'[a] = offers[a]
  BY <1>8 DEF MeshInv, MeshTypes
<1> HIDE DEF c
<1>10. MeshTypes' BY <1>6, <1>8, <1>9 DEF MeshInv, MeshTypes
<1>11. Queues' BY <1>8 DEF MeshInv, Queues, Queue
<1>12. Lower'
  <2> SUFFICES ASSUME NEW a \in meshed', NEW b \in Other(a), a < b
               PROVE  Offered(a, b)' \/ \E i \in 1 .. Len(offers'[a]) : offers'[a][i] = b
    BY DEF Lower
  <2>1. CASE a = s
    <3>1. b \in higher BY <2>1 DEF Other
    <3> QED BY <1>7, <1>9, <2>1, <3>1
  <2>2. CASE a # s
    <3>1. a \in meshed /\ a \in Peers BY <1>8, <2>2 DEF MeshInv, MeshTypes
    <3> QED BY <1>8, <1>9, <2>2, <3>1 DEF MeshInv, Lower, Offered
  <2> QED BY <2>1, <2>2
<1>13. \A a \in sessions : offers'[a] = << >> /\ a \in meshed'
  <2>1. \A a \in sessions : a # s /\ a \in Peers BY <1>8 DEF MeshInv, MeshTypes
  <2> QED BY <1>8, <1>9, <2>1 DEF MeshInv
<1> QED BY <1>8, <1>10, <1>11, <1>12, <1>13 DEF MeshInv, NoCandidateLost

(* An offer takes its peer off the list. *)
LEMMA OfferToKeeps == ASSUME MeshInv, NEW s \in Peers, OfferTo(s) PROVE MeshInv'
<1> DEFINE old == offers[s]
<1>1. /\ old \in Seq({x \in Peers : s < x}) /\ old # << >> /\ s \in meshed
      /\ UNCHANGED <<meshed, lostIce, sessions>>
  BY DEF OfferTo, MeshInv, MeshTypes
<1>2. PICK r \in {x \in Peers : s < x} : r = Head(old) BY <1>1, HeadTailProperties
<1>3. /\ Tail(old) \in Seq({x \in Peers : s < x}) /\ Len(old) \in Nat \ {0} /\ Len(Tail(old)) = Len(old) - 1 /\ r = old[1]
      /\ \A i \in 1 .. Len(old) - 1 : Tail(old)[i] = old[i + 1]
  BY <1>1, <1>2, HeadTailProperties, LenProperties
<1>4. s \in Int BY PeersAre
<1>5. r \in Other(s) BY <1>2, <1>4 DEF Other
<1>6. links[s][r] \in Links BY <1>5, PairIs
<1>7. CASE ~ links[s][r].made
  <2> DEFINE link == [NoLink EXCEPT !.made = TRUE, !.inp = "bound", !.ctl = "bound"]
  <2>1. SetLink(s, r, link) /\ UNCHANGED <<net, offers>> BY <1>2, <1>7 DEF OfferTo
  <2>2. link \in Links /\ link.made /\ ~ link.sought BY DEF NoLink, Links, LinkTypes, States
  <2> HIDE DEF link
  <2> QED BY <1>1, <1>5, <2>1, <2>2, Silent, Unoffered
<1>8. CASE links[s][r].made
  <2> DEFINE link == [links[s][r] EXCEPT !.sought = TRUE]
  <2>1. /\ net' = Posted(s, r, "offer") /\ SetLink(s, r, link)
        /\ offers' = [offers EXCEPT ![s] = Tail(old)]
    BY <1>2, <1>8 DEF OfferTo
  <2>2. link \in Links /\ link.made BY <1>6, <1>8 DEF Links, LinkTypes
  <2> HIDE DEF link
  <2>3. /\ Queues' /\ Offered(s, r)'
        /\ \A a \in Peers : \A b \in Other(a) : Offered(a, b) => Offered(a, b)'
    BY <1>5, <1>8, <2>1, <2>2, Posting DEF Messages
  <2>4. /\ DOMAIN offers' = Peers /\ offers'[s] = Tail(old)
        /\ \A a \in Peers : a # s => offers'[a] = offers[a]
    BY <2>1 DEF MeshInv, MeshTypes
  <2>5. MeshTypes'
    <3>1. DOMAIN links' = Peers /\ \A a \in Peers : links'[a] \in [Other(a) -> Links]
      BY <1>5, <2>1, <2>2, LinkIsSet DEF MeshInv
    <3>2. net' \in [Pairs -> Seq(Messages)] BY <1>5, <2>1, MessageIsPosted DEF MeshInv, Messages
    <3> QED BY <1>1, <1>3, <2>4, <3>1, <3>2 DEF MeshInv, MeshTypes
  <2>6. Lower'
    <3> SUFFICES ASSUME NEW a \in meshed, NEW b \in Other(a), a < b
                 PROVE  Offered(a, b)' \/ \E i \in 1 .. Len(offers'[a]) : offers'[a][i] = b
      BY <1>1 DEF Lower
    <3>1. a \in Peers BY DEF MeshInv, MeshTypes
    <3>2. Offered(a, b) \/ \E i \in 1 .. Len(offers[a]) : offers[a][i] = b BY DEF MeshInv, Lower
    <3>3. CASE a # s BY <2>3, <2>4, <3>1, <3>2, <3>3
    <3>4. CASE a = s
      <4>1. CASE b = r BY <2>3, <3>4, <4>1
      <4>2. CASE b # r /\ \E i \in 1 .. Len(old) : old[i] = b
        <5>1. PICK i \in 1 .. Len(old) : old[i] = b BY <4>2
        <5>2. i - 1 \in 1 .. Len(Tail(old)) /\ Tail(old)[i - 1] = b
          <6>1. i # 1 BY <1>3, <4>2, <5>1
          <6>2. i - 1 \in 1 .. Len(old) - 1 /\ (i - 1) + 1 = i BY <1>3, <6>1
          <6> QED BY <1>3, <5>1, <6>2
        <5> QED BY <2>4, <3>4, <5>2
      <4>3. CASE Offered(a, b) BY <2>3, <3>1, <4>3
      <4> QED BY <3>2, <3>4, <4>1, <4>2, <4>3
    <3> QED BY <3>3, <3>4
  <2>7. \A a \in sessions : offers'[a] = << >>
    <3>1. \A a \in sessions : a # s /\ a \in Peers BY <1>1 DEF MeshInv, MeshTypes
    <3> QED BY <2>4, <3>1 DEF MeshInv
  <2> QED BY <1>1, <2>3, <2>5, <2>6, <2>7 DEF MeshInv, NoCandidateLost
<1> QED BY <1>7, <1>8

(* What is delivered finds its connection, or makes it. *)
LEMMA DeliverKeeps == ASSUME MeshInv, NEW s \in Peers, NEW r \in Other(s), Deliver(r, s) PROVE MeshInv'
<1> DEFINE q == net[<<r, s>>]
           link == links[s][r]
<1>1. /\ r \in Peers /\ s \in Other(r) /\ s # r
      /\ <<s, r>> \in Pairs /\ <<r, s>> \in Pairs /\ <<s, r>> # <<r, s>>
      /\ link \in Links /\ links[r][s] \in Links
      /\ net \in [Pairs -> Seq(Messages)] /\ q \in Seq(Messages) /\ net[<<s, r>>] \in Seq(Messages)
      /\ Queue(s, r) /\ Queue(r, s)
  BY PairIs
<1>2. q # << >> /\ net' = [net EXCEPT ![<<r, s>>] = Tail(q)] /\ UNCHANGED <<meshed, offers, sessions>>
  BY DEF Deliver
<1>3. Head(q) \in Messages /\ Tail(q) \in Seq(Messages) BY <1>1, <1>2, HeadTailProperties
<1>4. /\ net' \in [Pairs -> Seq(Messages)] /\ net'[<<r, s>>] = Tail(q)
      /\ \A p \in Pairs : p # <<r, s>> => net'[p] = net[p]
  BY <1>1, <1>2, <1>3
<1>5. QueueOK(q, link.made, links[r][s].sought) BY <1>1 DEF Queue
<1>6. link.made \in BOOLEAN /\ links[r][s].made \in BOOLEAN /\ links[r][s].sought \in BOOLEAN
      /\ link.sought \in BOOLEAN
  BY <1>1 DEF Links, LinkTypes
<1>7. Head(q) = "ice" => link.made
  <2>1. \A then \in BOOLEAN : (link.made => then) /\ (Head(q) # "ice" => then)
                              => (Head(q) = "ice" => link.made)
    BY <1>1, <1>2, <1>5, <1>6, Takes
  <2> QED BY <2>1
<1>8. \E l \in Links : /\ SetLink(s, r, l) /\ l.made /\ l.sought = link.sought
                       /\ lostIce' = lostIce
  <2>1. CASE Head(q) = "ice"
    <3> DEFINE l == [link EXCEPT !.cand = HandleIce(link)]
    <3>1. SetLink(s, r, l) /\ lostIce' = lostIce BY <1>7, <2>1 DEF Deliver, HandleIce
    <3>2. l \in Links /\ l.made /\ l.sought = link.sought
      BY <1>1, <1>7, <2>1 DEF Links, LinkTypes, HandleIce
    <3> QED BY <3>1, <3>2
  <2>2. CASE Head(q) = "offer"
    <3> DEFINE l == [link EXCEPT !.made = TRUE, !.todo = "answer"]
    <3>1. SetLink(s, r, l) /\ lostIce' = lostIce BY <2>2 DEF Deliver
    <3>2. l \in Links /\ l.made /\ l.sought = link.sought BY <1>1 DEF Links, LinkTypes
    <3> QED BY <3>1, <3>2
  <2>3. CASE Head(q) = "answer"
    <3> DEFINE l == [link EXCEPT !.made = TRUE, !.remote = TRUE]
    <3>1. SetLink(s, r, l) /\ lostIce' = lostIce BY <2>3 DEF Deliver
    <3>2. l \in Links /\ l.made /\ l.sought = link.sought BY <1>1 DEF Links, LinkTypes
    <3> QED BY <3>1, <3>2
  <2> QED BY <1>3, <2>1, <2>2, <2>3 DEF Messages
<1>9. PICK l \in Links : SetLink(s, r, l) /\ l.made /\ l.sought = link.sought /\ lostIce' = lostIce
  BY <1>8
<1>10. QueueOK(Tail(q), l.made, links[r][s].sought) /\ Reported(Tail(q), l.made)
  <2>1. l.made \in BOOLEAN /\ (link.made => l.made) /\ (Head(q) # "ice" => l.made) BY <1>9
  <2> QED BY <1>1, <1>2, <1>5, <1>6, <2>1, Takes
<1>11. net'[<<s, r>>] = net[<<s, r>>] /\ QueueOK(net[<<s, r>>], links[r][s].made, l.sought)
  BY <1>1, <1>4, <1>9 DEF Queue
<1> HIDE DEF q, link
<1>12. /\ Queues' /\ MeshTypes'
       /\ \A a \in Peers : \A b \in Other(a) : Offered(a, b) => Offered(a, b)'
  BY <1>2, <1>4, <1>9, <1>10, <1>11, PairMoves
<1> QED BY <1>2, <1>9, <1>12, Unoffered

(* A connection that fails is still one. *)
LEMMA FailKeeps == ASSUME MeshInv, NEW s \in Peers, NEW r \in Other(s), Fail(s, r) PROVE MeshInv'
<1> DEFINE Closed(link) == [link EXCEPT !.inp = "closed", !.ctl = "closed", !.remote = FALSE]
<1>1. /\ r \in Peers /\ s \in Other(r) /\ s # r /\ links[s][r] \in Links /\ links[r][s] \in Links
  BY PairIs
<1>2. UNCHANGED <<net, meshed, offers, lostIce, sessions>> BY DEF Fail
<1>3. links' = [links EXCEPT ![s][r] = Closed(links[s][r]), ![r][s] = Closed(links[r][s])]
  BY <1>1 DEF Fail
<1>4. \A l \in Links : Closed(l) \in Links /\ Closed(l).made = l.made /\ Closed(l).sought = l.sought
  BY DEF Links, LinkTypes, States
<1> DEFINE x == Closed(links[s][r])
           y == Closed(links[r][s])
<1>5. /\ x \in Links /\ x.made = links[s][r].made /\ x.sought = links[s][r].sought
      /\ y \in Links /\ y.made = links[r][s].made /\ y.sought = links[r][s].sought
  BY <1>1, <1>4
<1> HIDE DEF x, y
<1>6. DOMAIN links = Peers /\ \A a \in Peers : links[a] \in [Other(a) -> Links]
  BY DEF MeshInv, MeshTypes
<1>7. /\ DOMAIN links' = Peers
      /\ links'[s] = [links[s] EXCEPT ![r] = x] /\ links'[r] = [links[r] EXCEPT ![s] = y]
      /\ \A a \in Peers : a # s /\ a # r => links'[a] = links[a]
  BY <1>1, <1>3, <1>6 DEF x, y
<1>8. \A a \in Peers : links'[a] \in [Other(a) -> Links]
  BY <1>1, <1>5, <1>6, <1>7
<1>9. \A a \in Peers : \A b \in Other(a) : /\ links'[a][b].made = links[a][b].made
                                            /\ links'[a][b].sought = links[a][b].sought
  BY <1>1, <1>5, <1>6, <1>7
<1>10. \A a \in Peers : \A b \in Other(a) : b \in Peers /\ a \in Other(b) BY DEF Other
<1>11. Queues' BY <1>2, <1>9, <1>10 DEF MeshInv, Queues, Queue
<1>12. \A a \in Peers : \A b \in Other(a) : Offered(a, b) => Offered(a, b)'
  BY <1>2, <1>9, <1>10 DEF Offered
<1>13. MeshTypes' BY <1>2, <1>7, <1>8 DEF MeshInv, MeshTypes
<1> QED BY <1>2, <1>11, <1>12, <1>13, Unoffered

THEOREM MeshInvHolds == MeshSpec => []MeshInv
<1>1. MeshInit => MeshInv
  <2> SUFFICES ASSUME MeshInit PROVE MeshInv OBVIOUS
  <2>1. NoLink \in Links /\ ~ NoLink.sought BY DEF NoLink, Links, LinkTypes, States
  <2>2. /\ net = [p \in Pairs |-> <<>>] /\ meshed = {} /\ lostIce = {} /\ sessions = {}
        /\ offers = [s \in Peers |-> <<>>] /\ links = [s \in Peers |-> [r \in Other(s) |-> NoLink]]
    BY DEF MeshInit, Pairs
  <2>3. << >> \in Seq(Messages) /\ \A s \in Peers : << >> \in Seq({r \in Peers : s < r}) BY EmptySeq
  <2>4. MeshTypes BY <2>1, <2>2, <2>3 DEF MeshTypes
  <2>5. ASSUME NEW a \in Peers, NEW b \in Other(a) PROVE Queue(a, b)
    <3>1. b \in Peers /\ a \in Other(b) /\ <<a, b>> \in Pairs BY DEF Other, Pairs
    <3>2. net[<<a, b>>] = << >> /\ links[a][b] = NoLink BY <2>2, <3>1
    <3> QED BY <2>1, <3>2 DEF Queue, QueueOK
  <2> QED BY <2>2, <2>4, <2>5 DEF MeshInv, Queues, Lower, NoCandidateLost
<1>2. MeshInv /\ [MeshNext]_meshVars => MeshInv'
  <2> SUFFICES ASSUME MeshInv, [MeshNext]_meshVars PROVE MeshInv' OBVIOUS
  <2>1. ASSUME NEW s \in Peers, Begin(s) PROVE MeshInv' BY <2>1, BeginKeeps
  <2>2. ASSUME NEW s \in Peers, OfferTo(s) PROVE MeshInv' BY <2>2, OfferToKeeps
  <2>3. ASSUME NEW s \in Peers, StartSession(s) PROVE MeshInv'
    BY <2>3 DEF StartSession, MeshInv, MeshTypes, Queues, Queue, Lower, Offered, NoCandidateLost
  <2>4. ASSUME NEW s \in Peers, NEW r \in Other(s), Candidate(s, r) PROVE MeshInv'
    <3> DEFINE link == [links[s][r] EXCEPT !.sought = FALSE]
    <3>1. /\ links[s][r].sought /\ SetLink(s, r, link) /\ net' = Posted(s, r, "ice")
          /\ UNCHANGED <<meshed, offers, lostIce, sessions>>
      BY <2>4 DEF Candidate
    <3>2. links[s][r] \in Links BY PairIs
    <3>3. link \in Links /\ link.made = links[s][r].made BY <3>2 DEF Links, LinkTypes
    <3>4. links[s][r].made BY <3>1, <3>2 DEF Links
    <3> HIDE DEF link
    <3>5. /\ Queues' /\ MeshTypes'
          /\ \A a \in Peers : \A b \in Other(a) : Offered(a, b) => Offered(a, b)'
      BY <3>1, <3>3, <3>4, Posting DEF Messages
    <3> QED BY <3>1, <3>5, Unoffered
  <2>5. ASSUME NEW s \in Peers, NEW r \in Other(s), Deliver(r, s) PROVE MeshInv'
    BY <2>5, DeliverKeeps
  <2>6. ASSUME NEW s \in Peers, NEW r \in Other(s), Answer(s, r) PROVE MeshInv'
    <3> DEFINE link == [links[s][r] EXCEPT !.todo = "-", !.remote = TRUE, !.sought = TRUE]
    <3>1. /\ links[s][r].todo = "answer" /\ SetLink(s, r, link) /\ net' = Posted(s, r, "answer")
          /\ UNCHANGED <<meshed, offers, lostIce, sessions>>
      BY <2>6 DEF Answer
    <3>2. links[s][r] \in Links BY PairIs
    <3>3. links[s][r].made BY <3>1, <3>2 DEF Links
    <3>4. link \in Links /\ link.made BY <3>2, <3>3 DEF Links, LinkTypes
    <3> HIDE DEF link
    <3>5. /\ Queues' /\ MeshTypes'
          /\ \A a \in Peers : \A b \in Other(a) : Offered(a, b) => Offered(a, b)'
      BY <3>1, <3>3, <3>4, Posting DEF Messages
    <3> QED BY <3>1, <3>5, Unoffered
  <2>7. ASSUME NEW s \in Peers, NEW r \in Other(s), NEW channel \in Channels, Open(s, r, channel)
        PROVE  MeshInv'
    <3> DEFINE link == [links[s][r] EXCEPT ![channel] = "open"]
    <3>1. /\ links[s][r].remote /\ SetLink(s, r, link)
          /\ UNCHANGED <<net, meshed, offers, lostIce, sessions>>
      BY <2>7 DEF Open
    <3>2. links[s][r] \in Links BY PairIs
    <3>3. links[s][r].made BY <3>1, <3>2 DEF Links
    <3>4. link \in Links /\ link.made /\ link.sought = links[s][r].sought
      <4>1. CASE channel = "inp" BY <3>2, <3>3, <4>1 DEF Links, LinkTypes, States
      <4>2. CASE channel = "ctl" BY <3>2, <3>3, <4>2 DEF Links, LinkTypes, States
      <4> QED BY <4>1, <4>2 DEF Channels
    <3> HIDE DEF link
    <3>5. /\ Queues' /\ MeshTypes'
          /\ \A a \in Peers : \A b \in Other(a) : Offered(a, b) => Offered(a, b)'
      BY <3>1, <3>4, Silent
    <3> QED BY <3>1, <3>5, Unoffered
  <2>8. ASSUME NEW s \in Peers, NEW r \in Other(s), Fail(s, r) PROVE MeshInv' BY <2>8, FailKeeps
  <2>9. CASE UNCHANGED meshVars
    BY <2>9 DEF meshVars, MeshInv, MeshTypes, Queues, Queue, Lower, Offered, NoCandidateLost
  <2>10. \A s, r \in Peers : s # r => r \in Other(s) BY DEF Other
  <2> QED BY <2>1, <2>2, <2>3, <2>4, <2>5, <2>6, <2>7, <2>8, <2>9, <2>10 DEF MeshNext
<1> QED BY <1>1, <1>2, PTL DEF MeshSpec

(* As many channels as are open on all connections together are open on     *)
(* each.                                                                    *)
LEMMA AllOpen ==
  ASSUME MeshInv, NEW s \in Peers, ~ ShouldRelay(s), NEW r \in Made(s)
  PROVE  links[s][r].inp = "open"
<1>1. IsFiniteSet(Made(s)) /\ IsFiniteSet(Channels) /\ Cardinality(Channels) = 2
  <2>1. Made(s) \in SUBSET Peers BY DEF Made, Other
  <2>2. IsFiniteSet(Made(s)) BY <2>1, FS_Subset, MeshAssumption
  <2>3. Channels = {"inp"} \cup {"ctl"} /\ "ctl" \notin {"inp"} BY DEF Channels
  <2>4. IsFiniteSet({"inp"}) /\ Cardinality({"inp"}) = 1 BY FS_Singleton
  <2>5. IsFiniteSet({"inp"} \cup {"ctl"}) /\ Cardinality({"inp"} \cup {"ctl"}) = 1 + 1
    BY <2>3, <2>4, FS_AddElement
  <2> QED BY <2>2, <2>3, <2>5
<1> DEFINE all == Made(s) \X Channels
<1>2. IsFiniteSet(all) /\ Cardinality(all) = Cardinality(Made(s)) * 2 BY <1>1, FS_Product
<1>3. OpenChannels(s) \in SUBSET all
  <2> SUFFICES ASSUME NEW p \in OpenChannels(s) PROVE p \in all OBVIOUS
  <2>1. p[1] \in Other(s) /\ p[2] \in Channels /\ p = <<p[1], p[2]>> /\ links[s][p[1]][p[2]] = "open"
    BY DEF OpenChannels
  <2>2. links[s][p[1]] \in Links BY <2>1, PairIs
  <2>3. links[s][p[1]].made BY <2>1, <2>2 DEF Links, Channels
  <2> QED BY <2>1, <2>3 DEF Made
<1>4. Cardinality(OpenChannels(s)) >= 2 * Cardinality(Made(s)) BY DEF ShouldRelay, Expected, OpenCount
<1>5. OpenChannels(s) = all
  <2>1. Cardinality(Made(s)) \in Nat BY <1>1, FS_CardinalityType
  <2>2. IsFiniteSet(OpenChannels(s)) /\ Cardinality(OpenChannels(s)) <= Cardinality(all)
        /\ (Cardinality(OpenChannels(s)) = Cardinality(all) => OpenChannels(s) = all)
    BY <1>2, <1>3, FS_Subset
  <2>3. Cardinality(OpenChannels(s)) \in Nat BY <2>2, FS_CardinalityType
  <2> QED BY <1>2, <1>4, <2>1, <2>2, <2>3
<1>6. <<r, "inp">> \in OpenChannels(s) BY <1>5 DEF Channels
<1> QED BY <1>6 DEF OpenChannels

THEOREM MeshHolds == MeshSpec => [](EveryoneReached /\ NoCandidateLost)
<1>1. MeshInv => EveryoneReached
  <2> SUFFICES ASSUME MeshInv, NEW s \in sessions, NEW r \in Other(s),
                      net[<<r, s>>] = <<>>, r \in sessions, ~ ShouldRelay(s)
               PROVE  links[s][r].inp = "open"
    BY DEF EveryoneReached, Reaches
  <2>1. s \in Peers /\ s \in meshed /\ r \in meshed /\ offers[s] = << >> /\ offers[r] = << >>
    BY DEF MeshInv, MeshTypes
  <2>2. r \in Peers /\ s \in Other(r) /\ s # r BY <2>1 DEF Other
  <2>3. Len(<< >>) = 0 BY EmptySeq
  <2>4. links[s][r].made
    <3>1. CASE s < r
      <4>1. Offered(s, r) \/ \E i \in 1 .. Len(offers[s]) : offers[s][i] = r
        BY <2>1, <3>1 DEF MeshInv, Lower
      <4>2. Offered(s, r) BY <2>1, <2>3, <4>1
      <4> QED BY <4>2 DEF Offered
    <3>2. CASE r < s BY <2>1, <2>2, <2>3, <3>2 DEF MeshInv, Lower, Offered, Reported
    <3> QED BY <2>1, <2>2, <3>1, <3>2, PeersAre
  <2> QED BY <2>1, <2>4, AllOpen DEF Made
<1>2. MeshInv => NoCandidateLost BY DEF MeshInv
<1> QED BY <1>1, <1>2, MeshInvHolds, PTL

(* Whichever flows of a page overtake each other, the pack it shows is that *)
(* of its engine and is found by the next visit; and however many peers     *)
(* offer, answer and fail, each is reached.                                 *)
THEOREM ConnectsHolds == BootSpec /\ MeshSpec => []Connects
<1>1. BootInv => HashIsEngines /\ NextVisitFinds
  BY DEF BootInv, GameInv, StoreInv, FlowInv, Flows, Steps, Verified, NextVisitFinds
<1>2. BootSpec => [](HashIsEngines /\ NextVisitFinds) BY <1>1, BootInvHolds, PTL
<1>3. HashIsEngines /\ NextVisitFinds /\ (EveryoneReached /\ NoCandidateLost) => Connects BY DEF Connects
<1> QED BY <1>2, <1>3, MeshHolds, PTL

-------------------------------------------------------------------------------
(* From a room to a match: the messages of the server to a client.         *)

(* What a queue leaves in force, of what its first n messages say: the last *)
(* value among them, or the one before.                                     *)
After(v, cur, n, x) ==
  \/ x = cur /\ \A l \in 1 .. n : v[l] = <<>>
  \/ \E j \in 1 .. n : v[j] = <<x>> /\ \A l \in 1 .. n : l > j => v[l] = <<>>

LEMMA AfterSame ==
  ASSUME NEW v, NEW w, NEW cur, NEW n \in Nat, NEW x, \A l \in 1 .. n : w[l] = v[l],
         After(v, cur, n, x)
  PROVE  After(w, cur, n, x)
BY DEF After

LEMMA AfterNothing ==
  ASSUME NEW v, NEW w, NEW cur, NEW n \in Nat, NEW x, \A l \in 1 .. n : w[l] = v[l],
         After(v, cur, n, x), w[n + 1] = <<>>
  PROVE  After(w, cur, n + 1, x)
<1>1. /\ n + 1 \in 1 .. n + 1 /\ \A l \in 1 .. n + 1 : l \in 1 .. n \/ l = n + 1
      /\ \A l \in 1 .. n : l \in 1 .. n + 1
  OBVIOUS
<1>2. CASE x = cur /\ \A l \in 1 .. n : v[l] = <<>> BY <1>1, <1>2 DEF After
<1>3. CASE \E j \in 1 .. n : v[j] = <<x>> /\ \A l \in 1 .. n : l > j => v[l] = <<>>
  BY <1>1, <1>3 DEF After
<1> QED BY <1>2, <1>3 DEF After

LEMMA AfterLast ==
  ASSUME NEW w, NEW cur, NEW n \in Nat, NEW x, w[n + 1] = <<x>>
  PROVE  After(w, cur, n + 1, x)
<1>1. n + 1 \in 1 .. n + 1 /\ \A l \in 1 .. n + 1 : ~ (l > n + 1) OBVIOUS
<1> QED BY <1>1 DEF After

LEMMA AfterFirst ==
  ASSUME NEW v, NEW w, NEW cur, NEW then, NEW n \in Nat \ {0}, NEW x,
         \A l \in 1 .. n - 1 : w[l] = v[l + 1],
         (v[1] = <<>> /\ then = cur) \/ v[1] = <<then>>, After(v, cur, n, x)
  PROVE  After(w, then, n - 1, x)
<1>1. 1 \in 1 .. n /\ \A l \in 1 .. n - 1 : l + 1 \in 1 .. n /\ l + 1 > 1 OBVIOUS
<1>2. CASE x = cur /\ \A l \in 1 .. n : v[l] = <<>>
  <2>1. v[1] = <<>> /\ <<>> # <<then>> BY <1>1, <1>2
  <2> QED BY <1>1, <1>2, <2>1 DEF After
<1>3. ASSUME NEW j \in 1 .. n, v[j] = <<x>>, \A l \in 1 .. n : l > j => v[l] = <<>>
      PROVE  After(w, then, n - 1, x)
  <2>1. CASE j = 1
    <3>1. <<x>> # <<>> /\ v[1] = <<then>> /\ then = x BY <1>3, <2>1
    <3>2. \A l \in 1 .. n - 1 : w[l] = <<>> BY <1>1, <1>3, <2>1
    <3> QED BY <3>1, <3>2 DEF After
  <2>2. CASE j # 1
    <3>1. j - 1 \in 1 .. n - 1 /\ (j - 1) + 1 = j BY <2>2
    <3>2. w[j - 1] = <<x>> BY <1>3, <3>1
    <3>3. \A l \in 1 .. n - 1 : l > j - 1 => l + 1 > j OBVIOUS
    <3>4. \A l \in 1 .. n - 1 : l > j - 1 => w[l] = <<>> BY <1>1, <1>3, <3>3
    <3> QED BY <3>1, <3>2, <3>4 DEF After
  <2> QED BY <2>1, <2>2
<1> QED BY <1>2, <1>3 DEF After

Rosters(q) ==
  [i \in 1 .. Len(q) |-> IF q[i].t = "code" THEN <<{q[i].seat}>>
                         ELSE IF q[i].t = "roster" THEN <<q[i].seats>> ELSE <<>>]
Starts(q) == [i \in 1 .. Len(q) |-> IF q[i].t = "start" THEN <<q[i].start>> ELSE <<>>]

(* What a client will have read by a start is the roster of that start, and *)
(* it reads the starts one by one.                                          *)
Mail(q, ros, got, seats, all) ==
  /\ got \in 0 .. Len(all)
  /\ After(Rosters(q), ros, Len(q), seats)
  /\ After(Starts(q), got, Len(q), Len(all))
  /\ \A i \in 1 .. Len(q) : q[i].t = "start" =>
       /\ q[i].start \in 1 .. Len(all)
       /\ After(Rosters(q), ros, i - 1, all[q[i].start])
       /\ After(Starts(q), got, i - 1, q[i].start - 1)

Cfgs == [n : 0 .. 4]
Msgs ==
  [t : {"code"}, seat : Seats] \cup [t : {"roster"}, seats : SUBSET Seats]
    \cup [t : {"cfg"}, cfg : Cfgs] \cup [t : {"start"}, start : Nat]
Asks == [t : {"cfg", "start"}, cfg : Cfgs]

LEMMA Appended ==
  ASSUME NEW q \in Seq(Msgs), NEW m \in Msgs
  PROVE  LET r == Append(q, m)
         IN  /\ r \in Seq(Msgs) /\ Len(q) \in Nat /\ Len(r) = Len(q) + 1 /\ r[Len(q) + 1] = m
             /\ \A i \in 1 .. Len(q) : /\ r[i] = q[i] /\ Rosters(r)[i] = Rosters(q)[i]
                                       /\ Starts(r)[i] = Starts(q)[i]
             /\ m.t = "code" => Rosters(r)[Len(q) + 1] = <<{m.seat}>>
             /\ m.t = "roster" => Rosters(r)[Len(q) + 1] = <<m.seats>>
             /\ m.t \notin {"code", "roster"} => Rosters(r)[Len(q) + 1] = <<>>
             /\ Starts(r)[Len(q) + 1] = IF m.t = "start" THEN <<m.start>> ELSE <<>>
<1> DEFINE r == Append(q, m)
<1>1. /\ r \in Seq(Msgs) /\ Len(q) \in Nat /\ Len(r) = Len(q) + 1 /\ r[Len(q) + 1] = m
      /\ \A i \in 1 .. Len(q) : r[i] = q[i]
  BY AppendProperties, LenProperties
<1> HIDE DEF r
<1>2. Len(q) + 1 \in 1 .. Len(r) /\ \A i \in 1 .. Len(q) : i \in 1 .. Len(r) BY <1>1
<1>3. \A i \in 1 .. Len(q) : Rosters(r)[i] = Rosters(q)[i] /\ Starts(r)[i] = Starts(q)[i]
  BY <1>1, <1>2 DEF Rosters, Starts
<1>4. Starts(r)[Len(q) + 1] = IF m.t = "start" THEN <<m.start>> ELSE <<>>
  BY <1>1, <1>2 DEF Starts
<1>5. /\ m.t = "code" => Rosters(r)[Len(q) + 1] = <<{m.seat}>>
      /\ m.t = "roster" => Rosters(r)[Len(q) + 1] = <<m.seats>>
      /\ m.t \notin {"code", "roster"} => Rosters(r)[Len(q) + 1] = <<>>
  BY <1>1, <1>2 DEF Rosters
<1> QED BY <1>1, <1>3, <1>4, <1>5 DEF r

(* A roster or a config is sent to a client. *)
LEMMA MailTold ==
  ASSUME NEW q \in Seq(Msgs), NEW m \in Msgs, NEW ros, NEW got, NEW seats, NEW all,
         Mail(q, ros, got, seats, all), NEW then,
         m.t \in {"cfg", "roster"}, m.t = "cfg" => then = seats, m.t = "roster" => then = m.seats
  PROVE  Mail(Append(q, m), ros, got, then, all)
<1> DEFINE r == Append(q, m)
<1>1. /\ Len(q) \in Nat /\ Len(r) = Len(q) + 1 /\ r[Len(q) + 1] = m
      /\ \A i \in 1 .. Len(q) : /\ r[i] = q[i] /\ Rosters(r)[i] = Rosters(q)[i]
                                /\ Starts(r)[i] = Starts(q)[i]
      /\ m.t = "roster" => Rosters(r)[Len(q) + 1] = <<m.seats>>
      /\ m.t = "cfg" => Rosters(r)[Len(q) + 1] = <<>>
      /\ Starts(r)[Len(q) + 1] = <<>>
  BY Appended
<1> HIDE DEF r
<1>2. After(Rosters(r), ros, Len(r), then)
  <2>1. After(Rosters(q), ros, Len(q), seats) BY DEF Mail
  <2>2. CASE m.t = "cfg" BY <1>1, <2>1, <2>2, AfterNothing
  <2>3. CASE m.t = "roster" BY <1>1, <2>3, AfterLast
  <2> QED BY <2>2, <2>3
<1>3. After(Starts(r), got, Len(r), Len(all))
  <2>1. After(Starts(q), got, Len(q), Len(all)) BY DEF Mail
  <2> QED BY <1>1, <2>1, AfterNothing
<1>4. ASSUME NEW i \in 1 .. Len(r), r[i].t = "start"
      PROVE  /\ r[i].start \in 1 .. Len(all)
             /\ After(Rosters(r), ros, i - 1, all[r[i].start])
             /\ After(Starts(r), got, i - 1, r[i].start - 1)
  <2>1. i \in 1 .. Len(q) /\ r[i] = q[i] BY <1>1, <1>4
  <2>2. i - 1 \in Nat /\ \A l \in 1 .. i - 1 : l \in 1 .. Len(q) BY <1>1, <2>1
  <2>3. /\ q[i].start \in 1 .. Len(all)
        /\ After(Rosters(q), ros, i - 1, all[q[i].start])
        /\ After(Starts(q), got, i - 1, q[i].start - 1)
    BY <1>4, <2>1 DEF Mail
  <2>4. /\ \A l \in 1 .. i - 1 : Rosters(r)[l] = Rosters(q)[l]
        /\ \A l \in 1 .. i - 1 : Starts(r)[l] = Starts(q)[l]
    BY <1>1, <2>2
  <2>5. After(Rosters(r), ros, i - 1, all[q[i].start]) BY <2>2, <2>3, <2>4, AfterSame
  <2>6. After(Starts(r), got, i - 1, q[i].start - 1) BY <2>2, <2>3, <2>4, AfterSame
  <2> QED BY <2>1, <2>3, <2>5, <2>6
<1> QED BY <1>2, <1>3, <1>4 DEF Mail, r

(* A start is sent to a client. *)
LEMMA MailStarted ==
  ASSUME NEW q \in Seq(Msgs), NEW ros, NEW got, NEW seats \in SUBSET Seats,
         NEW all \in Seq(SUBSET Seats), Mail(q, ros, got, seats, all)
  PROVE  Mail(Append(q, StartOf(Len(all) + 1)), ros, got, seats, Append(all, seats))
<1> DEFINE m == StartOf(Len(all) + 1)
           r == Append(q, m)
           more == Append(all, seats)
<1>1. /\ Len(all) \in Nat /\ Len(more) = Len(all) + 1 /\ more[Len(all) + 1] = seats
      /\ \A k \in 1 .. Len(all) : more[k] = all[k]
  BY AppendProperties, LenProperties
<1>2. m \in Msgs /\ m.t = "start" /\ m.start = Len(all) + 1 BY <1>1 DEF StartOf, Msgs
<1>3. /\ Len(q) \in Nat /\ Len(r) = Len(q) + 1 /\ r[Len(q) + 1] = m
      /\ \A i \in 1 .. Len(q) : /\ r[i] = q[i] /\ Rosters(r)[i] = Rosters(q)[i]
                                /\ Starts(r)[i] = Starts(q)[i]
      /\ Rosters(r)[Len(q) + 1] = <<>> /\ Starts(r)[Len(q) + 1] = <<Len(all) + 1>>
  <2> HIDE DEF m
  <2>1. /\ Len(q) \in Nat /\ Len(r) = Len(q) + 1 /\ r[Len(q) + 1] = m
        /\ \A i \in 1 .. Len(q) : /\ r[i] = q[i] /\ Rosters(r)[i] = Rosters(q)[i]
                                  /\ Starts(r)[i] = Starts(q)[i]
    BY <1>2, Appended
  <2>2. m.t \notin {"code", "roster"} => Rosters(r)[Len(q) + 1] = <<>> BY <1>2, Appended
  <2>3. Starts(r)[Len(q) + 1] = IF m.t = "start" THEN <<m.start>> ELSE <<>> BY <1>2, Appended
  <2> HIDE DEF r
  <2>4. Rosters(r)[Len(q) + 1] = <<>> BY <1>2, <2>2
  <2>5. Starts(r)[Len(q) + 1] = <<Len(all) + 1>> BY <1>2, <2>3
  <2> QED BY <2>1, <2>4, <2>5
<1> HIDE DEF r, more, m
<1>4. got \in 0 .. Len(more) BY <1>1 DEF Mail
<1>5. After(Rosters(q), ros, Len(q), seats) /\ After(Starts(q), got, Len(q), Len(all)) BY DEF Mail
<1>6. After(Rosters(r), ros, Len(r), seats) BY <1>3, <1>5, AfterNothing
<1>7. After(Starts(r), got, Len(r), Len(more)) BY <1>1, <1>3, AfterLast
<1>8. ASSUME NEW i \in 1 .. Len(r), r[i].t = "start"
      PROVE  /\ r[i].start \in 1 .. Len(more)
             /\ After(Rosters(r), ros, i - 1, more[r[i].start])
             /\ After(Starts(r), got, i - 1, r[i].start - 1)
  <2>1. i - 1 \in Nat /\ \A l \in 1 .. i - 1 : l \in 1 .. Len(q) BY <1>3
  <2>2. CASE i \in 1 .. Len(q)
    <3>1. r[i] = q[i] BY <1>3, <2>2
    <3>2. /\ q[i].start \in 1 .. Len(all)
          /\ After(Rosters(q), ros, i - 1, all[q[i].start])
          /\ After(Starts(q), got, i - 1, q[i].start - 1)
      BY <1>8, <2>2, <3>1 DEF Mail
    <3>3. q[i].start \in 1 .. Len(more) /\ more[q[i].start] = all[q[i].start] BY <1>1, <3>2
    <3>4. /\ \A l \in 1 .. i - 1 : Rosters(r)[l] = Rosters(q)[l]
          /\ \A l \in 1 .. i - 1 : Starts(r)[l] = Starts(q)[l]
      BY <1>3, <2>1
    <3>5. After(Rosters(r), ros, i - 1, all[q[i].start]) BY <2>1, <3>2, <3>4, AfterSame
    <3>6. After(Starts(r), got, i - 1, q[i].start - 1) BY <2>1, <3>2, <3>4, AfterSame
    <3> QED BY <3>1, <3>2, <3>3, <3>5, <3>6
  <2>3. CASE i = Len(q) + 1
    <3>1. r[i].start = Len(all) + 1 /\ r[i].start \in 1 .. Len(more) BY <1>1, <1>2, <1>3, <2>3
    <3>2. i - 1 = Len(q) /\ r[i].start - 1 = Len(all) BY <1>1, <1>3, <2>3, <3>1
    <3>3. After(Rosters(r), ros, Len(q), seats) /\ After(Starts(r), got, Len(q), Len(all))
      BY <1>3, <1>5, AfterSame
    <3> QED BY <1>1, <3>1, <3>2, <3>3
  <2> QED BY <1>3, <2>2, <2>3
<1> QED BY <1>4, <1>6, <1>7, <1>8 DEF Mail, r, more, m

(* A client reads its next message. *)
Learnt(m, ros) ==
  IF m.t = "code" THEN {m.seat} ELSE IF m.t = "roster" THEN m.seats ELSE ros
StartsRead(m, got) == IF m.t = "start" THEN got + 1 ELSE got

LEMMA MailRead ==
  ASSUME NEW q \in Seq(Msgs), q # <<>>, NEW ros, NEW got, NEW seats, NEW all,
         Len(all) \in Nat, Mail(q, ros, got, seats, all)
  PROVE  /\ Head(q).t = "start" =>
              Head(q).start = got + 1 /\ got + 1 \in 1 .. Len(all) /\ all[got + 1] = ros
         /\ Mail(Tail(q), Learnt(Head(q), ros), StartsRead(Head(q), got), seats, all)
<1> DEFINE r == Tail(q)
           m == Head(q)
           n == Len(q)
           upTo == StartsRead(m, got)
           then == Learnt(m, ros)
<1>1. /\ n \in Nat \ {0} /\ Len(r) = n - 1 /\ m = q[1] /\ 1 \in 1 .. n /\ m \in Msgs
      /\ \A i \in 1 .. n - 1 : r[i] = q[i + 1]
  BY HeadTailProperties, LenProperties, EmptySeq
<1> HIDE DEF r, m, n
<1>2. got \in Nat BY DEF Mail
<1>3. m.t = "start" => m.start = got + 1 /\ got + 1 \in 1 .. Len(all) /\ all[got + 1] = ros
  <2> SUFFICES ASSUME m.t = "start"
               PROVE  m.start = got + 1 /\ got + 1 \in 1 .. Len(all) /\ all[got + 1] = ros
    OBVIOUS
  <2>1. /\ m.start \in 1 .. Len(all) /\ After(Rosters(q), ros, 1 - 1, all[m.start])
        /\ After(Starts(q), got, 1 - 1, m.start - 1)
    BY <1>1 DEF Mail, n
  <2>2. ~ \E j \in 1 .. 0 : TRUE OBVIOUS
  <2>3. all[m.start] = ros /\ m.start - 1 = got BY <2>1, <2>2 DEF After
  <2> QED BY <1>1, <1>2, <2>1, <2>3
<1>4. /\ \A l \in 1 .. n - 1 : l + 1 \in 1 .. n
      /\ \A l \in 1 .. n - 1 : Rosters(r)[l] = Rosters(q)[l + 1]
      /\ \A l \in 1 .. n - 1 : Starts(r)[l] = Starts(q)[l + 1]
  <2>1. \A l \in 1 .. n - 1 : l + 1 \in 1 .. n BY <1>1
  <2> QED BY <1>1, <2>1 DEF Rosters, Starts, n
<1>5. (Rosters(q)[1] = <<>> /\ then = ros) \/ Rosters(q)[1] = <<then>>
  BY <1>1 DEF Rosters, Learnt, n
<1>6. (Starts(q)[1] = <<>> /\ upTo = got) \/ Starts(q)[1] = <<upTo>>
  BY <1>1, <1>3 DEF Starts, StartsRead, n
<1>7. upTo \in 0 .. Len(all) BY <1>2, <1>3 DEF Mail, StartsRead
<1> HIDE DEF upTo, then
<1>8. After(Rosters(q), ros, n, seats) /\ After(Starts(q), got, n, Len(all)) BY DEF Mail, n
<1>9. After(Rosters(r), then, n - 1, seats) BY <1>1, <1>4, <1>5, <1>8, AfterFirst
<1>10. After(Starts(r), upTo, n - 1, Len(all)) BY <1>1, <1>4, <1>6, <1>8, AfterFirst
<1>11. ASSUME NEW i \in 1 .. Len(r), r[i].t = "start"
       PROVE  /\ r[i].start \in 1 .. Len(all)
              /\ After(Rosters(r), then, i - 1, all[r[i].start])
              /\ After(Starts(r), upTo, i - 1, r[i].start - 1)
  <2>1. i + 1 \in 1 .. n /\ r[i] = q[i + 1] /\ (i + 1) - 1 = i /\ i \in Nat \ {0} BY <1>1
  <2>2. /\ r[i].start \in 1 .. Len(all)
        /\ After(Rosters(q), ros, i, all[r[i].start])
        /\ After(Starts(q), got, i, r[i].start - 1)
    BY <1>11, <2>1 DEF Mail, n
  <2>3. \A l \in 1 .. i - 1 : l \in 1 .. n - 1 BY <1>1
  <2>4. /\ \A l \in 1 .. i - 1 : Rosters(r)[l] = Rosters(q)[l + 1]
        /\ \A l \in 1 .. i - 1 : Starts(r)[l] = Starts(q)[l + 1]
    BY <1>4, <2>3
  <2>5. After(Rosters(r), then, i - 1, all[r[i].start]) BY <1>5, <2>1, <2>2, <2>4, AfterFirst
  <2>6. After(Starts(r), upTo, i - 1, r[i].start - 1) BY <1>6, <2>1, <2>2, <2>4, AfterFirst
  <2> QED BY <2>2, <2>5, <2>6
<1>12. Mail(r, then, upTo, seats, all) BY <1>1, <1>7, <1>9, <1>10, <1>11 DEF Mail
<1> QED BY <1>3, <1>12 DEF r, m, upTo, then
(* The room: a seat has one client, a client one seat.  Nothing is on its   *)
(* way to who is not in it.  A member knows its seat once the code is read, *)
(* and it has offered what each start asks of that seat.                    *)
SeatMaps == UNION {[ss -> Clients] : ss \in SUBSET Seats}
LobbyTypes ==
  /\ room \in [seats : SeatMaps, cfg : Cfgs, inProgress : BOOLEAN]
  /\ toHost \in Seq(Asks) /\ inbox \in [Clients -> Seq(Msgs)] /\ left \subseteq Guests
  /\ mySeat \in [Clients -> Seats] /\ roster \in [Clients -> SUBSET Seats]
  /\ cfg \in [Clients -> Cfgs] /\ begun \in [Clients -> Seq(Nat)]
  /\ offered \in [Clients -> Seq(SUBSET Seats)] /\ DOMAIN session = Clients
  /\ started \in Seq(SUBSET Seats)

Members == Range(room.seats)
Seating ==
  /\ 0 \in Seated(room) /\ room.seats[0] = Host
  /\ \A s, t \in Seated(room) : room.seats[s] = room.seats[t] => s = t
  /\ left \cap Members = {}
  /\ started # <<>> => room.inProgress

Unused(c) == inbox[c] = <<>> /\ offered[c] = <<>> /\ begun[c] = <<>> /\ ~InMatch(c)
Codes(c) ==
  \A i \in 1 .. Len(inbox[c]) : inbox[c][i].t = "code" =>
    /\ i = 1 /\ offered[c] = <<>>
    /\ inbox[c][i].seat \in Seated(room) /\ room.seats[inbox[c][i].seat] = c
KnowsSeat(c) ==
  inbox[c] = <<>> \/ inbox[c][1].t # "code" => mySeat[c] \in Seated(room) /\ room.seats[mySeat[c]] = c
Member(c) ==
  /\ Mail(inbox[c], roster[c], Len(offered[c]), Seated(room), started)
  /\ Codes(c) /\ KnowsSeat(c)
  /\ \A k \in 1 .. Len(offered[c]) : offered[c][k] = Targets(mySeat[c], started[k])
  /\ offered[c] = <<>> => begun[c] = <<>> /\ ~InMatch(c)

(* As long as nobody has left, no config has more seats than there are, and *)
(* no roster comes after a start.                                           *)
AtMost(seats) == Max({2, Cardinality(seats)})
Fits(m, seats) ==
  /\ m.t = "cfg" => m.cfg.n <= AtMost(seats)
  /\ m.t = "roster" => m.seats \subseteq seats
Settled(q, got) ==
  \A i \in 1 .. Len(q) : q[i].t \in {"roster", "code"} =>
    got = 0 /\ \A j \in 1 .. Len(q) : j < i => q[j].t # "start"
There(c, seats) ==
  /\ cfg[c].n <= AtMost(seats) /\ roster[c] \subseteq seats
  /\ \A i \in 1 .. Len(inbox[c]) : Fits(inbox[c][i], seats)
  /\ Settled(inbox[c], Len(offered[c]))
  /\ \A i \in 1 .. Len(begun[c]) : begun[c][i] \in 1 .. Len(started)
  /\ InMatch(c) => /\ session[c].start \in 1 .. Len(started) /\ session[c].n = AtMost(seats)
                   /\ session[c].seat \in seats /\ room.seats[session[c].seat] = c
AllThere ==
  LET seats == Seated(room)
  IN  /\ \E m \in 1 .. 4 : seats = 0 .. m - 1
      /\ \A k \in 1 .. Len(started) : started[k] = seats
      /\ \A c \in Clients : There(c, seats)
      /\ room.cfg.n <= AtMost(seats)
      /\ \A i \in 1 .. Len(toHost) : toHost[i].cfg.n <= AtMost(seats)

LobbyInv ==
  /\ LobbyTypes /\ Seating
  /\ \A c \in Clients : c \notin Members \cup left => Unused(c)
  /\ \A c \in Members : Member(c)
  /\ \A c \in left : inbox[c] = <<>>
  /\ left = {} => AllThere

-------------------------------------------------------------------------------
(* Numbers of seats.                                                       *)

LEMMA GreaterOf ==
  ASSUME NEW a \in Int, NEW b \in Int
  PROVE  Max({a, b}) = IF a >= b THEN a ELSE b
<1>1. \E x \in {a, b} : \A y \in {a, b} : x >= y
  <2>1. CASE a >= b BY <2>1
  <2>2. CASE ~ (a >= b) BY <2>2
  <2> QED BY <2>1, <2>2
<1>2. PICK x : x = Max({a, b}) OBVIOUS
<1>3. x \in {a, b} /\ \A y \in {a, b} : x >= y BY <1>1, <1>2 DEF Max
<1>4. x >= a /\ x >= b /\ (x = a \/ x = b) BY <1>3
<1>5. x = IF a >= b THEN a ELSE b BY <1>4
<1> QED BY <1>2, <1>5

LEMMA GreatestOf ==
  ASSUME NEW a \in Int, NEW b \in Int, NEW c \in Int, a >= b, a >= c \/ b >= c
  PROVE  Max({a, b, c}) = a /\ Max({b, a, c}) = a
<1>1. a \in {a, b, c} /\ \A y \in {a, b, c} : a >= y OBVIOUS
<1>2. \A x \in {a, b, c} : (\A y \in {a, b, c} : x >= y) => x = a OBVIOUS
<1>3. Max({a, b, c}) = a BY <1>1, <1>2 DEF Max
<1>4. {b, a, c} = {a, b, c} OBVIOUS
<1> QED BY <1>3, <1>4

LEMMA LesserOf ==
  ASSUME NEW a \in Int, NEW b \in Int
  PROVE  Min({a, b}) = IF a <= b THEN a ELSE b
<1>1. \E x \in {a, b} : \A y \in {a, b} : x <= y
  <2>1. CASE a <= b BY <2>1
  <2>2. CASE ~ (a <= b) BY <2>2
  <2> QED BY <2>1, <2>2
<1>2. PICK x : x = Min({a, b}) OBVIOUS
<1>3. x \in {a, b} /\ \A y \in {a, b} : x <= y BY <1>1, <1>2 DEF Min
<1>4. x <= a /\ x <= b /\ (x = a \/ x = b) BY <1>3
<1>5. x = IF a <= b THEN a ELSE b BY <1>4
<1> QED BY <1>2, <1>5

(* The seat of a newcomer. *)
LEMMA FirstFree ==
  ASSUME NEW ss \in SUBSET Seats, ss # Seats
  PROVE  Min(Seats \ ss) \in Seats \ ss /\ \A x \in Seats : x < Min(Seats \ ss) => x \in ss
<1>1. \E x \in Seats \ ss : \A y \in Seats \ ss : x <= y
  <2>1. CASE 0 \notin ss BY <2>1 DEF Seats
  <2>2. CASE 0 \in ss /\ 1 \notin ss BY <2>2 DEF Seats
  <2>3. CASE 0 \in ss /\ 1 \in ss /\ 2 \notin ss BY <2>3 DEF Seats
  <2>4. CASE 0 \in ss /\ 1 \in ss /\ 2 \in ss
    <3>1. 3 \notin ss BY <2>4, \A x \in Seats : x \in {0, 1, 2, 3} DEF Seats
    <3> QED BY <2>4, <3>1 DEF Seats
  <2> QED BY <2>1, <2>2, <2>3, <2>4
<1>2. PICK x : x = Min(Seats \ ss) OBVIOUS
<1>3. x \in Seats \ ss /\ \A y \in Seats \ ss : x <= y BY <1>1, <1>2 DEF Min
<1>4. \A y \in Seats : y < x => y \in ss BY <1>3 DEF Seats
<1> QED BY <1>2, <1>3, <1>4

LEMMA SeatCounts ==
  ASSUME NEW seats \in SUBSET Seats, NEW ss \in SUBSET seats
  PROVE  /\ Cardinality(ss) \in 0 .. 4 /\ Cardinality(ss) <= Cardinality(seats)
         /\ AtMost(seats) \in 2 .. 4 /\ AtMost(ss) \in 2 .. 4
         /\ AtMost(ss) <= AtMost(seats) /\ Cardinality(ss) <= AtMost(seats)
         /\ AtMost(seats) = Max({2, Cardinality(seats)})
<1>1. IsFiniteSet(Seats) /\ Cardinality(Seats) = 4
  <2>1. 0 \in Int /\ 3 \in Int /\ ~ (0 > 3) OBVIOUS
  <2>2. IsFiniteSet(0 .. 3) /\ Cardinality(0 .. 3) = IF 0 > 3 THEN 0 ELSE 3 - 0 + 1 BY <2>1, FS_Interval
  <2> QED BY <2>2 DEF Seats
<1>2. IsFiniteSet(seats) /\ Cardinality(seats) <= 4 BY <1>1, FS_Subset
<1>3. IsFiniteSet(ss) /\ Cardinality(ss) <= Cardinality(seats) BY <1>2, FS_Subset
<1>4. Cardinality(seats) \in Nat /\ Cardinality(ss) \in Nat BY <1>2, <1>3, FS_CardinalityType
<1>5. /\ AtMost(seats) = IF 2 >= Cardinality(seats) THEN 2 ELSE Cardinality(seats)
      /\ AtMost(ss) = IF 2 >= Cardinality(ss) THEN 2 ELSE Cardinality(ss)
  BY <1>4, GreaterOf DEF AtMost
<1>6. AtMost(seats) = Max({2, Cardinality(seats)}) BY DEF AtMost
<1>7. \E a \in Nat : \E b \in Nat :
        a = Cardinality(seats) /\ b = Cardinality(ss) /\ a <= 4 /\ b <= a
  BY <1>2, <1>3, <1>4
<1> QED BY <1>5, <1>6, <1>7

LEMMA PackedIs ==
  ASSUME NEW n \in Nat
  PROVE  Packed(n) \in Cfgs /\ Packed(n).n = IF n <= 2 THEN 2 ELSE IF n <= 4 THEN n ELSE 4
<1>1. PICK low \in Nat : low = Min({4, n}) /\ low = IF 4 <= n THEN 4 ELSE n BY LesserOf
<1>2. PICK top \in Nat : top = Max({2, low}) /\ top = IF 2 >= low THEN 2 ELSE low BY GreaterOf
<1>3. Packed(n) = [n |-> top] BY <1>1, <1>2 DEF Packed
<1>4. top \in 0 .. 4 /\ top = IF n <= 2 THEN 2 ELSE IF n <= 4 THEN n ELSE 4 BY <1>1, <1>2
<1> QED BY <1>3, <1>4 DEF Cfgs

LEMMA SessionIs ==
  ASSUME NEW k, NEW seat, NEW seats \in SUBSET Seats, NEW c \in Cfgs, c.n <= AtMost(seats)
  PROVE  /\ SessionOf(k, seat, seats, c).n = AtMost(seats)
         /\ SessionOf(k, seat, seats, c).seat = seat /\ SessionOf(k, seat, seats, c).start = k
<1>1. PICK a \in 0 .. 4 : a = Cardinality(seats) BY SeatCounts
<1>2. AtMost(seats) = IF 2 >= a THEN 2 ELSE a BY <1>1, GreaterOf DEF AtMost
<1>3. PICK b \in 0 .. 4 : b = c.n /\ b <= AtMost(seats) BY DEF Cfgs
<1>4. PICK x \in 2 .. 4 : x = AtMost(seats) BY SeatCounts
<1>5. Max({2, a, b}) = x
  <2>1. CASE 2 >= a
    <3>1. x = 2 /\ 2 >= b BY <1>2, <1>3, <1>4, <2>1
    <3> QED BY <2>1, <3>1, GreatestOf
  <2>2. CASE a > 2
    <3>1. x = a /\ a >= b /\ a >= 2 BY <1>2, <1>3, <1>4, <2>2
    <3> QED BY <3>1, GreatestOf
  <2> QED BY <2>1, <2>2
<1>6. Min({4, x}) = x BY LesserOf
<1>7. SessionOf(k, seat, seats, c) = [start |-> k, seat |-> seat, n |-> x]
  BY <1>1, <1>3, <1>5, <1>6 DEF SessionOf
<1> QED BY <1>4, <1>7

-------------------------------------------------------------------------------
(* What a step leaves alone, and what a message more changes.              *)

LEMMA TheRoom ==
  ASSUME LobbyTypes, Seating
  PROVE  /\ room.seats \in [Seated(room) -> Clients] /\ Seated(room) \in SUBSET Seats
         /\ Members \subseteq Clients /\ Host \in Members
         /\ \A s \in Seated(room) : room.seats[s] \in Members
         /\ \A c \in Members : \E s \in Seated(room) : room.seats[s] = c
<1>1. room.seats \in SeatMaps BY DEF LobbyTypes
<1>2. PICK ss \in SUBSET Seats : room.seats \in [ss -> Clients] BY <1>1 DEF SeatMaps
<1>3. Seated(room) = ss BY <1>2 DEF Seated
<1>4. /\ \A s \in Seated(room) : room.seats[s] \in Members
      /\ \A c \in Members : \E s \in Seated(room) : room.seats[s] = c
  BY DEF Members, Range, Seated
<1>5. Host \in Members BY <1>4 DEF Seating
<1>6. Members \subseteq Clients BY <1>2, <1>3, <1>4
<1> QED BY <1>2, <1>3, <1>4, <1>5, <1>6

LEMMA Kept ==
  ASSUME NEW c, inbox'[c] = inbox[c], mySeat'[c] = mySeat[c], roster'[c] = roster[c],
         begun'[c] = begun[c], offered'[c] = offered[c], session'[c] = session[c],
         room'.seats = room.seats, started' = started
  PROVE  (Member(c) => Member(c)') /\ (Unused(c) => Unused(c)')
<1>1. Unused(c) => Unused(c)' BY DEF Unused, InMatch
<1>2. Mail(inbox[c], roster[c], Len(offered[c]), Seated(room), started)
        => Mail(inbox[c], roster[c], Len(offered[c]), Seated(room), started)'
  BY DEF Seated
<1>3. Codes(c) => Codes(c)' BY DEF Codes, Seated
<1>4. KnowsSeat(c) => KnowsSeat(c)' BY DEF KnowsSeat, Seated
<1>5. Member(c) => Member(c)' BY <1>2, <1>3, <1>4 DEF Member, InMatch, Seated
<1> QED BY <1>1, <1>5

LEMMA KeptThere ==
  ASSUME NEW c, NEW seats, There(c, seats), inbox'[c] = inbox[c], roster'[c] = roster[c],
         cfg'[c] = cfg[c] \/ cfg'[c].n <= AtMost(seats), begun'[c] = begun[c],
         offered'[c] = offered[c], session'[c] = session[c], room'.seats = room.seats,
         started' = started
  PROVE  There(c, seats)'
BY DEF There, InMatch

LEMMA MemberGets ==
  ASSUME LobbyTypes, NEW c \in Clients, Member(c), NEW m \in Msgs, m.t # "code",
         inbox'[c] = Append(inbox[c], m), mySeat'[c] = mySeat[c], roster'[c] = roster[c],
         begun'[c] = begun[c], offered'[c] = offered[c], session'[c] = session[c],
         \A s \in Seated(room) : room.seats[s] = c =>
           s \in Seated(room') /\ room'.seats[s] = c,
         \/ m.t = "cfg" /\ Seated(room') = Seated(room) /\ started' = started
         \/ m.t = "roster" /\ m.seats = Seated(room') /\ started' = started
         \/ /\ m = StartOf(Len(started) + 1) /\ Seated(room) \in SUBSET Seats
            /\ Seated(room') = Seated(room) /\ started' = Append(started, Seated(room))
  PROVE  Member(c)'
<1>1. PICK q \in Seq(Msgs) : q = inbox[c] BY DEF LobbyTypes
<1>2. PICK r : r = Append(q, m) OBVIOUS
<1>3. /\ r \in Seq(Msgs) /\ Len(q) \in Nat /\ Len(r) = Len(q) + 1 /\ r[Len(q) + 1] = m
      /\ \A i \in 1 .. Len(q) : r[i] = q[i]
  BY <1>2, Appended
<1>4. inbox'[c] = r BY <1>1, <1>2
<1>5. Mail(q, roster[c], Len(offered[c]), Seated(room), started) BY <1>1 DEF Member
<1>6. Mail(r, roster[c], Len(offered[c]), Seated(room'), started')
  <2>1. CASE m.t = "cfg" /\ Seated(room') = Seated(room) /\ started' = started
    <3>1. Mail(r, roster[c], Len(offered[c]), Seated(room), started)
      BY <1>2, <1>5, <2>1, MailTold
    <3> QED BY <2>1, <3>1
  <2>2. CASE m.t = "roster" /\ m.seats = Seated(room') /\ started' = started
    BY <1>2, <1>5, <2>2, MailTold
  <2>3. CASE /\ m = StartOf(Len(started) + 1) /\ Seated(room) \in SUBSET Seats
             /\ Seated(room') = Seated(room) /\ started' = Append(started, Seated(room))
    <3>1. started \in Seq(SUBSET Seats) BY DEF LobbyTypes
    <3> QED BY <1>2, <1>5, <2>3, <3>1, MailStarted
  <2> QED BY <2>1, <2>2, <2>3
<1>7. Codes(c)'
  <2> SUFFICES ASSUME NEW i \in 1 .. Len(r), r[i].t = "code"
               PROVE  /\ i = 1 /\ offered[c] = <<>>
                      /\ r[i].seat \in Seated(room') /\ room'.seats[r[i].seat] = c
    BY <1>4 DEF Codes
  <2>1. i \in 1 .. Len(q) /\ q[i].t = "code" /\ r[i] = q[i] BY <1>3
  <2> QED BY <1>1, <2>1 DEF Member, Codes
<1>8. KnowsSeat(c)'
  <2> SUFFICES ASSUME r = <<>> \/ r[1].t # "code"
               PROVE  mySeat[c] \in Seated(room') /\ room'.seats[mySeat[c]] = c
    BY <1>4 DEF KnowsSeat
  <2>1. q = <<>> \/ r[1] = q[1]
    <3>1. q = <<>> \/ 1 \in 1 .. Len(q) BY <1>3, EmptySeq
    <3> QED BY <1>3, <3>1
  <2>2. r # <<>> BY <1>3, EmptySeq
  <2>3. mySeat[c] \in Seated(room) /\ room.seats[mySeat[c]] = c
    BY <1>1, <2>1, <2>2 DEF Member, KnowsSeat
  <2> QED BY <2>3
<1>9. \A k \in 1 .. Len(offered[c]) : offered[c][k] = Targets(mySeat[c], started'[k])
  <2>1. Len(offered[c]) \in 0 .. Len(started) BY <1>5 DEF Mail
  <2>2. started \in Seq(SUBSET Seats) BY DEF LobbyTypes
  <2>3. \A k \in 1 .. Len(started) : started'[k] = started[k]
    <3>1. \A ss \in SUBSET Seats : \A k \in 1 .. Len(started) : Append(started, ss)[k] = started[k]
      BY <2>2, AppendProperties
    <3> QED BY <3>1
  <2>4. Len(started) \in Nat BY <2>2, LenProperties
  <2>5. \A k \in 1 .. Len(offered[c]) : k \in 1 .. Len(started) BY <2>1, <2>4
  <2> QED BY <2>3, <2>5 DEF Member
<1> QED BY <1>4, <1>6, <1>7, <1>8, <1>9 DEF Member, InMatch

NoStart(q) == \A i \in 1 .. Len(q) : q[i].t # "start"

LEMMA ThereGets ==
  ASSUME LobbyTypes, NEW c \in Clients, NEW seats, NEW more \in SUBSET Seats,
         seats \in SUBSET more, There(c, seats), NEW m \in Msgs, Fits(m, more), m.t # "code",
         m.t = "roster" => Len(offered[c]) = 0 /\ NoStart(inbox[c]),
         inbox'[c] = Append(inbox[c], m), roster'[c] = roster[c], cfg'[c] = cfg[c],
         begun'[c] = begun[c], offered'[c] = offered[c], session'[c] = session[c],
         \A k \in 1 .. Len(started) : k \in 1 .. Len(started'),
         InMatch(c) => more = seats /\ room'.seats = room.seats
  PROVE  There(c, more)'
<1>1. PICK q \in Seq(Msgs) : q = inbox[c] BY DEF LobbyTypes
<1>2. PICK r : r = Append(q, m) OBVIOUS
<1>3. /\ r \in Seq(Msgs) /\ Len(q) \in Nat /\ Len(r) = Len(q) + 1 /\ r[Len(q) + 1] = m
      /\ \A i \in 1 .. Len(q) : r[i] = q[i]
  BY <1>2, Appended
<1>4. inbox'[c] = r BY <1>1, <1>2
<1>5. AtMost(seats) \in Int /\ AtMost(more) \in Int /\ AtMost(seats) <= AtMost(more)
  <2>1. AtMost(seats) \in 2 .. 4 /\ AtMost(more) \in 2 .. 4 /\ AtMost(seats) <= AtMost(more) BY SeatCounts
  <2> QED BY <2>1
<1>6. cfg[c].n \in Int
  <2>1. \A x \in Cfgs : x.n \in Int BY DEF Cfgs
  <2> QED BY <2>1 DEF LobbyTypes
<1>7. cfg[c].n <= AtMost(more) /\ roster[c] \subseteq more BY <1>5, <1>6 DEF There
<1>8. ASSUME NEW i \in 1 .. Len(r) PROVE Fits(r[i], more)
  <2>1. CASE i = Len(q) + 1 BY <1>3, <2>1
  <2>2. CASE i \in 1 .. Len(q)
    <3>1. r[i] = q[i] /\ Fits(q[i], seats) BY <1>1, <1>3, <2>2 DEF There
    <3>2. q[i] \in Msgs BY <2>2, ElementOfSeq
    <3>3. q[i].t = "cfg" => q[i].cfg.n \in Int BY <3>2 DEF Msgs, Cfgs
    <3> QED BY <1>5, <3>1, <3>3 DEF Fits
  <2> QED BY <1>3, <2>1, <2>2
<1>9. Settled(r, Len(offered[c]))
  <2> SUFFICES ASSUME NEW i \in 1 .. Len(r), r[i].t \in {"roster", "code"}
               PROVE  Len(offered[c]) = 0 /\ \A j \in 1 .. Len(r) : j < i => r[j].t # "start"
    BY DEF Settled
  <2>1. CASE i = Len(q) + 1
    <3>1. m.t = "roster" BY <1>3, <2>1
    <3>2. \A j \in 1 .. Len(r) : j < i => j \in 1 .. Len(q) BY <1>3, <2>1
    <3> QED BY <1>1, <1>3, <3>1, <3>2 DEF NoStart
  <2>2. CASE i \in 1 .. Len(q)
    <3>1. \A j \in 1 .. Len(r) : j < i => j \in 1 .. Len(q) BY <1>3, <2>2
    <3>2. Settled(q, Len(offered[c])) BY <1>1 DEF There
    <3> QED BY <1>3, <2>2, <3>1, <3>2 DEF Settled
  <2> QED BY <1>3, <2>1, <2>2
<1>10. \A i \in 1 .. Len(begun[c]) : begun[c][i] \in 1 .. Len(started') BY DEF There
<1>11. InMatch(c) => /\ session[c].start \in 1 .. Len(started') /\ session[c].n = AtMost(more)
                     /\ session[c].seat \in more /\ room'.seats[session[c].seat] = c
  BY DEF There
<1> QED BY <1>4, <1>7, <1>8, <1>9, <1>10, <1>11 DEF There, InMatch

-------------------------------------------------------------------------------
(* The steps of the server.                                                *)

LEMMA Broadcasts ==
  ASSUME NEW box \in [Clients -> Seq(Msgs)], NEW r, NEW m \in Msgs
  PROVE  /\ Broadcast(box, r, m) \in [Clients -> Seq(Msgs)]
         /\ \A c \in Clients : /\ c \in Range(r.seats) => Broadcast(box, r, m)[c] = Append(box[c], m)
                               /\ c \notin Range(r.seats) => Broadcast(box, r, m)[c] = box[c]
<1>1. \A c \in Clients : box[c] \in Seq(Msgs) /\ Append(box[c], m) \in Seq(Msgs)
  BY AppendProperties
<1> QED BY <1>1 DEF Broadcast

LEMMA MailNew ==
  ASSUME NEW s \in Seats, NEW ss \in SUBSET Seats, NEW ros, NEW all, Len(all) = 0
  PROVE  LET q == Append(Append(<<>>, Code(s)), Roster(ss))
         IN  /\ q \in Seq(Msgs) /\ Len(q) = 2 /\ q[1] = Code(s) /\ q[2] = Roster(ss)
             /\ Mail(q, ros, 0, ss, all)
<1> DEFINE one == Append(<<>>, Code(s))
           q == Append(one, Roster(ss))
<1>1. Code(s) \in Msgs /\ Code(s).t = "code" /\ Roster(ss) \in Msgs /\ Roster(ss).t = "roster"
      /\ Roster(ss).seats = ss
  BY DEF Code, Roster, Msgs
<1>2. <<>> \in Seq(Msgs) /\ Len(<<>>) = 0 BY EmptySeq
<1>3. one \in Seq(Msgs) /\ Len(one) = 1 /\ one[1] = Code(s) BY <1>1, <1>2, AppendProperties
<1> HIDE DEF one
<1>4. /\ q \in Seq(Msgs) /\ Len(q) = 2 /\ q[2] = Roster(ss) /\ q[1] = Code(s)
  <2>1. /\ q \in Seq(Msgs) /\ Len(q) = Len(one) + 1 /\ q[Len(one) + 1] = Roster(ss)
        /\ \A i \in 1 .. Len(one) : q[i] = one[i]
    BY <1>1, <1>3, Appended
  <2> HIDE DEF q
  <2>2. 1 \in 1 .. Len(one) /\ Len(one) + 1 = 2 BY <1>3
  <2>3. q[2] = Roster(ss) /\ Len(q) = 2 BY <2>1, <2>2
  <2>4. q[1] = Code(s) BY <1>3, <2>1, <2>2
  <2> QED BY <2>1, <2>3, <2>4
<1> HIDE DEF q
<1>5. \A i \in 1 .. 2 : q[i].t # "start"
  <2>1. \A i \in 1 .. 2 : i = 1 \/ i = 2 OBVIOUS
  <2> QED BY <1>1, <1>4, <2>1
<1>6. Rosters(q)[2] = <<ss>> BY <1>1, <1>4 DEF Rosters
<1>7. \A i \in 1 .. 2 : Starts(q)[i] = <<>> BY <1>4, <1>5 DEF Starts
<1>8. After(Rosters(q), ros, 2, ss)
  <2>1. 2 \in 1 .. 2 /\ \A l \in 1 .. 2 : ~ (l > 2) OBVIOUS
  <2> QED BY <1>6, <2>1 DEF After
<1>9. After(Starts(q), 0, 2, 0) BY <1>7 DEF After
<1>10. 0 \in 0 .. 0 OBVIOUS
<1>11. Mail(q, ros, 0, ss, all) BY <1>4, <1>5, <1>8, <1>9, <1>10 DEF Mail
<1> QED BY <1>4, <1>11 DEF q, one

(* What a client that joins finds. *)
LEMMA JoinGives ==
  ASSUME LobbyTypes, Seating, NEW g \in Guests, Join(g), inbox[g] = <<>>
  PROVE  \E s \in Seats \ Seated(room) :
           /\ \A x \in Seats : x < s => x \in Seated(room)
           /\ Seated(room') = Seated(room) \cup {s} /\ room'.seats[s] = g
           /\ \A x \in Seated(room) : room'.seats[x] = room.seats[x]
           /\ room' \in [seats : SeatMaps, cfg : Cfgs, inProgress : BOOLEAN]
           /\ room'.cfg = room.cfg /\ room'.inProgress = room.inProgress
           /\ inbox' \in [Clients -> Seq(Msgs)] /\ Seated(room') \in SUBSET Seats
           /\ \A c \in Members : inbox'[c] = Append(inbox[c], Roster(Seated(room')))
           /\ \A c \in Clients : c \notin Members \cup {g} => inbox'[c] = inbox[c]
           /\ LET q == Append(Append(<<>>, Code(s)), Roster(Seated(room')))
              IN  inbox'[g] = q \/ inbox'[g] = Append(q, Cfg(room.cfg))
<1>1. /\ Seated(room) \in SUBSET Seats /\ room.seats \in [Seated(room) -> Clients]
      /\ Members \subseteq Clients /\ g \in Clients
  BY TheRoom DEF Clients
<1>2. room.cfg \in Cfgs /\ room \in [seats : SeatMaps, cfg : Cfgs, inProgress : BOOLEAN]
      /\ inbox \in [Clients -> Seq(Msgs)]
  BY DEF LobbyTypes
<1>3. /\ g \notin left \cup Members /\ Seats # Seated(room) BY DEF Join, Members
<1>4. PICK s : s = Min(Seats \ Seated(room)) OBVIOUS
<1>5. s \in Seats \ Seated(room) /\ \A x \in Seats : x < s => x \in Seated(room)
  BY <1>1, <1>3, <1>4, FirstFree
<1>6. PICK map : map = [x \in Seated(room) \cup {s} |-> IF x = s THEN g ELSE room.seats[x]] OBVIOUS
<1>7. PICK r : r = [room EXCEPT !.seats = map] OBVIOUS
<1>8. room' = r BY <1>4, <1>6, <1>7 DEF Join
<1>9. map \in SeatMaps /\ DOMAIN map = Seated(room) \cup {s} /\ map[s] = g
      /\ \A x \in Seated(room) : map[x] = room.seats[x]
  <2>1. Seated(room) \cup {s} \in SUBSET Seats BY <1>1, <1>5
  <2>2. map \in [Seated(room) \cup {s} -> Clients] BY <1>1, <1>6
  <2> QED BY <1>5, <1>6, <2>1, <2>2 DEF SeatMaps
<1>10. /\ r.seats = map /\ r.cfg = room.cfg /\ r.inProgress = room.inProgress
       /\ r \in [seats : SeatMaps, cfg : Cfgs, inProgress : BOOLEAN]
  BY <1>2, <1>7, <1>9
<1>11. PICK ss : ss = Seated(r) OBVIOUS
<1>12. ss = Seated(room) \cup {s} /\ ss \in SUBSET Seats BY <1>1, <1>5, <1>9, <1>10, <1>11 DEF Seated
<1>13. Range(r.seats) = Members \cup {g}
  <2>1. \A c \in Members : c \in Range(r.seats) BY <1>9, <1>10 DEF Members, Range, Seated
  <2>2. g \in Range(r.seats) BY <1>9, <1>10 DEF Range
  <2>3. \A c \in Range(r.seats) : c \in Members \cup {g} BY <1>9, <1>10 DEF Members, Range, Seated
  <2> QED BY <2>1, <2>2, <2>3
<1>14. Code(s) \in Msgs /\ Roster(ss) \in Msgs /\ Cfg(room.cfg) \in Msgs
  BY <1>2, <1>5, <1>12 DEF Code, Roster, Cfg, Msgs
<1>15. PICK box : box = [inbox EXCEPT ![g] = Append(@, Code(s))] OBVIOUS
<1>16. box \in [Clients -> Seq(Msgs)] /\ box[g] = Append(<<>>, Code(s))
       /\ \A c \in Clients : c # g => box[c] = inbox[c]
  <2>1. Append(inbox[g], Code(s)) \in Seq(Msgs) BY <1>1, <1>2, <1>14, AppendProperties
  <2> QED BY <1>1, <1>2, <1>15, <2>1
<1>17. PICK told : told = Broadcast(box, r, Roster(ss)) OBVIOUS
<1>18. told \in [Clients -> Seq(Msgs)]
       /\ \A c \in Clients : /\ c \in Members \cup {g} => told[c] = Append(box[c], Roster(ss))
                             /\ c \notin Members \cup {g} => told[c] = box[c]
  BY <1>13, <1>14, <1>16, <1>17, Broadcasts
<1>19. inbox' = [told EXCEPT ![g] = IF r.cfg = NoCfg THEN @ ELSE Append(@, Cfg(r.cfg))]
  BY <1>4, <1>6, <1>7, <1>11, <1>15, <1>17 DEF Join
<1>20. inbox' \in [Clients -> Seq(Msgs)]
  <2>1. Append(told[g], Cfg(r.cfg)) \in Seq(Msgs) BY <1>1, <1>10, <1>14, <1>18, AppendProperties
  <2> QED BY <1>1, <1>18, <1>19, <2>1
<1>21. \A c \in Members : inbox'[c] = Append(inbox[c], Roster(ss))
  BY <1>1, <1>3, <1>16, <1>18, <1>19
<1>22. \A c \in Clients : c \notin Members \cup {g} => inbox'[c] = inbox[c]
  BY <1>16, <1>18, <1>19
<1>23. PICK q : q = Append(Append(<<>>, Code(s)), Roster(ss)) OBVIOUS
<1>24. told[g] = q BY <1>1, <1>16, <1>18, <1>23
<1>25. inbox'[g] = q \/ inbox'[g] = Append(q, Cfg(room.cfg)) BY <1>1, <1>10, <1>18, <1>19, <1>24
<1>26. Seated(room') = ss BY <1>8, <1>11
<1> QED BY <1>5, <1>8, <1>9, <1>10, <1>12, <1>20, <1>21, <1>22, <1>23, <1>25, <1>26

(* Without a seat in the room, and not gone: nothing is on its way. *)
LEMMA OutOfTheRoom ==
  ASSUME LobbyInv, NEW c \in Clients, c \notin Members
  PROVE  inbox[c] = <<>> /\ (c \in left \/ Unused(c))
BY DEF LobbyInv, Unused

LEMMA NobodyBegan ==
  ASSUME LobbyInv, NEW c \in Clients, started = <<>>
  PROVE  (c \in Members => Len(offered[c]) = 0) /\ NoStart(inbox[c])
<1>1. Len(started) = 0 BY EmptySeq
<1>2. CASE c \in Members
  <2>1. Mail(inbox[c], roster[c], Len(offered[c]), Seated(room), started)
    BY <1>2 DEF LobbyInv, Member
  <2>2. Len(offered[c]) \in 0 .. 0
        /\ \A i \in 1 .. Len(inbox[c]) : inbox[c][i].t = "start" => inbox[c][i].start \in 1 .. 0
    BY <1>1, <2>1 DEF Mail
  <2>3. \A x \in 1 .. 0 : FALSE OBVIOUS
  <2> QED BY <2>2, <2>3 DEF NoStart
<1>3. CASE c \notin Members
  <2>1. Len(inbox[c]) = 0 BY <1>3, OutOfTheRoom, EmptySeq
  <2>2. \A x \in 1 .. 0 : FALSE OBVIOUS
  <2> QED BY <1>3, <2>1, <2>2 DEF NoStart
<1> QED BY <1>2, <1>3

LEMMA JoinKeeps ==
  ASSUME LobbyInv, NEW g \in Guests, Join(g)
  PROVE  LobbyInv'
<1>1. /\ LobbyTypes /\ Seating
      /\ \A c \in Clients : c \notin Members \cup left => Unused(c)
      /\ \A c \in Members : Member(c)
      /\ \A c \in left : inbox[c] = <<>>
  BY DEF LobbyInv
<1>2. /\ Seated(room) \in SUBSET Seats /\ Members \subseteq Clients /\ g \in Clients
      /\ \A x \in Seated(room) : room.seats[x] \in Members
      /\ \A c \in Members : \E x \in Seated(room) : room.seats[x] = c
  BY <1>1, TheRoom DEF Clients
<1>3. /\ toHost' = toHost /\ left' = left /\ mySeat' = mySeat /\ roster' = roster /\ cfg' = cfg
      /\ begun' = begun /\ offered' = offered /\ session' = session /\ started' = started
      /\ g \notin left \cup Members /\ ~ room.inProgress
  BY DEF Join, Members
<1>4. Unused(g) BY <1>1, <1>2, <1>3
<1>5. inbox[g] = <<>> /\ offered[g] = <<>> /\ begun[g] = <<>> /\ ~InMatch(g) BY <1>4 DEF Unused
<1>6. PICK s \in Seats \ Seated(room) :
           /\ \A x \in Seats : x < s => x \in Seated(room)
           /\ Seated(room') = Seated(room) \cup {s} /\ room'.seats[s] = g
           /\ \A x \in Seated(room) : room'.seats[x] = room.seats[x]
           /\ room' \in [seats : SeatMaps, cfg : Cfgs, inProgress : BOOLEAN]
           /\ room'.cfg = room.cfg /\ room'.inProgress = room.inProgress
           /\ inbox' \in [Clients -> Seq(Msgs)] /\ Seated(room') \in SUBSET Seats
           /\ \A c \in Members : inbox'[c] = Append(inbox[c], Roster(Seated(room')))
           /\ \A c \in Clients : c \notin Members \cup {g} => inbox'[c] = inbox[c]
           /\ LET q == Append(Append(<<>>, Code(s)), Roster(Seated(room')))
              IN  inbox'[g] = q \/ inbox'[g] = Append(q, Cfg(room.cfg))
  BY <1>1, <1>5, JoinGives
<1>7. PICK ss \in SUBSET Seats : ss = Seated(room') BY <1>6
<1>8. Members' = Members \cup {g}
  <2>1. \A c \in Members' : \E x \in Seated(room') : room'.seats[x] = c BY DEF Members, Range, Seated
  <2>2. \A x \in Seated(room') : room'.seats[x] \in Members' BY DEF Members, Range, Seated
  <2>3. \A c \in Members' : c \in Members \cup {g} BY <1>2, <1>6, <2>1
  <2>4. g \in Members' BY <1>6, <2>2
  <2>5. \A c \in Members : c \in Members' BY <1>2, <1>6, <2>2
  <2> QED BY <2>3, <2>4, <2>5
<1>9. LobbyTypes' BY <1>1, <1>3, <1>6 DEF LobbyTypes
<1>10. Seating'
  <2>1. 0 \in Seated(room') /\ room'.seats[0] = Host BY <1>1, <1>6 DEF Seating
  <2>2. \A x, y \in Seated(room') : room'.seats[x] = room'.seats[y] => x = y
    BY <1>1, <1>2, <1>3, <1>6 DEF Seating
  <2>3. left' \cap Members' = {} BY <1>1, <1>3, <1>8 DEF Seating
  <2>4. started' # <<>> => room'.inProgress BY <1>1, <1>3, <1>6 DEF Seating
  <2> QED BY <2>1, <2>2, <2>3, <2>4 DEF Seating
<1>11. ASSUME NEW c \in Clients, c \notin Members' \cup left' PROVE Unused(c)'
  <2>1. Unused(c) /\ inbox'[c] = inbox[c] BY <1>1, <1>3, <1>6, <1>8, <1>11
  <2> QED BY <1>3, <2>1 DEF Unused, InMatch
<1>12. started = <<>> /\ Len(started) = 0 BY <1>1, <1>3, EmptySeq DEF Seating
<1>13. Roster(ss) \in Msgs /\ Roster(ss).t = "roster" /\ Roster(ss).seats = ss
       /\ Cfg(room.cfg) \in Msgs /\ Cfg(room.cfg).t = "cfg" /\ Cfg(room.cfg).cfg = room.cfg
  BY <1>1 DEF Roster, Cfg, Msgs, LobbyTypes
<1>14. PICK q : q = Append(Append(<<>>, Code(s)), Roster(ss)) OBVIOUS
<1>15. /\ q \in Seq(Msgs) /\ Len(q) = 2 /\ q[1] = Code(s) /\ q[2] = Roster(ss)
       /\ Mail(q, roster[g], 0, ss, started)
  BY <1>12, <1>14, MailNew
<1>16. PICK r : r = inbox'[g] OBVIOUS
<1>17. r = q \/ r = Append(q, Cfg(room.cfg)) BY <1>6, <1>7, <1>14, <1>16
<1>18. /\ r \in Seq(Msgs) /\ Len(r) \in {2, 3} /\ r[1] = Code(s) /\ r[2] = Roster(ss)
       /\ Len(r) = 3 => r[3] = Cfg(room.cfg)
       /\ Mail(r, roster[g], 0, ss, started)
  <2>1. CASE r = q BY <1>15, <2>1
  <2>2. CASE r = Append(q, Cfg(room.cfg))
    <3>1. /\ r \in Seq(Msgs) /\ Len(r) = Len(q) + 1 /\ r[Len(q) + 1] = Cfg(room.cfg)
          /\ \A i \in 1 .. Len(q) : r[i] = q[i]
      BY <1>13, <1>15, <2>2, Appended
    <3>2. Len(r) = 3 /\ r[3] = Cfg(room.cfg) /\ r[1] = q[1] /\ r[2] = q[2] BY <1>15, <3>1
    <3>3. Mail(r, roster[g], 0, ss, started) BY <1>13, <1>15, <2>2, MailTold
    <3> QED BY <1>15, <3>1, <3>2, <3>3
  <2> QED BY <1>17, <2>1, <2>2
<1>19. \A i \in 1 .. Len(r) : i = 1 \/ i = 2 \/ (i = 3 /\ Len(r) = 3)
  <2>1. CASE Len(r) = 2 BY <2>1
  <2>2. CASE Len(r) = 3 BY <2>2
  <2> QED BY <1>18, <2>1, <2>2
<1>20. Code(s).t = "code" /\ Code(s).seat = s BY DEF Code
<1>21. Member(g)'
  <2>1. Mail(inbox[g], roster[g], Len(offered[g]), Seated(room), started)'
    <3>1. Len(offered[g]) = 0 BY <1>5, EmptySeq
    <3> QED BY <1>3, <1>7, <1>16, <1>18, <3>1
  <2>2. Codes(g)'
    <3>1. \A i \in 1 .. Len(r) : r[i].t = "code" => i = 1 BY <1>13, <1>18, <1>19
    <3>2. r[1].seat = s BY <1>18, <1>20
    <3> QED BY <1>3, <1>5, <1>6, <1>16, <3>1, <3>2 DEF Codes
  <2>3. KnowsSeat(g)'
    <3>1. r # <<>> BY <1>18, EmptySeq
    <3> QED BY <1>16, <1>18, <1>20, <3>1 DEF KnowsSeat
  <2>4. \A k \in 1 .. Len(offered[g]) : FALSE BY <1>5, EmptySeq
  <2> QED BY <1>3, <1>5, <2>1, <2>2, <2>3, <2>4 DEF Member, InMatch
<1>22. ASSUME NEW c \in Members PROVE Member(c)'
  <2>1. inbox'[c] = Append(inbox[c], Roster(ss)) BY <1>6, <1>7
  <2>2. \A x \in Seated(room) : room.seats[x] = c => x \in Seated(room') /\ room'.seats[x] = c BY <1>6
  <2> QED BY <1>1, <1>2, <1>3, <1>7, <1>13, <2>1, <2>2, MemberGets
<1>23. \A c \in left' : inbox'[c] = <<>>
  <2>1. left \subseteq Clients BY <1>1 DEF LobbyTypes, Clients
  <2>2. \A c \in left : c \notin Members \cup {g} BY <1>1, <1>3 DEF Seating
  <2> QED BY <1>1, <1>3, <1>6, <2>1, <2>2
<1>24. ASSUME left' = {} PROVE AllThere'
  <2>1. AllThere BY <1>3, <1>24 DEF LobbyInv
  <2>2. PICK m \in 1 .. 4 : Seated(room) = 0 .. m - 1 BY <2>1 DEF AllThere
  <2>3. m \in 0 .. 3 /\ s = m
    <3>1. s \in 0 .. 3 /\ ~ (s \in 0 .. m - 1) BY <1>6, <2>2 DEF Seats
    <3>2. s >= m BY <3>1
    <3>3. ~ (m < s)
      <4>1. ASSUME m < s PROVE FALSE
        <5>1. m \in 0 .. 3 BY <3>1, <4>1
        <5>2. m \in 0 .. m - 1 BY <1>6, <2>2, <4>1, <5>1 DEF Seats
        <5> QED BY <5>2
      <4> QED BY <4>1
    <3> QED BY <3>1, <3>2, <3>3
  <2>4. ss = 0 .. (m + 1) - 1 /\ m + 1 \in 1 .. 4
    <3>1. ss = (0 .. m - 1) \cup {m} BY <1>6, <1>7, <2>2, <2>3
    <3> QED BY <2>3, <3>1
  <2>5. PICK old \in SUBSET ss : old = Seated(room) BY <1>6, <1>7
  <2>6. \A k \in 1 .. Len(started) : FALSE BY <1>12
  <2>7. AtMost(old) \in Int /\ AtMost(ss) \in Int /\ AtMost(old) <= AtMost(ss)
    <3>1. AtMost(old) \in 2 .. 4 /\ AtMost(ss) \in 2 .. 4 /\ AtMost(old) <= AtMost(ss) BY SeatCounts
    <3> QED BY <3>1
  <2>8. room.cfg.n <= AtMost(old) /\ \A i \in 1 .. Len(toHost) : toHost[i].cfg.n <= AtMost(old)
    BY <2>1, <2>5 DEF AllThere
  <2>9. \A x \in Cfgs : x.n \in Int BY DEF Cfgs
  <2>10. room.cfg.n <= AtMost(ss) /\ \A i \in 1 .. Len(toHost) : toHost[i].cfg.n <= AtMost(ss)
    <3>1. room.cfg \in Cfgs /\ \A i \in 1 .. Len(toHost) : toHost[i].cfg \in Cfgs
      <4>1. \A i \in 1 .. Len(toHost) : toHost[i] \in Asks BY <1>1, ElementOfSeq DEF LobbyTypes
      <4>2. \A x \in Asks : x.cfg \in Cfgs BY DEF Asks
      <4> QED BY <1>1, <4>1, <4>2 DEF LobbyTypes
    <3> QED BY <2>7, <2>8, <2>9, <3>1
  <2>11. ASSUME NEW c \in Clients PROVE There(c, ss)'
    <3>1. There(c, old) BY <2>1, <2>5 DEF AllThere
    <3>2. CASE c \in Members
      <4>1. inbox'[c] = Append(inbox[c], Roster(ss)) BY <1>6, <1>7, <3>2
      <4>2. ~InMatch(c) BY <2>6, <3>1 DEF There
      <4>3. Fits(Roster(ss), ss) BY <1>13 DEF Fits
      <4>4. Len(offered[c]) = 0 /\ NoStart(inbox[c]) BY <1>12, <3>2, NobodyBegan
      <4>5. \A k \in 1 .. Len(started) : k \in 1 .. Len(started') BY <1>3
      <4> QED BY <1>1, <1>3, <1>13, <3>1, <4>1, <4>2, <4>3, <4>4, <4>5, ThereGets
    <3>3. CASE c = g
      <4>1. cfg[g].n <= AtMost(ss) /\ roster[g] \subseteq ss
        <5>1. cfg[g].n \in Int BY <1>1, <1>2, <2>9 DEF LobbyTypes
        <5> QED BY <2>5, <2>7, <3>1, <3>3, <5>1 DEF There
      <4>2. \A i \in 1 .. Len(r) : Fits(r[i], ss)
        <5>1. Fits(r[1], ss) /\ Fits(r[2], ss) /\ Fits(Cfg(room.cfg), ss)
          BY <1>13, <1>18, <1>20, <2>10 DEF Fits
        <5> QED BY <1>18, <1>19, <5>1
      <4>3. Settled(r, 0)
        <5>1. \A i \in 1 .. Len(r) : r[i].t # "start" BY <1>13, <1>18, <1>19, <1>20
        <5> QED BY <5>1 DEF Settled
      <4>4. Len(offered[g]) = 0 /\ \A i \in 1 .. Len(begun[g]) : FALSE BY <1>5, EmptySeq
      <4> QED BY <1>3, <1>5, <1>16, <3>3, <4>1, <4>2, <4>3, <4>4 DEF There, InMatch
    <3>4. CASE c \notin Members \cup {g}
      <4>1. Unused(c) BY <1>1, <1>3, <1>24, <3>4
      <4>2. inbox'[c] = <<>> /\ offered[c] = <<>> /\ begun[c] = <<>> /\ ~InMatch(c)
        BY <1>6, <3>4, <4>1 DEF Unused
      <4>3. cfg[c].n <= AtMost(ss) /\ roster[c] \subseteq ss
        <5>1. cfg[c].n \in Int BY <1>1, <2>9 DEF LobbyTypes
        <5> QED BY <2>5, <2>7, <3>1, <5>1 DEF There
      <4>4. \A i \in 1 .. Len(<<>>) : FALSE BY EmptySeq
      <4> QED BY <1>3, <4>2, <4>3, <4>4 DEF There, InMatch, Settled
    <3> QED BY <3>2, <3>3, <3>4
  <2>12. \A k \in 1 .. Len(started') : started'[k] = ss BY <1>3, <2>6
  <2> QED BY <1>3, <1>6, <1>7, <2>4, <2>10, <2>11, <2>12 DEF AllThere
<1> QED BY <1>8, <1>9, <1>10, <1>11, <1>21, <1>22, <1>23, <1>24 DEF LobbyInv

LEMMA LeaveKeeps ==
  ASSUME LobbyInv, NEW g \in Guests, Leave(g)
  PROVE  LobbyInv'
<1>1. /\ LobbyTypes /\ Seating
      /\ \A c \in Clients : c \notin Members \cup left => Unused(c)
      /\ \A c \in Members : Member(c)
      /\ \A c \in left : inbox[c] = <<>>
  BY DEF LobbyInv
<1>2. /\ Seated(room) \in SUBSET Seats /\ Members \subseteq Clients /\ g \in Clients
      /\ room.seats \in [Seated(room) -> Clients]
      /\ \A x \in Seated(room) : room.seats[x] \in Members
      /\ \A c \in Members : \E x \in Seated(room) : room.seats[x] = c
  BY <1>1, TheRoom DEF Clients
<1>3. /\ toHost' = toHost /\ left' = left \cup {g} /\ mySeat' = mySeat /\ roster' = roster
      /\ cfg' = cfg /\ begun' = begun /\ offered' = offered /\ session' = session
      /\ started' = started
  BY DEF Leave
<1>4. g # Host BY LobbyAssumption
<1>5. PICK ss : ss = {s \in Seated(room) : room.seats[s] # g} OBVIOUS
<1>6. PICK r : r = [room EXCEPT !.seats = Restrict(@, ss)] OBVIOUS
<1>7. room' = r BY <1>5, <1>6 DEF Leave
<1>8. /\ room \in [seats : SeatMaps, cfg : Cfgs, inProgress : BOOLEAN]
      /\ inbox \in [Clients -> Seq(Msgs)]
  BY <1>1 DEF LobbyTypes
<1>9. /\ Restrict(room.seats, ss) \in SeatMaps /\ DOMAIN Restrict(room.seats, ss) = ss
      /\ \A x \in ss : Restrict(room.seats, ss)[x] = room.seats[x]
  <2>1. ss \in SUBSET Seats /\ ss \subseteq Seated(room) BY <1>2, <1>5
  <2>2. \A x \in ss : room.seats[x] \in Clients BY <1>2, <2>1
  <2>3. Restrict(room.seats, ss) \in [ss -> Clients] BY <2>2 DEF Restrict
  <2> QED BY <2>1, <2>3 DEF SeatMaps, Restrict
<1>10. /\ Seated(room') = ss /\ room'.inProgress = room.inProgress /\ ss \in SUBSET Seats
       /\ \A x \in ss : room'.seats[x] = room.seats[x]
       /\ room' \in [seats : SeatMaps, cfg : Cfgs, inProgress : BOOLEAN]
  BY <1>2, <1>5, <1>6, <1>7, <1>8, <1>9 DEF Seated
<1>11. Members' = Members \ {g}
  <2>1. \A c \in Members' : \E x \in ss : room'.seats[x] = c BY <1>10 DEF Members, Range, Seated
  <2>2. \A x \in ss : room'.seats[x] \in Members' BY <1>10 DEF Members, Range, Seated
  <2>3. \A c \in Members' : c \in Members /\ c # g BY <1>2, <1>5, <1>10, <2>1
  <2>4. \A c \in Members : c # g => c \in Members' BY <1>2, <1>5, <1>10, <2>2
  <2> QED BY <2>3, <2>4
<1>12. Roster(ss) \in Msgs /\ Roster(ss).t = "roster" /\ Roster(ss).seats = ss
  BY <1>10 DEF Roster, Msgs
<1>13. PICK box : box = [inbox EXCEPT ![g] = <<>>] OBVIOUS
<1>14. box \in [Clients -> Seq(Msgs)] /\ box[g] = <<>> /\ \A c \in Clients : c # g => box[c] = inbox[c]
  <2>1. <<>> \in Seq(Msgs) BY EmptySeq
  <2> QED BY <1>2, <1>8, <1>13, <2>1
<1>15. inbox' = Broadcast(box, r, Roster(ss))
  <2>1. Seated(r) = ss BY <1>7, <1>10
  <2> QED BY <1>5, <1>6, <1>13, <2>1 DEF Leave
<1>16. /\ inbox' \in [Clients -> Seq(Msgs)]
       /\ \A c \in Clients : /\ c \in Members \ {g} => inbox'[c] = Append(box[c], Roster(ss))
                             /\ c \notin Members \ {g} => inbox'[c] = box[c]
  <2>1. Range(r.seats) = Members' BY <1>7 DEF Members
  <2> QED BY <1>11, <1>12, <1>14, <1>15, <2>1, Broadcasts
<1>17. LobbyTypes' BY <1>1, <1>3, <1>10, <1>16 DEF LobbyTypes
<1>18. Seating'
  <2>1. 0 \in ss /\ room'.seats[0] = Host BY <1>1, <1>4, <1>5, <1>10 DEF Seating
  <2>2. \A x, y \in ss : room'.seats[x] = room'.seats[y] => x = y BY <1>1, <1>5, <1>10 DEF Seating
  <2>3. left' \cap Members' = {} BY <1>1, <1>3, <1>11 DEF Seating
  <2>4. started' # <<>> => room'.inProgress BY <1>1, <1>3, <1>10 DEF Seating
  <2> QED BY <1>10, <2>1, <2>2, <2>3, <2>4 DEF Seating
<1>19. ASSUME NEW c \in Clients, c \notin Members' \cup left' PROVE Unused(c)'
  <2>1. Unused(c) /\ inbox'[c] = inbox[c] BY <1>1, <1>3, <1>11, <1>14, <1>16, <1>19
  <2> QED BY <1>3, <2>1 DEF Unused, InMatch
<1>20. ASSUME NEW c \in Members, c # g PROVE Member(c)'
  <2>1. inbox'[c] = Append(inbox[c], Roster(ss)) BY <1>2, <1>14, <1>16, <1>20
  <2>2. \A x \in Seated(room) : room.seats[x] = c => x \in ss BY <1>5, <1>20
  <2> QED BY <1>1, <1>2, <1>3, <1>10, <1>12, <2>1, <2>2, MemberGets
<1>21. \A c \in left' : inbox'[c] = <<>>
  <2>1. left \subseteq Clients BY <1>1 DEF LobbyTypes, Clients
  <2>2. \A c \in left : c \notin Members BY <1>1 DEF Seating
  <2> QED BY <1>1, <1>2, <1>3, <1>14, <1>16, <2>1, <2>2
<1>22. left' # {} BY <1>3
<1> QED BY <1>11, <1>17, <1>18, <1>19, <1>20, <1>21, <1>22 DEF LobbyInv

LEMMA ServerTakesKeeps ==
  ASSUME LobbyInv, ServerTakes
  PROVE  LobbyInv'
<1>1. /\ LobbyTypes /\ Seating
      /\ \A c \in Clients : c \notin Members \cup left => Unused(c)
      /\ \A c \in Members : Member(c)
      /\ \A c \in left : inbox[c] = <<>>
  BY DEF LobbyInv
<1>2. /\ Seated(room) \in SUBSET Seats /\ Members \subseteq Clients BY <1>1, TheRoom
<1>3. /\ left' = left /\ mySeat' = mySeat /\ roster' = roster /\ cfg' = cfg /\ begun' = begun
      /\ offered' = offered /\ session' = session /\ toHost # <<>> /\ toHost' = Tail(toHost)
  BY DEF ServerTakes
<1>4. /\ room \in [seats : SeatMaps, cfg : Cfgs, inProgress : BOOLEAN]
      /\ inbox \in [Clients -> Seq(Msgs)] /\ toHost \in Seq(Asks)
      /\ started \in Seq(SUBSET Seats)
  BY <1>1 DEF LobbyTypes
<1>5. PICK ask \in Asks : ask = Head(toHost) BY <1>3, <1>4, HeadTailProperties
<1>6. /\ toHost' \in Seq(Asks) /\ Len(toHost) \in Nat \ {0} /\ Len(toHost') = Len(toHost) - 1
      /\ \A i \in 1 .. Len(toHost') : toHost'[i] = toHost[i + 1]
      /\ ask = toHost[1]
  BY <1>3, <1>4, <1>5, HeadTailProperties, LenProperties, EmptySeq
<1>7. Len(started) \in Nat BY <1>4, LenProperties
<1>8. PICK m \in Msgs :
        \/ /\ m.t = "cfg" /\ ask.t = "cfg" /\ m.cfg = ask.cfg
           /\ room' = [room EXCEPT !.cfg = ask.cfg] /\ started' = started
           /\ inbox' = Broadcast(inbox, room, m)
        \/ /\ m = StartOf(Len(started) + 1) /\ m.t = "start"
           /\ room' = [room EXCEPT !.inProgress = TRUE]
           /\ started' = Append(started, Seated(room))
           /\ inbox' = Broadcast(inbox, room, m)
        \/ m.t = "cfg" /\ room' = room /\ inbox' = inbox /\ started' = started
  <2>1. StartOf(Len(started) + 1) \in Msgs /\ StartOf(Len(started) + 1).t = "start"
    BY <1>7 DEF StartOf, Msgs
  <2>2. Cfg(room.cfg) \in Msgs /\ Cfg(room.cfg).t = "cfg" BY <1>4 DEF Cfg, Msgs
  <2>3. CASE ask.t = "cfg"
    <3>1. ask \in Msgs /\ ask.cfg \in Cfgs BY <2>3 DEF Asks, Msgs
    <3>2. /\ room' = [room EXCEPT !.cfg = ask.cfg] /\ started' = started
          /\ inbox' = Broadcast(inbox, room, ask)
      BY <1>5, <2>3 DEF ServerTakes
    <3> QED BY <2>3, <3>1, <3>2
  <2>4. CASE ask.t # "cfg" /\ ask.cfg # room.cfg
    <3>1. room' = room /\ inbox' = inbox /\ started' = started BY <1>5, <2>4 DEF ServerTakes
    <3> QED BY <2>2, <3>1
  <2>5. CASE ask.t # "cfg" /\ ask.cfg = room.cfg
    <3>1. /\ room' = [room EXCEPT !.inProgress = TRUE]
          /\ started' = Append(started, Seated(room))
          /\ inbox' = Broadcast(inbox, room, StartOf(Len(started) + 1))
      BY <1>5, <2>5 DEF ServerTakes
    <3> QED BY <2>1, <3>1
  <2> QED BY <2>3, <2>4, <2>5
<1>9. CASE room' = room /\ inbox' = inbox /\ started' = started
  <2>1. LobbyTypes' BY <1>1, <1>3, <1>6, <1>9 DEF LobbyTypes
  <2>2. Members' = Members BY <1>9 DEF Members
  <2>3. Seating' BY <1>1, <1>3, <1>9, <2>2 DEF Seating, Seated
  <2>4. \A c : (Member(c) => Member(c)') /\ (Unused(c) => Unused(c)') BY <1>3, <1>9, Kept
  <2>5. ASSUME left' = {} PROVE AllThere'
    <3>1. AllThere BY <1>3, <2>5 DEF LobbyInv
    <3>2. \A c \in Clients : There(c, Seated(room))' BY <1>3, <1>9, <3>1, KeptThere DEF AllThere, Seated
    <3>3. \A i \in 1 .. Len(toHost') : i + 1 \in 1 .. Len(toHost) BY <1>6
    <3>4. \A i \in 1 .. Len(toHost') : toHost'[i].cfg.n <= AtMost(Seated(room))
      BY <1>6, <3>1, <3>3 DEF AllThere
    <3> QED BY <1>9, <3>1, <3>2, <3>4 DEF AllThere, Seated
  <2> QED BY <1>1, <1>3, <1>9, <2>1, <2>2, <2>3, <2>4, <2>5 DEF LobbyInv
<1>10. CASE /\ inbox' = Broadcast(inbox, room, m)
            /\ \/ /\ m.t = "cfg" /\ m.cfg = ask.cfg /\ room' = [room EXCEPT !.cfg = ask.cfg]
                  /\ started' = started
               \/ /\ m = StartOf(Len(started) + 1) /\ m.t = "start"
                  /\ room' = [room EXCEPT !.inProgress = TRUE]
                  /\ started' = Append(started, Seated(room))
  <2>1. inbox' \in [Clients -> Seq(Msgs)] BY <1>4, <1>10, Broadcasts
  <2>2. \A c \in Clients : /\ c \in Members => inbox'[c] = Append(inbox[c], m)
                           /\ c \notin Members => inbox'[c] = inbox[c]
    <3>1. \A c \in Clients :
            /\ c \in Range(room.seats) => Broadcast(inbox, room, m)[c] = Append(inbox[c], m)
            /\ c \notin Range(room.seats) => Broadcast(inbox, room, m)[c] = inbox[c]
      <4>1. PICK box \in [Clients -> Seq(Msgs)] : box = inbox BY <1>4
      <4>2. PICK r : r = room OBVIOUS
      <4>3. \A c \in Clients :
              /\ c \in Range(r.seats) => Broadcast(box, r, m)[c] = Append(box[c], m)
              /\ c \notin Range(r.seats) => Broadcast(box, r, m)[c] = box[c]
        BY Broadcasts
      <4> QED BY <4>1, <4>2, <4>3
    <3> QED BY <1>10, <3>1 DEF Members
  <2>3. room'.seats = room.seats /\ room' \in [seats : SeatMaps, cfg : Cfgs, inProgress : BOOLEAN]
        /\ (room'.cfg = room.cfg \/ room'.cfg = ask.cfg)
    <3>1. ask.cfg \in Cfgs BY DEF Asks
    <3> QED BY <1>4, <1>10, <3>1
  <2>4. Members' = Members /\ Seated(room') = Seated(room) BY <2>3 DEF Members, Seated
  <2>5. /\ started' \in Seq(SUBSET Seats)
        /\ \A k \in 1 .. Len(started) : k \in 1 .. Len(started')
        /\ \A k \in 1 .. Len(started') :
             (k \in 1 .. Len(started) /\ started'[k] = started[k]) \/ started'[k] = Seated(room)
    <3>1. CASE started' = started BY <1>4, <3>1
    <3>2. CASE started' = Append(started, Seated(room))
      <4>1. PICK all \in Seq(SUBSET Seats) : all = started BY <1>4
      <4>2. PICK ss \in SUBSET Seats : ss = Seated(room) BY <1>2
      <4>3. PICK more : more = Append(all, ss) OBVIOUS
      <4>4. /\ more \in Seq(SUBSET Seats) /\ Len(more) = Len(all) + 1 /\ Len(all) \in Nat
            /\ \A k \in 1 .. Len(all) : more[k] = all[k]
            /\ more[Len(all) + 1] = ss
        BY <4>3, AppendProperties, LenProperties
      <4>5. \A k \in 1 .. Len(all) : k \in 1 .. Len(more) BY <4>4
      <4>6. \A k \in 1 .. Len(more) : k \in 1 .. Len(all) \/ k = Len(all) + 1 BY <4>4
      <4>7. started' = more BY <3>2, <4>1, <4>2, <4>3
      <4> QED BY <4>1, <4>2, <4>4, <4>5, <4>6, <4>7
    <3> QED BY <1>10, <3>1, <3>2
  <2>6. LobbyTypes' BY <1>1, <1>3, <1>6, <2>1, <2>3, <2>5 DEF LobbyTypes
  <2>7. Seating'
    <3>1. started' # <<>> => room'.inProgress BY <1>1, <1>4, <1>10 DEF Seating
    <3> QED BY <1>1, <1>3, <2>3, <2>4, <3>1 DEF Seating
  <2>8. ASSUME NEW c \in Clients, c \notin Members' \cup left' PROVE Unused(c)'
    <3>1. Unused(c) /\ inbox'[c] = inbox[c] BY <1>1, <1>3, <2>2, <2>4, <2>8
    <3> QED BY <1>3, <3>1 DEF Unused, InMatch
  <2>9. m.t # "code" BY <1>10
  <2>10. ASSUME NEW c \in Members PROVE Member(c)'
    <3>1. inbox'[c] = Append(inbox[c], m) /\ c \in Clients /\ Member(c) BY <1>1, <1>2, <2>2
    <3> QED BY <1>1, <1>2, <1>3, <1>10, <2>3, <2>4, <2>9, <3>1, MemberGets
  <2>11. \A c \in left' : inbox'[c] = <<>>
    <3>1. left \subseteq Clients BY <1>1 DEF LobbyTypes, Clients
    <3>2. \A c \in left : c \notin Members BY <1>1 DEF Seating
    <3> QED BY <1>1, <1>3, <2>2, <3>1, <3>2
  <2>12. ASSUME left' = {} PROVE AllThere'
    <3>1. AllThere BY <1>3, <2>12 DEF LobbyInv
    <3>2. PICK ss \in SUBSET Seats : ss = Seated(room) BY <1>2
    <3>3. /\ \E n \in 1 .. 4 : ss = 0 .. n - 1
          /\ \A k \in 1 .. Len(started) : started[k] = ss
          /\ \A c \in Clients : There(c, ss)
          /\ room.cfg.n <= AtMost(ss)
          /\ \A i \in 1 .. Len(toHost) : toHost[i].cfg.n <= AtMost(ss)
      BY <3>1, <3>2 DEF AllThere
    <3>4. ask.cfg.n <= AtMost(ss)
      <4>1. 1 \in 1 .. Len(toHost) BY <1>6
      <4> QED BY <1>6, <3>3, <4>1
    <3>5. Fits(m, ss) BY <1>10, <3>4 DEF Fits, StartOf
    <3>6. ASSUME NEW c \in Clients PROVE There(c, ss)'
      <4>1. There(c, ss) BY <3>3
      <4>2. CASE c \in Members
        <5>1. m.t # "roster" BY <1>10
        <5>2. inbox'[c] = Append(inbox[c], m) BY <2>2, <4>2
        <5> QED BY <1>1, <1>3, <2>3, <2>5, <2>9, <3>5, <4>1, <5>1, <5>2, ThereGets
      <4>3. CASE c \notin Members
        <5>1. Unused(c) BY <1>1, <1>3, <2>12, <4>3
        <5>2. inbox'[c] = <<>> /\ begun[c] = <<>> /\ ~InMatch(c) BY <2>2, <4>3, <5>1 DEF Unused
        <5>3. \A i \in 1 .. Len(<<>>) : FALSE BY EmptySeq
        <5> QED BY <1>3, <4>1, <5>2, <5>3 DEF There, InMatch, Settled
      <4> QED BY <4>2, <4>3
    <3>7. \A k \in 1 .. Len(started') : started'[k] = ss BY <2>5, <3>2, <3>3
    <3>8. room'.cfg.n <= AtMost(ss) BY <2>3, <3>3, <3>4
    <3>9. \A i \in 1 .. Len(toHost') : toHost'[i].cfg.n <= AtMost(ss)
      <4>1. \A i \in 1 .. Len(toHost') : i + 1 \in 1 .. Len(toHost) BY <1>6
      <4> QED BY <1>6, <3>3, <4>1
    <3> QED BY <2>4, <3>2, <3>3, <3>6, <3>7, <3>8, <3>9 DEF AllThere
  <2> QED BY <1>2, <2>4, <2>6, <2>7, <2>8, <2>10, <2>11, <2>12 DEF LobbyInv
<1> QED BY <1>8, <1>9, <1>10

-------------------------------------------------------------------------------
(* The steps of the clients.                                               *)

LEMMA Reads ==
  ASSUME NEW q \in Seq(Msgs), q # <<>>
  PROVE  /\ Len(q) \in Nat \ {0} /\ Head(q) = q[1] /\ Head(q) \in Msgs /\ 1 \in 1 .. Len(q)
         /\ Tail(q) \in Seq(Msgs) /\ Len(Tail(q)) = Len(q) - 1
         /\ \A i \in 1 .. Len(Tail(q)) : Tail(q)[i] = q[i + 1] /\ i + 1 \in 1 .. Len(q)
<1>1. /\ Head(q) = q[1] /\ Head(q) \in Msgs /\ Tail(q) \in Seq(Msgs) /\ Len(Tail(q)) = Len(q) - 1
      /\ \A i \in 1 .. Len(Tail(q)) : Tail(q)[i] = q[i + 1]
  BY HeadTailProperties
<1>2. Len(q) \in Nat \ {0} BY LenProperties, EmptySeq
<1> QED BY <1>1, <1>2

(* Of what is left after a message no seat is assigned, and what was fit    *)
(* and settled remains so.                                                  *)
LEMMA ReadOn ==
  ASSUME NEW q \in Seq(Msgs), q # <<>>,
         \A i \in 1 .. Len(q) : q[i].t = "code" => i = 1
  PROVE  /\ \A i \in 1 .. Len(Tail(q)) : Tail(q)[i].t # "code"
         /\ \A seats : (\A i \in 1 .. Len(q) : Fits(q[i], seats))
                          => \A i \in 1 .. Len(Tail(q)) : Fits(Tail(q)[i], seats)
         /\ \A got : Settled(q, got) => Settled(Tail(q), got)
         /\ \A got, more : Settled(q, got) /\ Head(q).t = "start" => Settled(Tail(q), more)
<1> DEFINE r == Tail(q)
<1>1. /\ Len(q) \in Nat \ {0} /\ Head(q) = q[1] /\ 1 \in 1 .. Len(q) /\ Len(r) = Len(q) - 1
      /\ \A i \in 1 .. Len(r) : r[i] = q[i + 1] /\ i + 1 \in 1 .. Len(q)
  BY Reads
<1> HIDE DEF r
<1>2. \A i \in 1 .. Len(r) : i + 1 # 1 /\ 1 < i + 1 /\ \A j \in 1 .. Len(r) : j < i => j + 1 < i + 1
  BY <1>1
<1>3. \A i \in 1 .. Len(r) : r[i].t # "code" BY <1>1, <1>2
<1>4. ASSUME NEW seats, \A i \in 1 .. Len(q) : Fits(q[i], seats)
      PROVE  \A i \in 1 .. Len(r) : Fits(r[i], seats)
  BY <1>1, <1>4
<1>5. ASSUME NEW got, Settled(q, got) PROVE Settled(r, got)
  <2> SUFFICES ASSUME NEW i \in 1 .. Len(r), r[i].t \in {"roster", "code"}
               PROVE  got = 0 /\ \A j \in 1 .. Len(r) : j < i => r[j].t # "start"
    BY DEF Settled
  <2>1. got = 0 /\ \A j \in 1 .. Len(q) : j < i + 1 => q[j].t # "start" BY <1>1, <1>5 DEF Settled
  <2>2. \A j \in 1 .. Len(r) : j < i => r[j] = q[j + 1] /\ j + 1 \in 1 .. Len(q) /\ j + 1 < i + 1
    BY <1>1, <1>2
  <2> QED BY <2>1, <2>2
<1>6. ASSUME NEW got, NEW more, Settled(q, got), Head(q).t = "start" PROVE Settled(r, more)
  <2>1. ASSUME NEW i \in 1 .. Len(r), r[i].t \in {"roster", "code"} PROVE FALSE
    <3>1. \A j \in 1 .. Len(q) : j < i + 1 => q[j].t # "start" BY <1>1, <1>6, <2>1 DEF Settled
    <3> QED BY <1>1, <1>2, <1>6, <3>1
  <2> QED BY <2>1 DEF Settled
<1> QED BY <1>3, <1>4, <1>5, <1>6 DEF r

LEMMA ToldGives ==
  ASSUME LobbyTypes, NEW c \in Clients, Told(c)
  PROVE  \E d \in Clients, x \in Cfgs :
           /\ cfg' = [cfg EXCEPT ![d] = x]
           /\ toHost' = toHost \/ toHost' = Append(toHost, Cfg(x))
           /\ \/ x = cfg[d]
              \/ Head(inbox[c]).t = "cfg" /\ x = Head(inbox[c]).cfg
              \/ x = Packed(2)
              \/ /\ Head(inbox[c]).t = "roster" /\ Head(inbox[c]).seats \in SUBSET Seats
                 /\ x = Packed(Cardinality(Head(inbox[c]).seats))
<1>1. PICK q \in Seq(Msgs) : q = inbox[c] /\ q # <<>> BY DEF LobbyTypes, Told
<1>2. PICK m \in Msgs : m = Head(q) BY <1>1, Reads
<1>3. cfg \in [Clients -> Cfgs] /\ Host \in Clients BY DEF LobbyTypes, Clients
<1>4. \A d \in Clients : cfg = [cfg EXCEPT ![d] = cfg[d]] /\ cfg[d] \in Cfgs BY <1>3
<1>5. Packed(2) \in Cfgs BY PackedIs
<1>6. CASE cfg' = cfg /\ toHost' = toHost BY <1>4, <1>6
<1>7. CASE Publish(2) BY <1>3, <1>5, <1>7 DEF Publish
<1>8. CASE m.t = "roster" /\ Publish(Cardinality(m.seats))
  <2>1. m.seats \in SUBSET Seats BY <1>8 DEF Msgs
  <2>2. Cardinality(m.seats) \in 0 .. 4 BY <2>1, SeatCounts
  <2>3. Packed(Cardinality(m.seats)) \in Cfgs BY <2>2, PackedIs
  <2> QED BY <1>1, <1>2, <1>3, <1>8, <2>1, <2>3 DEF Publish
<1>9. CASE m.t = "cfg" /\ cfg' = [cfg EXCEPT ![c] = m.cfg] /\ toHost' = toHost
  <2>1. m.cfg \in Cfgs BY <1>9 DEF Msgs
  <2> QED BY <1>1, <1>2, <1>9, <2>1
<1> QED BY <1>1, <1>2, <1>6, <1>7, <1>8, <1>9 DEF Told

(* The step of a client leaves the room and the other clients alone. *)
LEMMA OneClient ==
  ASSUME LobbyInv, NEW c \in Clients, room' = room, left' = left, started' = started,
         \A d \in Clients : d # c =>
           /\ inbox'[d] = inbox[d] /\ mySeat'[d] = mySeat[d] /\ roster'[d] = roster[d]
           /\ begun'[d] = begun[d] /\ offered'[d] = offered[d] /\ session'[d] = session[d],
         LobbyTypes', c \in Members => Member(c)',
         c \notin Members => c \in left /\ inbox'[c] = <<>>,
         NEW ss, ss = Seated(room),
         left = {} =>
           /\ There(c, ss)'
           /\ \A d \in Clients : cfg'[d] = cfg[d] \/ cfg'[d].n <= AtMost(ss)
           /\ \A i \in 1 .. Len(toHost') : toHost'[i].cfg.n <= AtMost(ss)
  PROVE  LobbyInv'
<1>1. /\ LobbyTypes /\ Seating
      /\ \A d \in Clients : d \notin Members \cup left => Unused(d)
      /\ \A d \in Members : Member(d)
      /\ \A d \in left : inbox[d] = <<>>
  BY DEF LobbyInv
<1>2. Members \subseteq Clients /\ left \subseteq Clients BY <1>1, TheRoom DEF LobbyTypes, Clients
<1>3. Members' = Members /\ Seated(room') = Seated(room) BY DEF Members
<1>4. Seating' BY <1>1, <1>3 DEF Seating
<1>5. room'.seats = room.seats OBVIOUS
<1>6. \A d \in Clients : d # c => (Member(d) => Member(d)') /\ (Unused(d) => Unused(d)')
  BY <1>5, Kept
<1>7. \A d \in Clients : d \notin Members' \cup left' => Unused(d)' BY <1>1, <1>3, <1>6
<1>8. \A d \in Members' : Member(d)' BY <1>1, <1>2, <1>3, <1>6
<1>9. \A d \in left' : inbox'[d] = <<>>
  <2>1. left \cap Members = {} BY <1>1 DEF Seating
  <2> QED BY <1>1, <1>2, <2>1
<1>10. ASSUME left' = {} PROVE AllThere'
  <2>1. /\ There(c, ss)'
        /\ \A d \in Clients : cfg'[d] = cfg[d] \/ cfg'[d].n <= AtMost(ss)
        /\ \A i \in 1 .. Len(toHost') : toHost'[i].cfg.n <= AtMost(ss)
    BY <1>10
  <2>2. AllThere BY <1>10 DEF LobbyInv
  <2>3. /\ \E m \in 1 .. 4 : ss = 0 .. m - 1
        /\ \A k \in 1 .. Len(started) : started[k] = ss
        /\ \A d \in Clients : There(d, ss)
        /\ room.cfg.n <= AtMost(ss)
    BY <2>2 DEF AllThere
  <2>4. \A d \in Clients : There(d, ss)'
    <3>1. ASSUME NEW d \in Clients, d # c PROVE There(d, ss)'
      <4>1. There(d, ss) /\ (cfg'[d] = cfg[d] \/ cfg'[d].n <= AtMost(ss)) BY <2>1, <2>3
      <4> QED BY <1>5, <3>1, <4>1, KeptThere
    <3> QED BY <2>1, <3>1
  <2>5. Seated(room') = ss BY <1>3
  <2> QED BY <2>1, <2>3, <2>4, <2>5 DEF AllThere
<1> QED BY <1>4, <1>7, <1>8, <1>9, <1>10 DEF LobbyInv

LEMMA HasMail ==
  ASSUME LobbyInv, NEW c \in Clients, inbox[c] # <<>>
  PROVE  c \in Members /\ Member(c)
BY OutOfTheRoom DEF LobbyInv

LEMMA ToldKeeps ==
  ASSUME LobbyInv, NEW c \in Clients, Told(c)
  PROVE  LobbyInv'
<1>1. LobbyTypes /\ Seating BY DEF LobbyInv
<1>2. PICK q \in Seq(Msgs) : q = inbox[c] /\ q # <<>> BY <1>1 DEF LobbyTypes, Told
<1>3. c \in Members /\ Member(c) BY <1>2, HasMail
<1>4. PICK m \in Msgs : m = Head(q) /\ m = q[1] BY <1>2, Reads
<1>5. m.t \in {"code", "roster", "cfg"} BY <1>2, <1>4 DEF Told
<1>6. PICK r \in Seq(Msgs) : r = Tail(q) BY <1>2, Reads
<1>7. /\ Len(q) \in Nat \ {0} /\ 1 \in 1 .. Len(q) /\ Len(r) = Len(q) - 1
      /\ \A i \in 1 .. Len(r) : r[i] = q[i + 1] /\ i + 1 \in 1 .. Len(q)
  BY <1>2, <1>6, Reads
<1>8. /\ room' = room /\ left' = left /\ begun' = begun /\ offered' = offered
      /\ session' = session /\ started' = started /\ inbox' = [inbox EXCEPT ![c] = r]
  BY <1>2, <1>6 DEF Told
<1>9. PICK ros \in SUBSET Seats :
        /\ roster' = [roster EXCEPT ![c] = ros]
        /\ m.t = "code" => ros = {m.seat}
        /\ m.t = "roster" => ros = m.seats
        /\ m.t \notin {"code", "roster"} => ros = roster[c]
  <2>1. roster = [roster EXCEPT ![c] = roster[c]] /\ roster[c] \in SUBSET Seats
    BY <1>1 DEF LobbyTypes
  <2>2. CASE m.t = "code"
    <3>1. m.seat \in Seats BY <2>2 DEF Msgs
    <3>2. roster' = [roster EXCEPT ![c] = {m.seat}] BY <1>2, <1>4, <2>2 DEF Told
    <3> QED BY <2>2, <3>1, <3>2
  <2>3. CASE m.t = "roster"
    <3>1. m.seats \in SUBSET Seats BY <2>3 DEF Msgs
    <3>2. roster' = [roster EXCEPT ![c] = m.seats] BY <1>2, <1>4, <2>3 DEF Told
    <3> QED BY <2>3, <3>1, <3>2
  <2>4. CASE m.t = "cfg"
    <3>1. roster' = roster BY <1>2, <1>4, <2>4 DEF Told
    <3> QED BY <2>1, <2>4, <3>1
  <2> QED BY <1>5, <2>2, <2>3, <2>4
<1>10. PICK seat \in Seats :
         /\ mySeat' = [mySeat EXCEPT ![c] = seat]
         /\ IF m.t = "code" THEN seat = m.seat ELSE seat = mySeat[c]
  <2>1. mySeat = [mySeat EXCEPT ![c] = mySeat[c]] /\ mySeat[c] \in Seats BY <1>1 DEF LobbyTypes
  <2>2. CASE m.t = "code"
    <3>1. m.seat \in Seats BY <2>2 DEF Msgs
    <3>2. mySeat' = [mySeat EXCEPT ![c] = m.seat] BY <1>2, <1>4, <2>2 DEF Told
    <3> QED BY <2>2, <3>1, <3>2
  <2>3. CASE m.t # "code"
    <3>1. mySeat' = mySeat BY <1>2, <1>4, <2>3 DEF Told
    <3> QED BY <2>1, <2>3, <3>1
  <2> QED BY <2>2, <2>3
<1>11. PICK d \in Clients, x \in Cfgs :
         /\ cfg' = [cfg EXCEPT ![d] = x]
         /\ toHost' = toHost \/ toHost' = Append(toHost, Cfg(x))
         /\ \/ x = cfg[d]
            \/ m.t = "cfg" /\ x = m.cfg
            \/ x = Packed(2)
            \/ /\ m.t = "roster" /\ m.seats \in SUBSET Seats
               /\ x = Packed(Cardinality(m.seats))
  BY <1>1, <1>2, <1>4, ToldGives
<1>12. Cfg(x) \in Asks /\ Cfg(x).cfg = x BY DEF Cfg, Asks
<1>13. /\ mySeat \in [Clients -> Seats] /\ roster \in [Clients -> SUBSET Seats]
       /\ cfg \in [Clients -> Cfgs] /\ inbox \in [Clients -> Seq(Msgs)] /\ toHost \in Seq(Asks)
  BY <1>1 DEF LobbyTypes
<1>14. LobbyTypes'
  <2>1. toHost' \in Seq(Asks)
    <3>1. Append(toHost, Cfg(x)) \in Seq(Asks) BY <1>12, <1>13, AppendProperties
    <3> QED BY <1>11, <1>13, <3>1
  <2>2. inbox' \in [Clients -> Seq(Msgs)] BY <1>8, <1>13
  <2>3. mySeat' \in [Clients -> Seats] BY <1>10, <1>13
  <2>4. roster' \in [Clients -> SUBSET Seats] BY <1>9, <1>13
  <2>5. cfg' \in [Clients -> Cfgs] BY <1>11, <1>13
  <2> QED BY <1>1, <1>8, <2>1, <2>2, <2>3, <2>4, <2>5 DEF LobbyTypes
<1>15. /\ inbox'[c] = r /\ roster'[c] = ros /\ mySeat'[c] = seat
       /\ \A e \in Clients : e # c =>
            inbox'[e] = inbox[e] /\ roster'[e] = roster[e] /\ mySeat'[e] = mySeat[e]
  BY <1>8, <1>9, <1>10, <1>13
<1>16. /\ Mail(q, roster[c], Len(offered[c]), Seated(room), started)
       /\ \A i \in 1 .. Len(q) : q[i].t = "code" => i = 1
       /\ m.t = "code" => /\ offered[c] = <<>> /\ m.seat \in Seated(room)
                          /\ room.seats[m.seat] = c
       /\ m.t # "code" => mySeat[c] \in Seated(room) /\ room.seats[mySeat[c]] = c
  BY <1>2, <1>3, <1>4, <1>7 DEF Member, Codes, KnowsSeat
<1>17. \A i \in 1 .. Len(r) : r[i].t # "code" BY <1>2, <1>6, <1>16, ReadOn
<1>18. seat \in Seated(room) /\ room.seats[seat] = c BY <1>10, <1>16
<1>19. Member(c)'
  <2>1. Mail(r, ros, Len(offered[c]), Seated(room), started)
    <3>1. m.t # "start" BY <1>5
    <3>2. started \in Seq(SUBSET Seats) BY <1>1 DEF LobbyTypes
    <3>3. Len(started) \in Nat BY <3>2, LenProperties
    <3>4. Learnt(m, roster[c]) = ros /\ StartsRead(m, Len(offered[c])) = Len(offered[c])
      BY <1>9, <3>1 DEF Learnt, StartsRead
    <3>5. Mail(r, Learnt(m, roster[c]), StartsRead(m, Len(offered[c])), Seated(room), started)
      BY <1>2, <1>4, <1>6, <1>16, <3>3, MailRead
    <3> QED BY <3>4, <3>5
  <2>2. Codes(c)' BY <1>15, <1>17 DEF Codes
  <2>3. KnowsSeat(c)' BY <1>8, <1>15, <1>18 DEF KnowsSeat
  <2>4. \A k \in 1 .. Len(offered[c]) : offered[c][k] = Targets(seat, started[k])
    <3>1. CASE m.t = "code"
      <4>1. \A k \in 1 .. Len(offered[c]) : FALSE BY <1>16, <3>1, EmptySeq
      <4> QED BY <4>1
    <3>2. CASE m.t # "code" BY <1>3, <1>10, <3>2 DEF Member
    <3> QED BY <3>1, <3>2
  <2> QED BY <1>3, <1>8, <1>15, <2>1, <2>2, <2>3, <2>4 DEF Member, InMatch
<1>20. PICK ss \in SUBSET Seats : ss = Seated(room) BY <1>1, TheRoom
<1>21. ASSUME left = {}
       PROVE  /\ There(c, ss)'
              /\ \A e \in Clients : cfg'[e] = cfg[e] \/ cfg'[e].n <= AtMost(ss)
              /\ \A i \in 1 .. Len(toHost') : toHost'[i].cfg.n <= AtMost(ss)
  <2>1. AllThere BY <1>21 DEF LobbyInv
  <2>2. /\ \A e \in Clients : There(e, ss)
        /\ \A i \in 1 .. Len(toHost) : toHost[i].cfg.n <= AtMost(ss)
    BY <1>20, <2>1 DEF AllThere
  <2>3. /\ cfg[c].n <= AtMost(ss) /\ cfg[d].n <= AtMost(ss) /\ roster[c] \subseteq ss
        /\ \A i \in 1 .. Len(q) : Fits(q[i], ss)
        /\ Settled(q, Len(offered[c]))
    BY <1>2, <2>2 DEF There
  <2>4. AtMost(ss) \in 2 .. 4 BY SeatCounts
  <2>5. Fits(m, ss) BY <1>4, <1>7, <2>3
  <2>6. x.n <= AtMost(ss)
    <3>1. Packed(2).n = 2 BY PackedIs
    <3>2. CASE m.t = "roster" /\ m.seats \in SUBSET Seats /\ x = Packed(Cardinality(m.seats))
      <4>1. m.seats \in SUBSET ss BY <2>5, <3>2 DEF Fits
      <4>2. PICK n \in 0 .. 4 : n = Cardinality(m.seats) /\ n <= AtMost(ss) BY <4>1, SeatCounts
      <4>3. Packed(n).n = IF n <= 2 THEN 2 ELSE IF n <= 4 THEN n ELSE 4 BY PackedIs
      <4> QED BY <2>4, <3>2, <4>2, <4>3
    <3>3. CASE x = Packed(2) BY <2>4, <3>1, <3>3
    <3>4. CASE m.t = "cfg" /\ x = m.cfg BY <2>5, <3>4 DEF Fits
    <3> QED BY <1>11, <2>3, <3>2, <3>3, <3>4
  <2>7. \A e \in Clients : cfg'[e] = cfg[e] \/ cfg'[e].n <= AtMost(ss) BY <1>11, <1>13, <2>6
  <2>8. cfg'[c].n <= AtMost(ss) BY <2>3, <2>7
  <2>9. \A i \in 1 .. Len(toHost') : toHost'[i].cfg.n <= AtMost(ss)
    <3>1. CASE toHost' = Append(toHost, Cfg(x))
      <4>1. PICK old \in Seq(Asks) : old = toHost BY <1>13
      <4>2. PICK new : new = Append(old, Cfg(x)) OBVIOUS
      <4>3. /\ Len(new) = Len(old) + 1 /\ new[Len(old) + 1] = Cfg(x) /\ Len(old) \in Nat
            /\ \A i \in 1 .. Len(old) : new[i] = old[i]
        BY <1>12, <4>2, AppendProperties, LenProperties
      <4>4. \A i \in 1 .. Len(new) : i \in 1 .. Len(old) \/ i = Len(old) + 1 BY <4>3
      <4>5. \A i \in 1 .. Len(new) : new[i].cfg.n <= AtMost(ss)
        BY <1>12, <2>2, <2>6, <4>1, <4>3, <4>4
      <4> QED BY <3>1, <4>1, <4>2, <4>5
    <3> QED BY <1>11, <2>2, <3>1
  <2>10. ros \subseteq ss
    <3>1. m.t = "code" => m.seat \in ss BY <1>16, <1>20
    <3>2. m.t = "roster" => m.seats \subseteq ss BY <2>5 DEF Fits
    <3> QED BY <1>9, <2>3, <3>1, <3>2
  <2>11. (\A i \in 1 .. Len(r) : Fits(r[i], ss)) /\ Settled(r, Len(offered[c]))
    <3>1. \A i \in 1 .. Len(r) : Fits(r[i], ss) BY <1>2, <1>6, <1>16, <2>3, ReadOn
    <3>2. Settled(r, Len(offered[c])) BY <1>2, <1>6, <1>16, <2>3, ReadOn
    <3> QED BY <3>1, <3>2
  <2>12. There(c, ss)' BY <1>8, <1>15, <2>2, <2>8, <2>10, <2>11 DEF There, InMatch
  <2> QED BY <2>7, <2>9, <2>12
<1> QED BY <1>3, <1>8, <1>14, <1>15, <1>19, <1>20, <1>21, OneClient

LEMMA BeginMeshKeeps ==
  ASSUME LobbyInv, NEW c \in Clients, BeginMesh(c)
  PROVE  LobbyInv'
<1>1. LobbyTypes /\ Seating BY DEF LobbyInv
<1>2. PICK q \in Seq(Msgs) : q = inbox[c] /\ q # <<>> BY <1>1 DEF LobbyTypes, BeginMesh
<1>3. c \in Members /\ Member(c) BY <1>2, HasMail
<1>4. PICK m \in Msgs : m = Head(q) /\ m = q[1] /\ m.t = "start" BY <1>2, Reads DEF BeginMesh
<1>5. PICK r \in Seq(Msgs) : r = Tail(q) BY <1>2, Reads
<1>6. 1 \in 1 .. Len(q) BY <1>2, Reads
<1>7. /\ mySeat[c] \in Seats /\ roster[c] \in SUBSET Seats /\ cfg[c] \in Cfgs
      /\ inbox \in [Clients -> Seq(Msgs)] /\ begun \in [Clients -> Seq(Nat)]
      /\ offered \in [Clients -> Seq(SUBSET Seats)] /\ DOMAIN session = Clients
      /\ started \in Seq(SUBSET Seats)
  BY <1>1 DEF LobbyTypes
<1>8. PICK to \in SUBSET Seats : to = Targets(mySeat[c], roster[c]) BY <1>7 DEF Targets
<1>9. /\ room' = room /\ left' = left /\ toHost' = toHost /\ mySeat' = mySeat
      /\ roster' = roster /\ cfg' = cfg /\ started' = started
      /\ inbox' = [inbox EXCEPT ![c] = r]
      /\ offered' = [offered EXCEPT ![c] = Append(@, to)]
      /\ \/ /\ session' = [session EXCEPT ![c] = SessionOf(m.start, mySeat[c], roster[c], cfg[c])]
            /\ begun' = begun
         \/ begun' = [begun EXCEPT ![c] = Append(@, m.start)] /\ session' = session
  BY <1>2, <1>4, <1>5, <1>8 DEF BeginMesh
<1>10. PICK got \in Nat : got = Len(offered[c]) BY <1>7, LenProperties
<1>11. /\ Mail(q, roster[c], got, Seated(room), started)
       /\ \A i \in 1 .. Len(q) : q[i].t = "code" => i = 1
       /\ mySeat[c] \in Seated(room) /\ room.seats[mySeat[c]] = c
  BY <1>2, <1>3, <1>4, <1>6, <1>10 DEF Member, Codes, KnowsSeat
<1>12. /\ m.start = got + 1 /\ got + 1 \in 1 .. Len(started) /\ started[got + 1] = roster[c]
       /\ Mail(r, roster[c], got + 1, Seated(room), started)
  <2>1. Len(started) \in Nat BY <1>7, LenProperties
  <2>2. Learnt(m, roster[c]) = roster[c] /\ StartsRead(m, got) = got + 1
    BY <1>4 DEF Learnt, StartsRead
  <2>3. /\ m.t = "start" =>
             m.start = got + 1 /\ got + 1 \in 1 .. Len(started) /\ started[got + 1] = roster[c]
        /\ Mail(r, Learnt(m, roster[c]), StartsRead(m, got), Seated(room), started)
    BY <1>2, <1>4, <1>5, <1>11, <2>1, MailRead
  <2> QED BY <1>4, <2>2, <2>3
<1>13. PICK off \in Seq(SUBSET Seats) : off = offered[c] BY <1>7
<1>14. PICK upTo : upTo = Append(off, to) OBVIOUS
<1>15. /\ upTo \in Seq(SUBSET Seats) /\ Len(upTo) = got + 1 /\ upTo[got + 1] = to
       /\ \A k \in 1 .. got : upTo[k] = offered[c][k]
  BY <1>10, <1>13, <1>14, AppendProperties
<1>16. PICK old \in Seq(Nat) : old = begun[c] BY <1>7
<1>17. PICK more : more = Append(old, m.start) OBVIOUS
<1>18. /\ m.start \in Nat /\ more \in Seq(Nat) /\ Len(more) = Len(old) + 1 /\ Len(old) \in Nat
       /\ more[Len(old) + 1] = m.start /\ \A i \in 1 .. Len(old) : more[i] = old[i]
  <2>1. m.start \in Nat BY <1>12
  <2> QED BY <1>17, <2>1, AppendProperties, LenProperties
<1>19. /\ inbox'[c] = r /\ offered'[c] = upTo /\ begun'[c] \in {old, more}
       /\ \A d \in Clients : d # c =>
            /\ inbox'[d] = inbox[d] /\ begun'[d] = begun[d] /\ offered'[d] = offered[d]
            /\ session'[d] = session[d]
  BY <1>7, <1>9, <1>13, <1>14, <1>16, <1>17
<1>20. LobbyTypes'
  <2>1. inbox' \in [Clients -> Seq(Msgs)] BY <1>7, <1>9
  <2>2. offered' \in [Clients -> Seq(SUBSET Seats)] BY <1>7, <1>9, <1>13, <1>14, <1>15
  <2>3. begun' \in [Clients -> Seq(Nat)] BY <1>7, <1>9, <1>16, <1>17, <1>18
  <2>4. DOMAIN session' = Clients BY <1>7, <1>9
  <2> QED BY <1>1, <1>9, <2>1, <2>2, <2>3, <2>4 DEF LobbyTypes
<1>21. Member(c)'
  <2>1. Codes(c)'
    <3>1. \A i \in 1 .. Len(r) : r[i].t # "code" BY <1>2, <1>5, <1>11, ReadOn
    <3> QED BY <1>19, <3>1 DEF Codes
  <2>2. KnowsSeat(c)' BY <1>9, <1>11 DEF KnowsSeat
  <2>3. ASSUME NEW k \in 1 .. Len(upTo) PROVE upTo[k] = Targets(mySeat[c], started[k])
    <3>1. CASE k = got + 1 BY <1>8, <1>12, <1>15, <3>1
    <3>2. CASE k \in 1 .. got BY <1>3, <1>10, <1>15, <3>2 DEF Member
    <3> QED BY <1>15, <3>1, <3>2
  <2>4. upTo # <<>> BY <1>15, EmptySeq
  <2> QED BY <1>9, <1>12, <1>15, <1>19, <2>1, <2>2, <2>3, <2>4 DEF Member
<1>22. PICK ss \in SUBSET Seats : ss = Seated(room) BY <1>1, TheRoom
<1>23. ASSUME left = {}
       PROVE  /\ There(c, ss)'
              /\ \A d \in Clients : cfg'[d] = cfg[d] \/ cfg'[d].n <= AtMost(ss)
              /\ \A i \in 1 .. Len(toHost') : toHost'[i].cfg.n <= AtMost(ss)
  <2>1. AllThere BY <1>23 DEF LobbyInv
  <2>2. /\ There(c, ss) /\ \A k \in 1 .. Len(started) : started[k] = ss
        /\ \A i \in 1 .. Len(toHost) : toHost[i].cfg.n <= AtMost(ss)
    BY <1>22, <2>1 DEF AllThere
  <2>3. roster[c] = ss /\ cfg[c].n <= AtMost(ss) BY <1>12, <2>2 DEF There
  <2>4. (\A i \in 1 .. Len(r) : Fits(r[i], ss)) /\ Settled(r, Len(upTo))
    <3>1. (\A i \in 1 .. Len(q) : Fits(q[i], ss)) /\ Settled(q, got) BY <1>2, <1>10, <2>2 DEF There
    <3>2. \A i \in 1 .. Len(r) : Fits(r[i], ss) BY <1>2, <1>5, <1>11, <3>1, ReadOn
    <3>3. Settled(r, Len(upTo)) BY <1>2, <1>4, <1>5, <1>11, <3>1, ReadOn
    <3> QED BY <3>2, <3>3
  <2>5. \A i \in 1 .. Len(begun'[c]) : begun'[c][i] \in 1 .. Len(started)
    <3>1. \A i \in 1 .. Len(old) : old[i] \in 1 .. Len(started) BY <1>16, <2>2 DEF There
    <3>2. \A i \in 1 .. Len(more) : i \in 1 .. Len(old) \/ i = Len(old) + 1 BY <1>18
    <3>3. \A i \in 1 .. Len(more) : more[i] \in 1 .. Len(started) BY <1>12, <1>18, <3>1, <3>2
    <3> QED BY <1>19, <3>1, <3>3
  <2>6. InMatch(c)' => /\ session'[c].start \in 1 .. Len(started) /\ session'[c].n = AtMost(ss)
                       /\ session'[c].seat \in ss /\ room.seats[session'[c].seat] = c
    <3>1. CASE session' = session BY <2>2, <3>1 DEF There, InMatch
    <3>2. CASE session' = [session EXCEPT ![c] = SessionOf(m.start, mySeat[c], roster[c], cfg[c])]
      <4>1. PICK s : s = SessionOf(m.start, mySeat[c], ss, cfg[c]) OBVIOUS
      <4>2. s.n = AtMost(ss) /\ s.seat = mySeat[c] /\ s.start = m.start
        BY <1>7, <2>3, <4>1, SessionIs
      <4>3. session'[c] = s BY <1>7, <2>3, <3>2, <4>1
      <4> QED BY <1>11, <1>12, <1>22, <4>2, <4>3
    <3> QED BY <1>9, <3>1, <3>2
  <2> QED BY <1>9, <1>19, <2>2, <2>3, <2>4, <2>5, <2>6 DEF There
<1> QED BY <1>3, <1>9, <1>19, <1>20, <1>21, <1>22, <1>23, OneClient

(* Whoever has read a start has read the roster that was sent last. *)
LEMMA KnowsAll ==
  ASSUME NEW q \in Seq(Msgs), NEW ros, NEW got \in Nat \ {0}, NEW seats, NEW all,
         Mail(q, ros, got, seats, all), Settled(q, got)
  PROVE  ros = seats /\ (q = <<>> \/ q[1].t # "code")
<1>1. Len(q) \in Nat BY LenProperties
<1>2. \A i \in 1 .. Len(q) : q[i].t \notin {"roster", "code"} BY DEF Settled
<1>3. \A i \in 1 .. Len(q) : Rosters(q)[i] = <<>> BY <1>2 DEF Rosters
<1>4. After(Rosters(q), ros, Len(q), seats) BY DEF Mail
<1>5. \A x : <<x>> # <<>> OBVIOUS
<1>6. ros = seats BY <1>3, <1>4, <1>5 DEF After
<1>7. q = <<>> \/ 1 \in 1 .. Len(q) BY <1>1, EmptySeq
<1> QED BY <1>2, <1>6, <1>7

LEMMA StartLockstepKeeps ==
  ASSUME LobbyInv, NEW c \in Clients, StartLockstep(c)
  PROVE  LobbyInv'
<1>1. LobbyTypes /\ Seating BY DEF LobbyInv
<1>2. /\ mySeat[c] \in Seats /\ roster[c] \in SUBSET Seats /\ cfg[c] \in Cfgs
      /\ inbox \in [Clients -> Seq(Msgs)] /\ begun \in [Clients -> Seq(Nat)]
      /\ offered \in [Clients -> Seq(SUBSET Seats)] /\ DOMAIN session = Clients
  BY <1>1 DEF LobbyTypes
<1>3. PICK b \in Seq(Nat) : b = begun[c] /\ b # <<>> BY <1>2 DEF StartLockstep
<1>4. PICK rest \in Seq(Nat) : rest = Tail(b) BY <1>3, HeadTailProperties
<1>5. /\ Len(b) \in Nat \ {0} /\ Head(b) = b[1] /\ Len(rest) = Len(b) - 1
      /\ \A i \in 1 .. Len(rest) : rest[i] = b[i + 1]
  BY <1>3, <1>4, HeadTailProperties, LenProperties, EmptySeq
<1>6. /\ room' = room /\ left' = left /\ toHost' = toHost /\ mySeat' = mySeat /\ inbox' = inbox
      /\ roster' = roster /\ cfg' = cfg /\ started' = started /\ offered' = offered
      /\ begun' = [begun EXCEPT ![c] = rest]
      /\ session' = [session EXCEPT ![c] = SessionOf(b[1], mySeat[c], roster[c], cfg[c])]
  BY <1>3, <1>4, <1>5 DEF StartLockstep
<1>7. /\ begun'[c] = rest
      /\ \A d \in Clients : d # c => begun'[d] = begun[d] /\ session'[d] = session[d]
  BY <1>2, <1>6
<1>8. LobbyTypes'
  <2>1. begun' \in [Clients -> Seq(Nat)] BY <1>2, <1>6
  <2>2. DOMAIN session' = Clients BY <1>2, <1>6
  <2> QED BY <1>1, <1>6, <2>1, <2>2 DEF LobbyTypes
<1>9. c \notin Members => c \in left /\ inbox'[c] = <<>>
  BY <1>3, <1>6, OutOfTheRoom DEF Unused
<1>10. ASSUME c \in Members PROVE Member(c)' /\ offered[c] # <<>>
  <2>1. Member(c) BY <1>10 DEF LobbyInv
  <2>2. offered[c] # <<>> BY <1>3, <2>1 DEF Member
  <2>3. Codes(c)' BY <1>6, <2>1 DEF Member, Codes
  <2>4. KnowsSeat(c)' BY <1>6, <2>1 DEF Member, KnowsSeat
  <2> QED BY <1>6, <2>1, <2>2, <2>3, <2>4 DEF Member
<1>11. PICK ss \in SUBSET Seats : ss = Seated(room) BY <1>1, TheRoom
<1>12. ASSUME left = {}
       PROVE  /\ There(c, ss)'
              /\ \A d \in Clients : cfg'[d] = cfg[d] \/ cfg'[d].n <= AtMost(ss)
              /\ \A i \in 1 .. Len(toHost') : toHost'[i].cfg.n <= AtMost(ss)
  <2>1. AllThere BY <1>12 DEF LobbyInv
  <2>2. There(c, ss) /\ \A i \in 1 .. Len(toHost) : toHost[i].cfg.n <= AtMost(ss)
    BY <1>11, <2>1 DEF AllThere
  <2>3. c \in Members /\ Member(c) /\ offered[c] # <<>> BY <1>9, <1>10, <1>12 DEF LobbyInv
  <2>4. PICK got \in Nat \ {0} : got = Len(offered[c])
    BY <1>2, <2>3, LenProperties, EmptySeq
  <2>5. PICK q \in Seq(Msgs) : q = inbox[c] BY <1>2
  <2>6. Mail(q, roster[c], got, ss, started) /\ Settled(q, got)
    BY <1>11, <2>2, <2>3, <2>4, <2>5 DEF Member, There
  <2>7. roster[c] = ss /\ (q = <<>> \/ q[1].t # "code") BY <2>4, <2>6, KnowsAll
  <2>8. mySeat[c] \in ss /\ room.seats[mySeat[c]] = c
    BY <1>11, <2>3, <2>5, <2>7 DEF Member, KnowsSeat
  <2>9. \A i \in 1 .. Len(b) : b[i] \in 1 .. Len(started) BY <1>3, <2>2 DEF There
  <2>10. 1 \in 1 .. Len(b) /\ \A i \in 1 .. Len(rest) : i + 1 \in 1 .. Len(b) BY <1>5, SMTT(30)
  <2>11. \A i \in 1 .. Len(rest) : rest[i] \in 1 .. Len(started) BY <1>5, <2>9, <2>10
  <2>12. PICK s : s = SessionOf(b[1], mySeat[c], ss, cfg[c]) OBVIOUS
  <2>13. cfg[c].n <= AtMost(ss) BY <2>2 DEF There
  <2>14. s.n = AtMost(ss) /\ s.seat = mySeat[c] /\ s.start = b[1]
    BY <1>2, <2>12, <2>13, SessionIs
  <2>15. session'[c] = s BY <1>2, <1>6, <2>7, <2>12
  <2>16. s.start \in 1 .. Len(started) BY <2>9, <2>10, <2>14
  <2>17. There(c, ss)' BY <1>6, <1>7, <2>2, <2>8, <2>11, <2>14, <2>15, <2>16 DEF There
  <2> QED BY <1>6, <2>2, <2>17
<1> QED BY <1>6, <1>7, <1>8, <1>9, <1>10, <1>11, <1>12, OneClient

LEMMA PressStartKeeps ==
  ASSUME LobbyInv, PressStart
  PROVE  LobbyInv'
<1>1. LobbyTypes /\ Seating BY DEF LobbyInv
<1>2. /\ roster \in [Clients -> SUBSET Seats] /\ cfg \in [Clients -> Cfgs]
      /\ toHost \in Seq(Asks) /\ Host \in Clients
  BY <1>1 DEF LobbyTypes, Clients
<1>3. PICK n \in 0 .. 4 : n = Cardinality(roster[Host]) BY <1>2, SeatCounts
<1>4. PICK x \in Cfgs : x = Packed(n) /\ x.n = IF n <= 2 THEN 2 ELSE IF n <= 4 THEN n ELSE 4
  BY PackedIs
<1>5. /\ room' = room /\ inbox' = inbox /\ left' = left /\ mySeat' = mySeat /\ roster' = roster
      /\ begun' = begun /\ offered' = offered /\ session' = session /\ started' = started
      /\ cfg' = [cfg EXCEPT ![Host] = x]
      /\ toHost' = toHost \o <<Cfg(x), [t |-> "start", cfg |-> x]>>
  BY <1>3, <1>4 DEF PressStart
<1>6. PICK two \in Seq(Asks) : /\ two = <<Cfg(x), [t |-> "start", cfg |-> x]>> /\ Len(two) = 2
                               /\ \A i \in 1 .. 2 : two[i].cfg = x
  <2>1. Cfg(x) \in Asks /\ [t |-> "start", cfg |-> x] \in Asks /\ Cfg(x).cfg = x BY DEF Cfg, Asks
  <2>2. PICK a \in Asks : a = Cfg(x) /\ a.cfg = x BY <2>1
  <2>3. PICK b \in Asks : b = [t |-> "start", cfg |-> x] /\ b.cfg = x BY <2>1
  <2>4. <<a, b>> \in Seq(Asks) /\ Len(<<a, b>>) = 2 /\ \A i \in 1 .. 2 : <<a, b>>[i].cfg = x
    BY <2>2, <2>3
  <2> QED BY <2>2, <2>3, <2>4
<1>7. PICK old \in Seq(Asks) : old = toHost BY <1>2
<1>8. PICK new : new = old \o two OBVIOUS
<1>9. /\ new \in Seq(Asks) /\ Len(new) = Len(old) + 2 /\ Len(old) \in Nat
      /\ \A i \in 1 .. Len(new) : new[i] = IF i <= Len(old) THEN old[i] ELSE two[i - Len(old)]
  BY <1>6, <1>8, ConcatProperties, LenProperties
<1>10. LobbyTypes'
  <2>1. cfg' \in [Clients -> Cfgs] BY <1>2, <1>5
  <2>2. toHost' \in Seq(Asks) BY <1>5, <1>6, <1>7, <1>8, <1>9
  <2> QED BY <1>1, <1>5, <2>1, <2>2 DEF LobbyTypes
<1>11. Host \in Members /\ Member(Host)
  <2>1. Host \in Members BY <1>1, TheRoom
  <2> QED BY <2>1 DEF LobbyInv
<1>12. Member(Host)'
  <2>1. room'.seats = room.seats BY <1>5
  <2> QED BY <1>5, <1>11, <2>1, Kept
<1>13. PICK ss \in SUBSET Seats : ss = Seated(room) BY <1>1, TheRoom
<1>14. ASSUME left = {}
       PROVE  /\ There(Host, ss)'
              /\ \A d \in Clients : cfg'[d] = cfg[d] \/ cfg'[d].n <= AtMost(ss)
              /\ \A i \in 1 .. Len(toHost') : toHost'[i].cfg.n <= AtMost(ss)
  <2>1. AllThere BY <1>14 DEF LobbyInv
  <2>2. There(Host, ss) /\ \A i \in 1 .. Len(toHost) : toHost[i].cfg.n <= AtMost(ss)
    BY <1>2, <1>13, <2>1 DEF AllThere
  <2>3. x.n <= AtMost(ss)
    <3>1. roster[Host] \in SUBSET ss BY <2>2 DEF There
    <3>2. n <= AtMost(ss) /\ AtMost(ss) \in 2 .. 4 BY <1>3, <3>1, SeatCounts
    <3> QED BY <1>4, <3>2
  <2>4. \A d \in Clients : cfg'[d] = cfg[d] \/ cfg'[d].n <= AtMost(ss) BY <1>2, <1>5, <2>3
  <2>5. ASSUME NEW i \in 1 .. Len(new) PROVE new[i].cfg.n <= AtMost(ss)
    <3>1. CASE i <= Len(old)
      <4>1. i \in 1 .. Len(old) BY <1>9, <3>1
      <4> QED BY <1>7, <1>9, <2>2, <3>1, <4>1
    <3>2. CASE ~ (i <= Len(old))
      <4>1. i - Len(old) \in 1 .. 2 BY <1>9, <3>2
      <4>2. new[i] = two[i - Len(old)] BY <1>9, <3>2
      <4> QED BY <1>6, <2>3, <4>1, <4>2
    <3> QED BY <3>1, <3>2
  <2>6. toHost' = new BY <1>5, <1>6, <1>7, <1>8
  <2>7. room'.seats = room.seats BY <1>5
  <2>8. cfg'[Host].n <= AtMost(ss) BY <1>2, <1>5, <2>3
  <2>9. There(Host, ss)' BY <1>5, <2>2, <2>7, <2>8, KeptThere
  <2> QED BY <2>4, <2>5, <2>6, <2>9
<1> QED BY <1>2, <1>5, <1>10, <1>11, <1>12, <1>13, <1>14, OneClient

LEMMA LobbyBegins ==
  ASSUME LobbyInit
  PROVE  LobbyInv
<1>1. /\ room = [seats |-> [s \in {0} |-> Host], cfg |-> NoCfg, inProgress |-> FALSE]
      /\ inbox = [c \in Clients |-> IF c = Host THEN <<Code(0), Roster({0})>> ELSE <<>>]
      /\ toHost = <<>> /\ left = {} /\ mySeat = [c \in Clients |-> 0]
      /\ roster = [c \in Clients |-> {}] /\ cfg = [c \in Clients |-> NoCfg]
      /\ begun = [c \in Clients |-> <<>>] /\ offered = [c \in Clients |-> <<>>]
      /\ session = [c \in Clients |-> NoSession] /\ started = <<>>
  BY DEF LobbyInit
<1>2. Host \in Clients /\ 0 \in Seats BY DEF Clients, Seats
<1>3. NoCfg \in Cfgs /\ NoCfg.n = 0 BY DEF NoCfg, Cfgs
<1>4. /\ Seated(room) = {0} /\ room.seats[0] = Host /\ room.cfg = NoCfg BY <1>1 DEF Seated
<1>5. Members = {Host}
  <2>1. room.seats = [s \in {0} |-> Host] BY <1>1
  <2> QED BY <2>1 DEF Members, Range
<1>6. PICK q : q = <<Code(0), Roster({0})>> OBVIOUS
<1>7. q = Append(Append(<<>>, Code(0)), Roster({0})) BY <1>6
<1>8. <<>> \in Seq(SUBSET Seats) /\ Len(<<>>) = 0 /\ <<>> \in Seq(Msgs) /\ <<>> \in Seq(Asks)
      /\ <<>> \in Seq(Nat)
  BY EmptySeq
<1>9. /\ q \in Seq(Msgs) /\ Len(q) = 2 /\ q[1] = Code(0) /\ q[2] = Roster({0})
      /\ Mail(q, {}, 0, {0}, <<>>)
  <2>1. {0} \in SUBSET Seats BY <1>2
  <2> QED BY <1>2, <1>7, <1>8, <2>1, MailNew
<1>10. Code(0).t = "code" /\ Code(0).seat = 0 /\ Roster({0}).t = "roster" /\ Roster({0}).seats = {0}
  BY DEF Code, Roster
<1>11. inbox[Host] = q /\ \A c \in Clients : c # Host => inbox[c] = <<>> BY <1>1, <1>2, <1>6
<1>12. \A i \in 1 .. Len(<<>>) : FALSE BY <1>8
<1>13. LobbyTypes
  <2>1. room \in [seats : SeatMaps, cfg : Cfgs, inProgress : BOOLEAN]
    <3>1. [s \in {0} |-> Host] \in [{0} -> Clients] BY <1>2
    <3>2. [s \in {0} |-> Host] \in SeatMaps BY <1>2, <3>1 DEF SeatMaps
    <3> QED BY <1>1, <1>3, <3>2
  <2>2. inbox \in [Clients -> Seq(Msgs)] BY <1>1, <1>6, <1>8, <1>9
  <2>3. mySeat \in [Clients -> Seats] /\ roster \in [Clients -> SUBSET Seats] /\ cfg \in [Clients -> Cfgs]
    BY <1>1, <1>2, <1>3
  <2>4. begun \in [Clients -> Seq(Nat)] /\ offered \in [Clients -> Seq(SUBSET Seats)]
        /\ DOMAIN session = Clients
    BY <1>1, <1>8
  <2> QED BY <1>1, <1>8, <2>1, <2>2, <2>3, <2>4 DEF LobbyTypes
<1>14. Seating BY <1>1, <1>4, <1>5 DEF Seating
<1>15. ASSUME NEW c \in Clients, c \notin Members \cup left PROVE Unused(c)
  BY <1>1, <1>5, <1>11, <1>15 DEF Unused, InMatch
<1>16. \A i \in 1 .. Len(q) : i = 1 \/ i = 2 BY <1>9
<1>17. ~InMatch(Host) /\ offered[Host] = <<>> /\ begun[Host] = <<>> BY <1>1, <1>2 DEF InMatch
<1>18. Member(Host)
  <2>1. Mail(inbox[Host], roster[Host], Len(offered[Host]), Seated(room), started)
    BY <1>1, <1>2, <1>4, <1>8, <1>9, <1>11, <1>17
  <2>2. Codes(Host) BY <1>4, <1>9, <1>10, <1>11, <1>16, <1>17 DEF Codes
  <2>3. KnowsSeat(Host) BY <1>1, <1>2, <1>4 DEF KnowsSeat
  <2> QED BY <1>12, <1>17, <2>1, <2>2, <2>3 DEF Member
<1>19. AllThere
  <2>1. {0} = 0 .. 1 - 1 /\ 1 \in 1 .. 4 OBVIOUS
  <2>2. AtMost({0}) \in 2 .. 4
    <3>1. {0} \in SUBSET Seats BY <1>2
    <3> QED BY <3>1, SeatCounts
  <2>3. 0 <= AtMost({0}) BY <2>2
  <2>4. ASSUME NEW c \in Clients PROVE There(c, {0})
    <3>1. cfg[c].n <= AtMost({0}) /\ roster[c] \subseteq {0} BY <1>1, <1>3, <2>3
    <3>2. offered[c] = <<>> /\ begun[c] = <<>> /\ ~InMatch(c) BY <1>1 DEF InMatch
    <3>3. CASE c = Host
      <4>1. \A i \in 1 .. Len(q) : Fits(q[i], {0}) BY <1>9, <1>10, <1>16 DEF Fits
      <4>2. Settled(q, 0) BY <1>9, <1>10, <1>16 DEF Settled
      <4> QED BY <1>8, <1>11, <1>12, <3>1, <3>2, <3>3, <4>1, <4>2 DEF There
    <3>4. CASE c # Host
      <4>1. inbox[c] = <<>> BY <1>11, <3>4
      <4> QED BY <1>12, <3>1, <3>2, <4>1 DEF There, Settled
    <3> QED BY <3>3, <3>4
  <2> QED BY <1>1, <1>3, <1>4, <1>12, <2>1, <2>3, <2>4 DEF AllThere
<1> QED BY <1>1, <1>5, <1>13, <1>14, <1>15, <1>18, <1>19 DEF LobbyInv

LEMMA LobbyInvHolds == LobbySpec => []LobbyInv
<1>1. LobbyInit => LobbyInv BY LobbyBegins
<1>2. LobbyInv /\ [LobbyNext]_lobbyVars => LobbyInv'
  <2> SUFFICES ASSUME LobbyInv, [LobbyNext]_lobbyVars PROVE LobbyInv'
    OBVIOUS
  <2>1. CASE ServerTakes BY <2>1, ServerTakesKeeps
  <2>2. CASE PressStart BY <2>2, PressStartKeeps
  <2>3. CASE \E g \in Guests : Join(g) \/ Leave(g) BY <2>3, JoinKeeps, LeaveKeeps
  <2>4. CASE \E c \in Clients : Told(c) \/ BeginMesh(c) \/ StartLockstep(c)
    BY <2>4, ToldKeeps, BeginMeshKeeps, StartLockstepKeeps
  <2>5. CASE UNCHANGED lobbyVars
    <3>1. /\ room' = room /\ toHost' = toHost /\ inbox' = inbox /\ left' = left /\ mySeat' = mySeat
          /\ roster' = roster /\ cfg' = cfg /\ begun' = begun /\ offered' = offered
          /\ session' = session /\ started' = started
      BY <2>5 DEF lobbyVars
    <3>2. Members' = Members /\ LobbyTypes' /\ Seating'
      BY <3>1 DEF LobbyInv, LobbyTypes, Members, Seating, Seated
    <3>3. \A c \in Clients : c \notin Members' \cup left' => Unused(c)'
      BY <3>1, <3>2 DEF LobbyInv, Unused, InMatch
    <3>4. \A c \in Members' : Member(c)'
      BY <3>1, <3>2 DEF LobbyInv, Member, InMatch, Codes, KnowsSeat, Seated
    <3>5. left' = {} => AllThere'
      BY <3>1 DEF LobbyInv, AllThere, There, Seated, InMatch
    <3>6. \A c \in left' : inbox'[c] = <<>>
      BY <3>1 DEF LobbyInv
    <3>. QED  BY <3>2, <3>3, <3>4, <3>5, <3>6 DEF LobbyInv
  <2> QED BY <2>1, <2>2, <2>3, <2>4, <2>5 DEF LobbyNext
<1> QED BY <1>1, <1>2, PTL DEF LobbySpec

(* However joins, rosters and configs overtake a start: the sessions that   *)
(* begin as long as nobody has left are for the seats of their start, and   *)
(* of any two seats of a start one offers the connection.                   *)
THEOREM SeatsAgreeHolds == LobbySpec => []SeatsAgree
<1>1. LobbyInv => SeatsAgree
  <2> SUFFICES ASSUME LobbyInv PROVE SeatsAgree OBVIOUS
  <2>1. LobbyTypes /\ Seating BY DEF LobbyInv
  <2>2. SessionsFit
    <3> SUFFICES ASSUME left = {}, NEW c \in Clients, InMatch(c)
                 PROVE  /\ session[c].n = Max({2, Cardinality(started[session[c].start])})
                        /\ session[c].seat < session[c].n
                        /\ room.seats[session[c].seat] = c
      BY DEF SessionsFit
    <3>1. AllThere BY DEF LobbyInv
    <3>2. PICK ss \in SUBSET Seats : ss = Seated(room) BY <2>1, TheRoom
    <3>3. PICK m \in 1 .. 4 : ss = 0 .. m - 1 BY <3>1, <3>2 DEF AllThere
    <3>4. There(c, ss) /\ \A k \in 1 .. Len(started) : started[k] = ss
      BY <3>1, <3>2 DEF AllThere
    <3>5. /\ session[c].start \in 1 .. Len(started) /\ session[c].n = AtMost(ss)
          /\ session[c].seat \in ss /\ room.seats[session[c].seat] = c
      BY <3>4 DEF There
    <3>6. started[session[c].start] = ss BY <3>4, <3>5
    <3>7. AtMost(ss) = IF 2 >= m THEN 2 ELSE m
      <4>1. Cardinality(ss) = m
        <5>1. 0 \in Int /\ m - 1 \in Int /\ ~ (0 > m - 1) /\ m - 1 - 0 + 1 = m BY <3>3
        <5>2. Cardinality(0 .. m - 1) = IF 0 > m - 1 THEN 0 ELSE (m - 1) - 0 + 1
          BY <5>1, FS_Interval
        <5> QED BY <3>3, <5>1, <5>2
      <4> QED BY <4>1, GreaterOf DEF AtMost
    <3>8. session[c].seat \in 0 .. m - 1 BY <3>3, <3>5
    <3>9. session[c].seat < session[c].n BY <3>5, <3>7, <3>8
    <3> QED BY <3>5, <3>6, <3>9 DEF AtMost
  <2>3. OneOffers
    <3> SUFFICES ASSUME NEW c \in Clients, NEW k \in DOMAIN offered[c], c \notin left
                 PROVE  offered[c][k] = Targets(mySeat[c], started[k])
      BY DEF OneOffers
    <3>1. offered[c] \in Seq(SUBSET Seats) BY <2>1 DEF LobbyTypes
    <3>2. k \in 1 .. Len(offered[c]) BY <3>1, LenProperties
    <3>3. offered[c] # <<>>
      <4>1. \A i \in 1 .. Len(<<>>) : FALSE BY EmptySeq
      <4> QED BY <3>2, <4>1
    <3>4. c \in Members BY <3>3 DEF LobbyInv, Unused
    <3> QED BY <3>2, <3>4 DEF LobbyInv, Member
  <2> QED BY <2>2, <2>3 DEF SeatsAgree
<1> QED BY <1>1, LobbyInvHolds, PTL

-------------------------------------------------------------------------------
(* The two pad rings.                                                      *)

(* A slot: a tick and the pads of some players. *)
RingSlots == [tick : Nat, pads : UNION {[S -> Pads] : S \in SUBSET Players}]

(* What a slot of the shell and the slot of the engine with the same index  *)
(* have in common when tick n is next.  Pads of a tick that has not run are in both, with their *)
(* tick; only the shell keeps pads of a tick that has.                      *)
Alike(a, b, i, n) ==
  /\ Has(a) # {} => a.tick % Ring = i /\ a.tick < n + Ring
  /\ Has(a) # {} /\ Has(b) = {} => a.tick < n
  /\ Has(b) # {} => a = b /\ b.tick >= n

RingInv ==
  /\ nextRun \in Nat
  /\ shellRing \in [0 .. Ring - 1 -> RingSlots]
  /\ engineRing \in [0 .. Ring - 1 -> RingSlots]
  /\ \A i \in 0 .. Ring - 1 : Alike(shellRing[i], engineRing[i], i, nextRun)

(* Two ticks of one window that share a slot are the same tick. *)
LEMMA OneTick ==
  ASSUME NEW t \in Nat, NEW u \in Nat, t % Ring = u % Ring,
         NEW w \in Nat, t \in w .. w + Ring - 1, u \in w .. w + Ring - 1
  PROVE  t = u
<1>1. Ring \in Nat \ {0}
  BY RingsAssumption
<1>. DEFINE p == t \div Ring
            q == u \div Ring
<1>2. p \in Int /\ q \in Int /\ t = Ring * p + (t % Ring) /\ u = Ring * q + (u % Ring)
  BY <1>1
<1>3. t - u = Ring * (p - q)
  BY <1>1, <1>2
<1>4. t - u < Ring /\ u - t < Ring
  BY <1>1
<1>. HIDE DEF p, q
<1>5. ~(p > q)
  <2>. SUFFICES ASSUME p > q PROVE FALSE
    OBVIOUS
  <2>1. Ring * (p - q) >= Ring
    BY <1>1, <1>2
  <2>. QED  BY <1>1, <1>2, <2>1, <1>3, <1>4
<1>6. ~(q > p)
  <2>. SUFFICES ASSUME q > p PROVE FALSE
    OBVIOUS
  <2>1. Ring * (q - p) >= Ring
    BY <1>1, <1>2
  <2>2. u - t = Ring * (q - p)
    BY <1>1, <1>2
  <2>. QED  BY <1>1, <1>2, <2>1, <2>2, <1>4
<1>. QED  BY <1>2, <1>5, <1>6

(* A slot without pads holds the empty function. *)
LEMMA NoPads == ASSUME NEW s \in RingSlots, Has(s) = {} PROVE s.pads = <<>>
<1>1. s.pads \in UNION {[S -> Pads] : S \in SUBSET Players}
  BY DEF RingSlots
<1>2. PICK S \in SUBSET Players : s.pads \in [S -> Pads]
  BY <1>1
<1>3. S = {}
  BY <1>2 DEF Has
<1>4. s.pads = [x \in {} |-> 0] /\ <<>> = [x \in {} |-> 0]
  BY <1>2, <1>3
<1>. QED  BY <1>4

LEMMA EmptySlot == \A t \in Nat : Empty(t) \in RingSlots /\ Has(Empty(t)) = {}
<1>1. <<>> \in [{} -> Pads]
  OBVIOUS
<1>. QED  BY <1>1 DEF Empty, RingSlots, Has

(* A tick of the window is claimed alike in both: the slot has its tick and *)
(* the same pads, and the other slots stay.                                 *)
LEMMA ClaimsAlike ==
  ASSUME RingInv, NEW t \in Nat, nextRun <= t, t < nextRun + Ring
  PROVE  LET a == Claimed(shellRing, t)
             b == ClaimedC(engineRing, t)
             i == t % Ring
         IN  /\ i \in 0 .. Ring - 1
             /\ a[i] \in RingSlots /\ a[i].tick = t /\ b[i] = a[i]
             /\ a = [shellRing EXCEPT ![i] = a[i]]
             /\ b = [engineRing EXCEPT ![i] = a[i]]
<1>. DEFINE i == t % Ring
            x == shellRing[i]
            y == engineRing[i]
<1>1. Ring \in Nat \ {0}
  BY RingsAssumption
<1>2. i \in 0 .. Ring - 1
  BY <1>1
<1>3. x \in RingSlots /\ y \in RingSlots /\ Alike(x, y, i, nextRun) /\ nextRun \in Nat
  BY <1>2 DEF RingInv
<1>4. Empty(t) \in RingSlots /\ Has(Empty(t)) = {} /\ Empty(t).tick = t
  BY EmptySlot DEF Empty
<1>. DEFINE u == IF Has(x) # {} /\ x.tick = t THEN x ELSE Empty(t)
            v == IF Has(y) # {} /\ y.tick # t THEN Empty(t) ELSE [y EXCEPT !.tick = t]
<1>5. /\ Claimed(shellRing, t) = [shellRing EXCEPT ![i] = u]
      /\ ClaimedC(engineRing, t) = [engineRing EXCEPT ![i] = v]
  BY DEF Claimed, ClaimedC
<1>6. u \in RingSlots /\ u.tick = t
  BY <1>3, <1>4
<1>7. Has(y) # {} => y.tick = t
  <2>. SUFFICES ASSUME Has(y) # {} PROVE y.tick = t
    OBVIOUS
  <2>1. y.tick \in Nat /\ y.tick % Ring = i /\ y.tick >= nextRun /\ y.tick < nextRun + Ring
    BY <1>3 DEF Alike, RingSlots
  <2>2. /\ y.tick \in nextRun .. nextRun + Ring - 1
        /\ t \in nextRun .. nextRun + Ring - 1
    BY <2>1, <1>1, <1>3
  <2>. QED  BY <2>1, <2>2, <1>3, OneTick
<1>8. v = u
  <2>1. CASE Has(y) # {}
    <3>1. x = y /\ y.tick = t
      BY <2>1, <1>3, <1>7 DEF Alike
    <3>2. [y EXCEPT !.tick = t] = y
      BY <3>1, <1>3 DEF RingSlots
    <3>. QED  BY <2>1, <3>1, <3>2
  <2>2. CASE Has(y) = {}
    <3>1. ~(Has(x) # {} /\ x.tick = t)
      BY <2>2, <1>3 DEF Alike, RingSlots
    <3>2. y.pads = <<>>
      BY <2>2, <1>3, NoPads
    <3>3. [y EXCEPT !.tick = t] = Empty(t)
      BY <3>2, <1>3 DEF RingSlots, Empty
    <3>. QED  BY <2>2, <3>1, <3>3
  <2>. QED  BY <2>1, <2>2
<1>. HIDE DEF u, v
<1>9. shellRing \in [0 .. Ring - 1 -> RingSlots] /\ engineRing \in [0 .. Ring - 1 -> RingSlots]
  BY DEF RingInv
<1>10. Claimed(shellRing, t)[i] = u /\ ClaimedC(engineRing, t)[i] = u
  BY <1>2, <1>5, <1>8, <1>9
<1>. QED  BY <1>2, <1>5, <1>6, <1>8, <1>10
(* The rings stay alike when one slot changes alike, also when the tick of  *)
(* that slot has run.                                                       *)
LEMMA OneSlotChanges ==
  ASSUME RingInv, NEW i \in 0 .. Ring - 1, NEW x \in RingSlots, NEW y \in RingSlots,
         shellRing' = [shellRing EXCEPT ![i] = x], engineRing' = [engineRing EXCEPT ![i] = y],
         Alike(x, y, i, nextRun'),
         nextRun' = nextRun \/ (nextRun' = nextRun + 1 /\ i = nextRun % Ring)
  PROVE  RingInv'
<1>1. nextRun \in Nat /\ nextRun' \in Nat /\ Ring \in Nat \ {0}
  BY RingsAssumption DEF RingInv
<1>2. /\ shellRing \in [0 .. Ring - 1 -> RingSlots]
      /\ engineRing \in [0 .. Ring - 1 -> RingSlots]
  BY DEF RingInv
<1>3. /\ shellRing' \in [0 .. Ring - 1 -> RingSlots]
      /\ engineRing' \in [0 .. Ring - 1 -> RingSlots]
  BY <1>2
<1>4. ASSUME NEW j \in 0 .. Ring - 1 PROVE Alike(shellRing'[j], engineRing'[j], j, nextRun')
  <2>1. CASE j = i
    <3>1. shellRing'[j] = x /\ engineRing'[j] = y
      BY <1>2, <2>1
    <3>. QED  BY <3>1, <2>1 DEF Alike
  <2>2. CASE j # i
    <3>1. shellRing'[j] = shellRing[j] /\ engineRing'[j] = engineRing[j]
      BY <1>2, <2>2
    <3>. DEFINE a == shellRing[j]
                b == engineRing[j]
    <3>2. Alike(a, b, j, nextRun) /\ a \in RingSlots /\ b \in RingSlots
      BY <1>2 DEF RingInv
    <3>3. a.tick \in Nat /\ b.tick \in Nat
      BY <3>2 DEF RingSlots
    <3>. HIDE DEF a, b
    <3>4. Has(b) # {} => b.tick >= nextRun'
      <4>1. Has(b) # {} => a = b /\ b.tick >= nextRun /\ b.tick % Ring = j
        BY <3>2 DEF Alike
      <4>. QED  BY <4>1, <3>3, <1>1, <2>2
    <3>5. /\ Has(a) # {} => a.tick % Ring = j /\ a.tick < nextRun' + Ring
          /\ Has(a) # {} /\ Has(b) = {} => a.tick < nextRun'
          /\ Has(b) # {} => a = b /\ b.tick >= nextRun'
      BY <3>2, <3>3, <3>4, <1>1 DEF Alike
    <3>. QED  BY <3>1, <3>5 DEF Alike, a, b
  <2>. QED  BY <2>1, <2>2
<1>. QED  BY <1>1, <1>3, <1>4 DEF RingInv

(* A pad that is put into a slot. *)
LEMMA PutGives ==
  ASSUME NEW s \in RingSlots, NEW seat \in Players, NEW pad \in Pads
  PROVE  /\ Put(s, seat, pad) \in RingSlots
         /\ Put(s, seat, pad).tick = s.tick
         /\ seat \in Has(Put(s, seat, pad))
<1>1. PICK S \in SUBSET Players : s.pads \in [S -> Pads]
  BY DEF RingSlots
<1>. DEFINE q == [p \in Has(s) \cup {seat} |-> IF p = seat THEN pad ELSE s.pads[p]]
<1>2. Has(s) = S
  BY <1>1 DEF Has
<1>3. q \in [S \cup {seat} -> Pads] /\ S \cup {seat} \in SUBSET Players
  BY <1>1, <1>2
<1>4. q \in UNION {[T -> Pads] : T \in SUBSET Players} /\ DOMAIN q = S \cup {seat}
  BY <1>3
<1>5. Put(s, seat, pad) = [s EXCEPT !.pads = q]
  BY DEF Put
<1>. HIDE DEF q
<1>. QED  BY <1>4, <1>5 DEF RingSlots, Has

(* submit() of both says the same and keeps the rings alike. *)
LEMMA SubmitKeeps ==
  ASSUME RingInv, NEW tick \in 0 .. MaxTick + Ring, NEW seat \in 0 .. NSeats, NEW pad \in Pads,
         SubmitBoth(tick, seat, pad)
  PROVE  RingInv' /\ SameAnswers'
<1>1. tick \in Nat /\ nextRun \in Nat /\ Ring \in Nat \ {0} /\ tick % Ring \in 0 .. Ring - 1
  BY RingsAssumption DEF RingInv
<1>2. CASE ~Looked(seat, tick)
  <2>1. \A slot : Verdict(slot, tick, seat) \in {-1, 0}
    BY <1>1, <1>2 DEF Looked, Verdict
  <2>2. Verdict(shellRing[tick % Ring], tick, seat) = Verdict(engineRing[tick % Ring], tick, seat)
    BY <1>1, <1>2 DEF Looked, Verdict
  <2>3. /\ shellRing' = shellRing /\ engineRing' = engineRing /\ nextRun' = nextRun
        /\ SameAnswers'
    BY <1>2, <2>1, <2>2 DEF SubmitBoth, SameAnswers
  <2>. QED  BY <2>3 DEF RingInv, Alike
<1>3. CASE Looked(seat, tick)
  <2>. DEFINE a == Claimed(shellRing, tick)
              b == ClaimedC(engineRing, tick)
              i == tick % Ring
  <2>. PICK x : x = a[i]
    OBVIOUS
  <2>1. seat \in Players /\ nextRun <= tick /\ tick < nextRun + Ring
    BY <1>3 DEF Looked
  <2>2. /\ x \in RingSlots /\ x.tick = tick /\ b[i] = x
        /\ a = [shellRing EXCEPT ![i] = x]
        /\ b = [engineRing EXCEPT ![i] = x]
    BY <1>1, <2>1, ClaimsAlike
  <2>3. /\ shellRing' = IF Verdict(x, tick, seat) = 1 THEN [a EXCEPT ![i] = Put(x, seat, pad)] ELSE a
        /\ engineRing' = IF Verdict(x, tick, seat) = 1 THEN [b EXCEPT ![i] = Put(x, seat, pad)] ELSE b
        /\ nextRun' = nextRun /\ SameAnswers'
    BY <1>3, <2>2 DEF SubmitBoth, SameAnswers
  <2>. DEFINE z == IF Verdict(x, tick, seat) = 1 THEN Put(x, seat, pad) ELSE x
  <2>4. z \in RingSlots /\ z.tick = tick
    BY <2>1, <2>2, PutGives
  <2>5. i \in 0 .. Ring - 1
    BY <1>1
  <2>. HIDE DEF a, b, i
  <2>6. shellRing' = [shellRing EXCEPT ![i] = z] /\ engineRing' = [engineRing EXCEPT ![i] = z]
    BY <2>2, <2>3, <2>5 DEF RingInv
  <2>. HIDE DEF z
  <2>7. Alike(z, z, i, nextRun')
    BY <2>1, <2>3, <2>4, <1>1 DEF Alike, i
  <2>. QED  BY <2>3, <2>4, <2>5, <2>6, <2>7, OneSlotChanges
<1>. QED  BY <1>2, <1>3

(* A run of the next tick. *)
LEMMA RunKeeps == ASSUME RingInv, RunBoth PROVE RingInv' /\ SameAnswers'
<1>. DEFINE a == Claimed(shellRing, nextRun)
            b == ClaimedC(engineRing, nextRun)
<1>. PICK i : i = nextRun % Ring
  OBVIOUS
<1>. PICK x : x = a[i]
  OBVIOUS
<1>1. nextRun \in Nat /\ Ring \in Nat \ {0} /\ i \in 0 .. Ring - 1
  BY RingsAssumption DEF RingInv
<1>2. /\ x \in RingSlots /\ x.tick = nextRun /\ b[i] = x
      /\ a = [shellRing EXCEPT ![i] = x]
      /\ b = [engineRing EXCEPT ![i] = x]
  BY <1>1, ClaimsAlike
<1>3. SameAnswers'
  BY <1>2 DEF RunBoth, SameAnswers
<1>4. CASE ~(Players \subseteq Has(x))
  <2>1. shellRing' = a /\ engineRing' = b /\ nextRun' = nextRun
    BY <1>2, <1>4 DEF RunBoth
  <2>. HIDE DEF a, b
  <2>2. Alike(x, x, i, nextRun')
    BY <1>1, <1>2, <2>1 DEF Alike
  <2>3. shellRing' = [shellRing EXCEPT ![i] = x] /\ engineRing' = [engineRing EXCEPT ![i] = x]
    BY <1>2, <2>1
  <2>. QED  BY <1>1, <1>2, <1>3, <2>1, <2>2, <2>3, OneSlotChanges
<1>5. CASE Players \subseteq Has(x)
  <2>1. shellRing' = a /\ engineRing' = Wiped(b, nextRun) /\ nextRun' = nextRun + 1
    BY <1>2, <1>5 DEF RunBoth
  <2>2. Empty(0) \in RingSlots /\ Has(Empty(0)) = {}
    BY EmptySlot
  <2>3. Wiped(b, nextRun) = [b EXCEPT ![i] = Empty(0)]
    BY DEF Wiped
  <2>. HIDE DEF a, b
  <2>4. Alike(x, Empty(0), i, nextRun')
    BY <1>1, <1>2, <2>1, <2>2 DEF Alike
  <2>6. /\ shellRing' = [shellRing EXCEPT ![i] = x]
        /\ engineRing' = [engineRing EXCEPT ![i] = Empty(0)]
    BY <1>1, <1>2, <2>1, <2>3 DEF RingInv
  <2>. QED  BY <1>1, <1>2, <1>3, <2>1, <2>2, <2>4, <2>6, OneSlotChanges
<1>. QED  BY <1>4, <1>5

(* missingSeat() of the next tick. *)
LEMMA MissingKeeps == ASSUME RingInv, MissingBoth PROVE RingInv' /\ SameAnswers'
<1>. DEFINE a == Claimed(shellRing, nextRun)
            b == ClaimedC(engineRing, nextRun)
<1>. PICK i : i = nextRun % Ring
  OBVIOUS
<1>. PICK x : x = a[i]
  OBVIOUS
<1>1. nextRun \in Nat /\ Ring \in Nat \ {0} /\ i \in 0 .. Ring - 1
  BY RingsAssumption DEF RingInv
<1>2. /\ x \in RingSlots /\ x.tick = nextRun /\ b[i] = x
      /\ a = [shellRing EXCEPT ![i] = x]
      /\ b = [engineRing EXCEPT ![i] = x]
  BY <1>1, ClaimsAlike
<1>3. shellRing' = a /\ engineRing' = b /\ nextRun' = nextRun
  BY DEF MissingBoth
<1>4. SameAnswers'
  BY <1>2 DEF MissingBoth, SameAnswers
<1>. HIDE DEF a, b
<1>5. Alike(x, x, i, nextRun')
  BY <1>1, <1>2, <1>3 DEF Alike
<1>6. shellRing' = [shellRing EXCEPT ![i] = x] /\ engineRing' = [engineRing EXCEPT ![i] = x]
  BY <1>2, <1>3
<1>. QED  BY <1>1, <1>2, <1>3, <1>4, <1>5, <1>6, OneSlotChanges

(* The slots of the two rings stay alike. *)
THEOREM RingInvHolds == RingsSpec => [](RingInv /\ SameAnswers)
<1>1. RingsInit => RingInv /\ SameAnswers
  <2>1. RingsInit => /\ nextRun = 0 /\ SameAnswers
                     /\ shellRing = [i \in 0 .. Ring - 1 |-> Empty(i)]
                     /\ engineRing = [i \in 0 .. Ring - 1 |-> Empty(0)]
    BY DEF RingsInit, SameAnswers
  <2>2. Ring \in Nat \ {0}
    BY RingsAssumption
  <2>. QED  BY <2>1, <2>2, EmptySlot DEF RingInv, Alike
<1>2. RingInv /\ SameAnswers /\ [RingsNext]_ringVars => RingInv' /\ SameAnswers'
  <2>. SUFFICES ASSUME RingInv, SameAnswers, [RingsNext]_ringVars PROVE RingInv' /\ SameAnswers'
    OBVIOUS
  <2>1. CASE UNCHANGED ringVars
    BY <2>1 DEF ringVars, RingInv, Alike, SameAnswers
  <2>. QED  BY <2>1, SubmitKeeps, RunKeeps, MissingKeeps DEF RingsNext
<1>. QED  BY <1>1, <1>2, PTL DEF RingsSpec

-------------------------------------------------------------------------------
(* The layouts of a config.                                                *)

Single == {"protocol", "packHash", "buildId"} \cup OneByte \cup OneWord
Fours == {"chars", "handicaps", "slider007"}
Names == Single \cup Fours \cup {"favWeapons"}
Extent(n) ==
  CASE n = "protocol" -> 2
    [] n = "packHash" -> 32
    [] n = "buildId" -> 20
    [] n \in OneByte -> 1
    [] n \in OneWord -> 4
    [] n = "favWeapons" -> 32
    [] OTHER -> 16

(* No two names share a byte. *)
LEMMA NamesApart ==
  \A n, m \in Names : n = m \/ CFirst[n] + Extent(n) <= CFirst[m] \/ CFirst[m] + Extent(m) <= CFirst[n]
  BY SMTT(60) DEF Names, Single, Fours, OneByte, OneWord, CFirst, Extent

LEMMA NamesFit ==
  \A n \in Names : CFirst[n] \in Nat /\ Extent(n) \in Nat /\ CFirst[n] + Extent(n) <= 160
  BY DEF Names, Single, Fours, OneByte, OneWord, CFirst, Extent

(* A field lies within the extent of its name. *)
LEMMA FieldFits ==
  ASSUME NEW f \in Fields
  PROVE  /\ f = <<f[1], f[2]>> /\ f[1] \in Names /\ f[2] \in Nat
         /\ Width(f) \in Nat /\ 0 < Width(f)
         /\ 4 * f[2] + Width(f) <= Extent(f[1])
         /\ f[1] \in Single => f[2] = 0
         /\ f[1] \notin Single => Width(f) = 4
<1>1. PICK n, i : /\ f = <<n, i>>
                  /\ \/ n \in Single /\ i \in {0}
                     \/ n \in Fours /\ i \in 0 .. 3
                     \/ n = "favWeapons" /\ i \in 0 .. 7
  BY DEF Fields, Single, Fours
<1>2. CASE n \in Single /\ i \in {0}
  BY <1>1, <1>2 DEF Single, OneByte, OneWord, Names, Width, Extent
<1>3. CASE n \in Fours /\ i \in 0 .. 3
  BY <1>1, <1>3 DEF Single, OneByte, OneWord, Names, Width, Extent, Fours
<1>4. CASE n = "favWeapons" /\ i \in 0 .. 7
  BY <1>1, <1>4 DEF Single, OneByte, OneWord, Names, Width, Extent
<1>. QED  BY <1>1, <1>2, <1>3, <1>4

(* Both programs put each field at one place. *)
LEMMA SamePlaces == TsPlaces = CPlaces
<1>. SUFFICES ASSUME NEW f \in Fields PROVE TsPlace(f) = CPlace(f)
  BY DEF TsPlaces, CPlaces
<1>1. CASE f[1] = "favWeapons"
  <2>1. f[2] \in 0 .. 7
    BY <1>1 DEF Fields, OneByte, OneWord
  <2>2. CFirst[f[1]] = 60
    BY <1>1 DEF CFirst
  <2>3. (IF f[2] % 2 = 0 THEN 60 ELSE 64) + 8 * (f[2] \div 2) = 60 + 4 * f[2]
    BY <2>1
  <2>. QED  BY <1>1, <2>2, <2>3 DEF TsPlace, CPlace
<1>2. CASE f[1] # "favWeapons"
  <2>1. f[1] \in Names \ {"favWeapons"}
    BY <1>2, FieldFits
  <2>2. TsFirst[f[1]] = CFirst[f[1]]
    BY <2>1 DEF Names, Single, Fours, OneByte, OneWord, TsFirst, CFirst
  <2>. QED  BY <1>2, <2>2 DEF TsPlace, CPlace
<1>. QED  BY <1>1, <1>2

(* A byte belongs to one field. *)
LEMMA OneOwner ==
  ASSUME NEW f \in Fields, NEW j \in 1 .. Width(f), NEW o, o = CPlaces[f] + j
  PROVE  o \in 1 .. Size /\ Owners(CPlaces, o) = {f}
<1>. DEFINE n == f[1]
<1>1. CPlaces[f] = CFirst[n] + 4 * f[2]
  BY DEF CPlaces, CPlace
<1>2. /\ n \in Names /\ f[2] \in Nat /\ Width(f) \in Nat /\ 4 * f[2] + Width(f) <= Extent(n)
      /\ CFirst[n] \in Nat /\ Extent(n) \in Nat /\ CFirst[n] + Extent(n) <= 160
  BY FieldFits, NamesFit
<1>3. o \in 1 .. Size
  <2>1. o \in Int /\ 0 < o /\ o <= 160
    BY <1>1, <1>2
  <2>. QED  BY <2>1 DEF Size
<1>4. ASSUME NEW g \in Fields, CPlaces[g] < o, o <= CPlaces[g] + Width(g)
      PROVE  g = f
  <2>. DEFINE m == g[1]
  <2>1. CPlaces[g] = CFirst[m] + 4 * g[2]
    BY DEF CPlaces, CPlace
  <2>2. /\ m \in Names /\ g[2] \in Nat /\ Width(g) \in Nat /\ 4 * g[2] + Width(g) <= Extent(m)
        /\ CFirst[m] \in Nat /\ Extent(m) \in Nat
    BY FieldFits, NamesFit
  <2>3. n = m \/ CFirst[n] + Extent(n) <= CFirst[m] \/ CFirst[m] + Extent(m) <= CFirst[n]
    BY <1>2, <2>2, NamesApart
  <2>4. n = m
    <3>. HIDE DEF n, m
    <3>1. CFirst[n] < o /\ o <= CFirst[n] + Extent(n)
      BY <1>1, <1>2
    <3>2. CFirst[m] < o /\ o <= CFirst[m] + Extent(m)
      BY <1>4, <2>1, <2>2
    <3>. QED  BY <1>2, <1>3, <2>2, <2>3, <3>1, <3>2
  <2>5. f[2] = g[2]
    <3>1. CASE n \in Single
      BY <2>4, <3>1, FieldFits
    <3>2. CASE n \notin Single
      <4>1. Width(f) = 4 /\ Width(g) = 4
        BY <2>4, <3>2, FieldFits
      <4>2. 4 * g[2] < 4 * f[2] + j /\ 4 * f[2] + j <= 4 * g[2] + 4
        BY <1>1, <1>2, <1>4, <2>1, <2>2, <2>4, <4>1
      <4>. QED  BY <1>2, <2>2, <4>1, <4>2
    <3>. QED  BY <3>1, <3>2
  <2>. QED  BY <2>4, <2>5, FieldFits
<1>5. CPlaces[f] < o /\ o <= CPlaces[f] + Width(f)
  BY <1>1, <1>2
<1>. QED  BY <1>3, <1>4, <1>5 DEF Owners

Fillings == {c \in [Fields -> Seq(ByteValues)] : \A f \in Fields : Len(c[f]) = Width(f)}

(* What is written is read back. *)
LEMMA LaidBack ==
  ASSUME NEW c \in Fillings
  PROVE  /\ Len(Laid(CPlaces, c)) = Size
         /\ Unpacked(CPlaces, Laid(CPlaces, c)) = c
<1>. DEFINE b == Laid(CPlaces, c)
<1>1. /\ b = [o \in 1 .. Size |-> b[o]] /\ Len(b) = Size
  BY DEF Laid, Size
<1>2. ASSUME NEW f \in Fields PROVE SubSeq(b, CPlaces[f] + 1, CPlaces[f] + Width(f)) = c[f]
  <2>. DEFINE w == Width(f)
              p == CPlaces[f]
  <2>1. p \in Nat /\ w \in Nat /\ 0 < w /\ p + w <= Size
    BY FieldFits, NamesFit DEF CPlaces, CPlace, Size
  <2>2. ASSUME NEW j \in 1 .. w PROVE b[p + j] = c[f][j]
    <3>. PICK o : o = p + j
      OBVIOUS
    <3>1. o \in 1 .. Size /\ Owners(CPlaces, o) = {f} /\ o - p = j
      BY <2>1, OneOwner
    <3>2. b[o] = c[f][o - p]
      BY <3>1 DEF Laid
    <3>. QED  BY <3>1, <3>2
  <2>. HIDE DEF b, p, w
  <2>3. SubSeq(b, p + 1, p + w) = [j \in 1 .. w |-> b[p + j]]
    BY <1>1, <2>1
  <2>4. c[f] = [j \in 1 .. w |-> c[f][j]]
    BY DEF Fillings, w
  <2>. QED  BY <2>2, <2>3, <2>4 DEF p, w
<1>3. DOMAIN c = Fields /\ c = [f \in Fields |-> c[f]]
  BY DEF Fillings
<1>. QED  BY <1>1, <1>2, <1>3 DEF Unpacked

(* The low bytes of a number below 256, and the number read from them. *)
LEMMA LowByte ==
  ASSUME NEW v \in ByteValues, NEW w \in {1, 2, 4}
  PROVE  /\ LowBytes(v, w) \in Seq(ByteValues) /\ Len(LowBytes(v, w)) = w
         /\ Number(LowBytes(v, w)) = v
<1>1. v \in Nat /\ v < 256
  BY DEF ByteValues
<1>2. /\ (v \div 1) % 256 = v /\ (v \div 256) % 256 = 0 /\ (v \div 65536) % 256 = 0
      /\ (v \div 16777216) % 256 = 0
  BY <1>1
<1>3. Power[1] = 1 /\ Power[2] = 256 /\ Power[3] = 65536 /\ Power[4] = 16777216
  BY DEF Power
<1>4. \A k \in 1 .. w : (v \div Power[k]) % 256 = IF k = 1 THEN v ELSE 0
  <2>. SUFFICES ASSUME NEW k \in 1 .. w PROVE (v \div Power[k]) % 256 = IF k = 1 THEN v ELSE 0
    OBVIOUS
  <2>1. k = 1 \/ k = 2 \/ k = 3 \/ k = 4
    OBVIOUS
  <2>2. CASE k = 1
    BY <1>2, <1>3, <2>2
  <2>3. CASE k = 2
    BY <1>2, <1>3, <2>3
  <2>4. CASE k = 3
    BY <1>2, <1>3, <2>4
  <2>5. CASE k = 4
    BY <1>2, <1>3, <2>5
  <2>. QED  BY <2>1, <2>2, <2>3, <2>4, <2>5
<1>5. LowBytes(v, w) = [k \in 1 .. w |-> IF k = 1 THEN v ELSE 0]
  BY <1>4 DEF LowBytes
<1>. PICK s : s = [k \in 1 .. w |-> IF k = 1 THEN v ELSE 0]
  OBVIOUS
<1>6. s \in Seq(ByteValues) /\ Len(s) = w
  BY DEF ByteValues
<1>7. s[1] = v /\ (w # 1 => s[2] = 0) /\ (w = 4 => s[3] = 0 /\ s[4] = 0)
  OBVIOUS
<1>8. Number(s) = v
  BY <1>1, <1>6, <1>7 DEF Number
<1>. QED  BY <1>5, <1>6, <1>8

(* What a host asks for, bounded, has a byte each. *)
LEMMA AskedFits ==
  ASSUME NEW n \in Int, NEW d \in Int, NEW s, NEW g \in Int, NEW x \in DOMAIN Asked(n, d, s, g)
  PROVE  Asked(n, d, s, g)[x] \in ByteValues
<1>1. Bounded(n, 2, 4) \in ByteValues /\ Bounded(d, 1, 3) \in ByteValues /\ Bounded(g, 0, 6) \in ByteValues
  BY DEF Bounded, ByteValues
<1>2. 1 \in ByteValues /\ 3 \in ByteValues /\ Protocol \in ByteValues
  BY DEF ByteValues, Protocol
<1>3. Facility \in ByteValues /\ Complex \in ByteValues
  BY ConfigAssumption
<1>. QED  BY <1>1, <1>2, <1>3 DEF Asked

LEMMA OfLength == \A w \in Nat : \A b \in [1 .. w -> ByteValues] : b \in Seq(ByteValues) /\ Len(b) = w
  OBVIOUS

(* Every field that a host packs has its width. *)
LEMMA PackedFits ==
  ASSUME NEW h \in Hashes, NEW n \in Int, NEW d \in Int, NEW s, NEW g \in Int
  PROVE  PackedLobbyCfg(h, n, d, s, g) \in Fillings
<1>. DEFINE v == Asked(n, d, s, g)
            c == PackedLobbyCfg(h, n, d, s, g)
<1>1. ASSUME NEW f \in Fields PROVE c[f] \in Seq(ByteValues) /\ Len(c[f]) = Width(f)
  <2>1. CASE f[1] = "packHash"
    <3>1. c[f] = h /\ Width(f) = 32
      BY <2>1 DEF PackedLobbyCfg, Width, OneByte, Asked
    <3>2. h \in [1 .. 32 -> ByteValues]
      BY ConfigAssumption
    <3>. HIDE DEF c
    <3>. QED  BY <3>1, <3>2, OfLength, 32 \in Nat, 20 \in Nat, Zenon
  <2>2. CASE f[1] = "buildId"
    <3>1. c[f] = BuildId /\ Width(f) = 20
      BY <2>2 DEF PackedLobbyCfg, Width, OneByte, Asked
    <3>2. BuildId \in [1 .. 20 -> ByteValues]
      BY ConfigAssumption
    <3>. HIDE DEF c
    <3>. QED  BY <3>1, <3>2, OfLength, 32 \in Nat, 20 \in Nat, Zenon
  <2>3. CASE f[1] = "chars"
    <3>1. c[f] = LowBytes(f[2] + 1, 4) /\ Width(f) = 4
      BY <2>3 DEF PackedLobbyCfg, Width, OneByte, Asked
    <3>2. f[2] + 1 \in ByteValues
      BY <2>3 DEF Fields, OneByte, OneWord, ByteValues
    <3>. QED  BY <3>1, <3>2, LowByte
  <2>4. CASE f[1] \notin {"packHash", "buildId", "chars"}
    <3>1. Width(f) \in {1, 2, 4}
      BY <2>4 DEF Width
    <3>2. PICK x \in ByteValues : c[f] = LowBytes(x, Width(f))
      <4>1. CASE f[1] \in DOMAIN v
        <5>1. v[f[1]] \in ByteValues
          BY <4>1, AskedFits
        <5>2. c[f] = LowBytes(v[f[1]], Width(f))
          BY <2>4, <4>1 DEF PackedLobbyCfg
        <5>. QED  BY <5>1, <5>2
      <4>2. CASE f[1] \notin DOMAIN v
        <5>1. c[f] = LowBytes(0, Width(f)) /\ 0 \in ByteValues
          BY <2>4, <4>2 DEF PackedLobbyCfg, ByteValues
        <5>. QED  BY <5>1
      <4>. QED  BY <4>1, <4>2
    <3>. QED  BY <3>1, <3>2, LowByte
  <2>. QED  BY <2>1, <2>2, <2>3, <2>4
<1>2. c = [f \in Fields |-> c[f]]
  BY DEF PackedLobbyCfg
<1>. QED  BY <1>1, <1>2 DEF Fillings

(* A number that a host has asked for is read back. *)
LEMMA NumberBack ==
  ASSUME NEW h, NEW n \in Int, NEW d \in Int, NEW s, NEW g \in Int,
         NEW x \in {"nseats", "delayTicks", "stage", "gameLength", "protocol"}
  PROVE  Number(PackedLobbyCfg(h, n, d, s, g)[<<x, 0>>]) = Asked(n, d, s, g)[x]
<1>. PICK f : f = <<x, 0>>
  OBVIOUS
<1>1. f \in Fields /\ f[1] = x
  BY DEF Fields, OneByte, OneWord
<1>2. Width(f) \in {1, 2, 4}
  BY <1>1 DEF Width
<1>3. x \in DOMAIN Asked(n, d, s, g)
  BY DEF Asked
<1>4. PackedLobbyCfg(h, n, d, s, g)[f] = LowBytes(Asked(n, d, s, g)[x], Width(f))
  BY <1>1, <1>3 DEF PackedLobbyCfg
<1>. QED  BY <1>2, <1>3, <1>4, AskedFits, LowByte

(* What is published is what a host chose, and what is begun is what was    *)
(* published.                                                               *)
ConfigInv ==
  /\ published # <<>> =>
       \E h \in Hashes, n \in Counts, d \in Delays, s \in Stages, g \in GameLengths :
         /\ asked = [nseats |-> n, delay |-> d, stage |-> s, length |-> g]
         /\ chosen = PackedLobbyCfg(h, n, d, s, g)
         /\ published = TsEncode(chosen)
  /\ begins # <<>> /\ published # <<>> =>
       begins = [ts |-> TsDecode(published), c |-> CDecode(published),
                 match |-> StartedWith(TsDecode(published), 2)]

LEMMA ConfigInvHolds == ConfigSpec => []ConfigInv
<1>1. ConfigInit => ConfigInv
  BY DEF ConfigInit, ConfigInv
<1>2. ConfigInv /\ [ConfigNext]_configVars => ConfigInv'
  <2>. SUFFICES ASSUME ConfigInv, [ConfigNext]_configVars PROVE ConfigInv'
    OBVIOUS
  <2>1. CASE PublishCfg
    BY <2>1 DEF PublishCfg, ConfigInv
  <2>2. CASE BeginMatch
    BY <2>2 DEF BeginMatch, ConfigInv
  <2>3. CASE UNCHANGED configVars
    BY <2>3 DEF configVars, ConfigInv
  <2>. QED  BY <2>1, <2>2, <2>3 DEF ConfigNext
<1>. QED  BY <1>1, <1>2, PTL DEF ConfigSpec

(* Both programs read what the host chose. *)
LEMMA ReadAsChosen ==
  ASSUME NEW h \in Hashes, NEW n \in Int, NEW d \in Int, NEW s, NEW g \in Int,
         NEW c, c = PackedLobbyCfg(h, n, d, s, g)
  PROVE  /\ TsEncode(c) = CEncode(c)
         /\ TsDecode(TsEncode(c)) = c /\ CDecode(TsEncode(c)) = c
<1>1. c \in Fillings
  BY PackedFits
<1>2. Number(c[<<"pad0", 0>>]) = 0
  <2>. PICK f : f = <<"pad0", 0>>
    OBVIOUS
  <2>1. f \in Fields /\ f[1] = "pad0" /\ Width(f) = 1
    BY DEF Fields, OneByte, OneWord, Width
  <2>2. c[f] = LowBytes(0, 1)
    BY <2>1 DEF PackedLobbyCfg, Asked
  <2>. QED  BY <2>2, LowByte DEF ByteValues
<1>3. Number(c[<<"protocol", 0>>]) = Protocol
  BY NumberBack DEF Asked
<1>4. Legal(c)
  BY <1>2, <1>3 DEF Legal
<1>5. TsEncode(c) = Laid(CPlaces, c) /\ CEncode(c) = Laid(CPlaces, c)
  BY <1>4, SamePlaces DEF TsEncode, CEncode
<1>6. Len(Laid(CPlaces, c)) = Size /\ Unpacked(CPlaces, Laid(CPlaces, c)) = c
  BY <1>1, LaidBack
<1>. QED  BY <1>4, <1>5, <1>6, SamePlaces DEF TsDecode, CDecode

(* Whichever program reads it, and whatever the host asks for, the match    *)
(* that begins is the one of the config that was published.                 *)
THEOREM SameMatchHolds == ConfigSpec => []SameMatch
<1>1. ConfigInv => SameMatch
  <2>. SUFFICES ASSUME ConfigInv, begins # <<>>, published # <<>> PROVE SameMatch
    BY DEF SameMatch
  <2>1. PICK h \in Hashes, n \in Counts, d \in Delays, s \in Stages, g \in GameLengths :
          /\ asked = [nseats |-> n, delay |-> d, stage |-> s, length |-> g]
          /\ chosen = PackedLobbyCfg(h, n, d, s, g)
          /\ published = TsEncode(chosen)
    BY DEF ConfigInv
  <2>2. n \in Int /\ d \in Int /\ g \in Int
    BY ConfigAssumption
  <2>3. /\ TsDecode(published) = chosen /\ CDecode(published) = chosen
        /\ TsEncode(chosen) = published /\ CEncode(chosen) = published
    BY <2>1, <2>2, ReadAsChosen
  <2>4. begins = [ts |-> chosen, c |-> chosen, match |-> StartedWith(chosen, 2)]
    BY <2>3 DEF ConfigInv
  <2>5. /\ Number(chosen[<<"nseats", 0>>]) = Bounded(n, 2, 4)
        /\ Number(chosen[<<"delayTicks", 0>>]) = Bounded(d, 1, 3)
        /\ Number(chosen[<<"stage", 0>>]) = IF s = Complex THEN Complex ELSE Facility
        /\ Number(chosen[<<"gameLength", 0>>]) = Bounded(g, 0, 6)
    BY <2>1, <2>2, NumberBack DEF Asked
  <2>6. chosen # <<>>
    <3>1. <<"stage", 0>> \in DOMAIN chosen
      BY <2>1 DEF PackedLobbyCfg, Fields, OneByte, OneWord
    <3>. QED  BY <3>1
  <2>7. /\ begins.match.nseats = Bounded(IF 2 > Bounded(n, 2, 4) THEN 2 ELSE Bounded(n, 2, 4), 2, 4)
        /\ begins.match.delay = Bounded(Bounded(d, 1, 3), 1, 3)
        /\ begins.match.stage = IF s = Complex THEN Complex ELSE Facility
        /\ begins.match.length = Bounded(Bounded(g, 0, 6), 0, 6)
    BY <2>4, <2>5, <2>6 DEF StartedWith
  <2>8. /\ n \in 2 .. 4 => begins.match.nseats = n
        /\ d \in 1 .. 3 => begins.match.delay = d
        /\ g \in 0 .. 6 => begins.match.length = g
    BY <2>2, <2>7 DEF Bounded
  <2>. QED  BY <2>1, <2>3, <2>4, <2>7, <2>8, ConfigAssumption DEF SameMatch
<1>. QED  BY <1>1, ConfigInvHolds, PTL

-------------------------------------------------------------------------------
(* How a pad goes over the wire. *)

SignedBytes == {n \in Int : -128 < n /\ n < 128}
TickNumbers == {n \in Nat : n < 32767 * Half}
PadsMade ==
  [x : SignedBytes, y : SignedBytes, buttons : 0 .. Half - 1, lookYaw : SignedBytes, lookPitch : SignedBytes]
BlocksMade ==
  [tick : TickNumbers, seat : Bytes, nseats : Bytes, delay : Bytes, pad : PadsMade, simCrc : Words]

(* What was sent is what was committed, newest first; what the other peer   *)
(* has is what was committed for the tick.                                  *)
WireInv ==
  /\ mouse \in Int \X Int /\ crc \in Words /\ air \in [count : Bytes, bytes : Seq(Bytes)]
  /\ Ticks \in TickNumbers /\ DOMAIN ring = 0 .. Ticks - 1
  /\ \A t \in DOMAIN ring : ring[t] \in BlocksMade /\ ring[t].tick = t
  /\ \E n \in 0 .. Ticks :
       /\ history = [i \in 1 .. n |-> ring[Ticks - i]]
       /\ \/ air.count = 0
          \/ n \in 1 .. Redundancy /\ air = EncodeInputDatagram(history)
  /\ DOMAIN theirs \subseteq DOMAIN ring
  /\ \A t \in DOMAIN theirs : theirs[t] = ring[t]

(* A signed byte survives the array of unsigned ones. *)
LEMMA SignedByte == \A v \in SignedBytes : v % 256 \in Bytes /\ Signed8(v % 256) = v
<1>. SUFFICES ASSUME NEW v \in SignedBytes PROVE v % 256 \in Bytes /\ Signed8(v % 256) = v
  OBVIOUS
<1>1. v \in Int /\ -128 < v /\ v < 128
  BY DEF SignedBytes
<1>2. PICK n \in Nat : n = IF v >= 0 THEN v ELSE v + 256
  BY <1>1
<1>3. v % 256 = n
  BY <1>1, <1>2
<1>4. n < 256 /\ (IF n >= 128 THEN n - 256 ELSE n) = v
  BY <1>1, <1>2
<1>. QED  BY <1>3, <1>4 DEF Bytes, Signed8

(* The two bytes of half a word. *)
LEMMA HalfBytes ==
  ASSUME NEW h \in 0 .. Half - 1
  PROVE  /\ h \in Nat /\ h < 65536 /\ h % Half = h
         /\ h % 256 \in Bytes /\ h \div 256 \in Bytes
         /\ (h % 256) + 256 * (h \div 256) = h
<1>1. Half <= 65536 /\ Half \in Nat
  BY DEF Half
<1>2. h \in Nat /\ h < 65536 /\ h <= Half - 1
  BY <1>1
<1>3. h % Half = h
  BY <1>1, <1>2
<1>4. /\ h % 256 \in Nat /\ h % 256 < 256 /\ h \div 256 \in Nat /\ h \div 256 < 256
      /\ (h % 256) + 256 * (h \div 256) = h
  BY <1>2, SMT
<1>5. \A n \in Nat : n < 256 => n \in Bytes
  BY DEF Bytes
<1>6. h % 256 \in Bytes /\ h \div 256 \in Bytes
  BY <1>4, <1>5, Zenon
<1>. QED  BY <1>2, <1>3, <1>4, <1>6, SMTT(30)

(* The sign of a word is the top bit of its half. *)
LEMMA SignTaken == \A h \in Nat : h < 65536 => (h - Half) % Half = h
  BY SMT DEF Half

(* A word survives them, its sign taken off. *)
LEMMA WordBytes ==
  ASSUME NEW w \in Words
  PROVE  /\ Wr32(w) \in Seq(Bytes) /\ Len(Wr32(w)) = 4
         /\ Unsigned(Rd32(Wr32(w))) = w
<1>1. PICK h, l \in 0 .. Half - 1 : w = <<h, l>>
  BY DEF Words
<1>2. w[1] = h /\ w[2] = l
  BY <1>1
<1>3. /\ l % 256 \in Bytes /\ l \div 256 \in Bytes /\ h % 256 \in Bytes /\ h \div 256 \in Bytes
      /\ (l % 256) + 256 * (l \div 256) = l /\ (h % 256) + 256 * (h \div 256) = h
      /\ h % Half = h /\ h \in Nat
  BY HalfBytes
<1>4. Wr32(w) = <<l % 256, l \div 256, h % 256, h \div 256>>
  BY <1>2, <1>3 DEF Wr32
<1>. PICK b : b = Wr32(w)
  OBVIOUS
<1>5. /\ b \in Seq(Bytes) /\ Len(b) = 4
      /\ b[1] = l % 256 /\ b[2] = l \div 256 /\ b[3] = h % 256 /\ b[4] = h \div 256
  BY <1>3, <1>4
<1>6. b[1] + 256 * b[2] = l /\ b[3] + 256 * b[4] = h
  BY <1>3, <1>5
<1>7. Rd32(b) = <<IF h >= 32768 THEN h - Half ELSE h, l>>
  BY <1>6 DEF Rd32
<1>8. (h - Half) % Half = h
  BY <1>3, HalfBytes, SignTaken
<1>9. Unsigned(Rd32(b)) = <<h, l>>
  BY <1>3, <1>7, <1>8 DEF Unsigned
<1>. QED  BY <1>1, <1>5, <1>9

(* So does the number of a tick. *)
LEMMA TickWord ==
  ASSUME NEW t \in TickNumbers PROVE Word(t) \in Words /\ Value(Word(t)) = t
<1>1. Half \in Nat /\ 65536 <= Half /\ Half <= 65536
  BY DEF Half
<1>2. PICK h, l : h = t \div Half /\ l = t % Half
  OBVIOUS
<1>3. t \in Nat /\ t < 32767 * Half
  BY DEF TickNumbers
<1>4. h \in Nat /\ l \in Nat /\ h < Half /\ l < Half /\ Half * h + l = t
  <2>1. \A n \in Nat : n < 32767 * 65536 =>
          /\ n \div 65536 \in Nat /\ n % 65536 \in Nat /\ n \div 65536 < 65536 /\ n % 65536 < 65536
          /\ 65536 * (n \div 65536) + (n % 65536) = n
    BY SMT
  <2>. QED  BY <1>2, <1>3, <2>1, SMT DEF Half
<1>5. h \in 0 .. Half - 1 /\ l \in 0 .. Half - 1
  BY <1>1, <1>4
<1>6. Word(t) = <<h, l>>
  BY <1>2, Zenon DEF Word
<1>. QED  BY <1>4, <1>5, <1>6 DEF Words, Value

Follows(w, u, v) == w = u \o v
Joins(w, u, v) ==
  /\ w \in Seq(Bytes) /\ Len(w) = Len(u) + Len(v)
  /\ \A i \in Nat : 0 < i /\ i <= Len(u) => w[i] = u[i]
  /\ \A i \in Nat : 0 < i /\ i <= Len(v) => w[Len(u) + i] = v[i]
(* What stands in front and what behind. *)
LEMMA Behind ==
  ASSUME NEW u \in Seq(Bytes), NEW v \in Seq(Bytes), NEW w, Follows(w, u, v)
  PROVE  w \in Seq(Bytes) /\ Joins(w, u, v)
<1>1. /\ u \o v \in Seq(Bytes) /\ Len(u \o v) = Len(u) + Len(v)
      /\ \A i \in 1 .. Len(u) + Len(v) :
           (u \o v)[i] = IF i <= Len(u) THEN u[i] ELSE v[i - Len(u)]
  BY ConcatProperties
<1>2. /\ w \in Seq(Bytes) /\ Len(w) = Len(u) + Len(v)
      /\ \A i \in 1 .. Len(u) + Len(v) : w[i] = IF i <= Len(u) THEN u[i] ELSE v[i - Len(u)]
  BY <1>1, Zenon DEF Follows
<1>3. Len(u) \in Nat /\ Len(v) \in Nat
  BY LenProperties
<1>4. \A i \in Nat : 0 < i /\ i <= Len(u) => w[i] = u[i]
  BY <1>2, <1>3
<1>5. \A i \in Nat : 0 < i /\ i <= Len(v) => w[Len(u) + i] = v[i]
  <2>. SUFFICES ASSUME NEW i \in Nat, 0 < i, i <= Len(v) PROVE w[Len(u) + i] = v[i]
    OBVIOUS
  <2>. PICK n \in Nat : n = Len(u)
    BY <1>3
  <2>. PICK m \in Nat : m = n + i
    OBVIOUS
  <2>1. m \in 1 .. Len(u) + Len(v) /\ ~(m <= Len(u)) /\ m - Len(u) = i
    BY <1>3
  <2>2. w[m] = v[m - Len(u)]
    BY <1>2, <2>1
  <2>. QED  BY <2>1, <2>2
<1>. QED  BY <1>2, <1>4, <1>5 DEF Joins
Quads == {q \in Seq(Bytes) : Len(q) = 4}
Six(a, b, c, d, e, f) == a \o b \o c \o d \o e \o f
Spread(s, a, b, c, d, e, f) ==
  /\ s \in Seq(Bytes) /\ Len(s) = 24
  /\ \A i \in Nat : 0 < i /\ i <= 4 =>
       /\ s[i] = a[i] /\ s[4 + i] = b[i] /\ s[8 + i] = c[i]
       /\ s[12 + i] = d[i] /\ s[16 + i] = e[i] /\ s[20 + i] = f[i]

(* The six fields of four bytes, one behind the other. *)
LEMMA SixQuads ==
  ASSUME NEW a \in Quads, NEW b \in Quads, NEW c \in Quads, NEW d \in Quads, NEW e \in Quads,
         NEW f \in Quads
  PROVE  Spread(Six(a, b, c, d, e, f), a, b, c, d, e, f)
<1>. PICK s : s = Six(a, b, c, d, e, f)
  OBVIOUS
<1>0. /\ a \in Seq(Bytes) /\ b \in Seq(Bytes) /\ c \in Seq(Bytes) /\ d \in Seq(Bytes)
      /\ e \in Seq(Bytes) /\ f \in Seq(Bytes)
      /\ Len(a) = 4 /\ Len(b) = 4 /\ Len(c) = 4 /\ Len(d) = 4 /\ Len(e) = 4 /\ Len(f) = 4
  BY DEF Quads
<1>1. PICK p, q, r, t : Follows(p, a, b) /\ Follows(q, p, c) /\ Follows(r, q, d)
                        /\ Follows(t, r, e) /\ Follows(s, t, f)
  BY Zenon DEF Follows, Six
<1>2. /\ p \in Seq(Bytes) /\ q \in Seq(Bytes) /\ r \in Seq(Bytes) /\ t \in Seq(Bytes) /\ s \in Seq(Bytes)
      /\ Joins(p, a, b) /\ Joins(q, p, c) /\ Joins(r, q, d) /\ Joins(t, r, e) /\ Joins(s, t, f)
  BY <1>0, <1>1, Behind, Zenon
<1>3. Len(p) = 8 /\ Len(q) = 12 /\ Len(r) = 16 /\ Len(t) = 20 /\ Len(s) = 24
  BY <1>0, <1>2 DEF Joins
<1>. SUFFICES ASSUME NEW i \in Nat, 0 < i, i <= 4
              PROVE  /\ s[i] = a[i] /\ s[4 + i] = b[i] /\ s[8 + i] = c[i]
                     /\ s[12 + i] = d[i] /\ s[16 + i] = e[i] /\ s[20 + i] = f[i]
  BY <1>2, <1>3 DEF Spread
<1>4. \A j \in Nat : 0 < j /\ j <= 20 => s[j] = t[j]
  BY <1>0, <1>2, <1>3 DEF Joins
<1>5. \A j \in Nat : 0 < j /\ j <= 16 => t[j] = r[j]
  BY <1>0, <1>2, <1>3 DEF Joins
<1>6. \A j \in Nat : 0 < j /\ j <= 12 => r[j] = q[j]
  BY <1>0, <1>2, <1>3 DEF Joins
<1>7. \A j \in Nat : 0 < j /\ j <= 8 => q[j] = p[j]
  BY <1>0, <1>2, <1>3 DEF Joins
<1>8. p[i] = a[i] /\ p[4 + i] = b[i]
  <2>1. p[i] = a[i]
    BY <1>0, <1>2 DEF Joins
  <2>2. p[4 + i] = b[i]
    BY <1>0, <1>2 DEF Joins
  <2>. QED  BY <2>1, <2>2
<1>9. q[8 + i] = c[i]
  <2>1. \A j \in Nat : 0 < j /\ j <= Len(c) => q[Len(p) + j] = c[j]
    BY <1>2, Zenon DEF Joins
  <2>2. q[Len(p) + i] = c[i]
    BY <1>0, <2>1
  <2>. QED  BY <1>3, <2>2, Zenon
<1>10. r[12 + i] = d[i]
  <2>1. \A j \in Nat : 0 < j /\ j <= Len(d) => r[Len(q) + j] = d[j]
    BY <1>2, Zenon DEF Joins
  <2>2. r[Len(q) + i] = d[i]
    BY <1>0, <2>1
  <2>. QED  BY <1>3, <2>2, Zenon
<1>11. t[16 + i] = e[i]
  <2>1. \A j \in Nat : 0 < j /\ j <= Len(e) => t[Len(r) + j] = e[j]
    BY <1>2, Zenon DEF Joins
  <2>2. t[Len(r) + i] = e[i]
    BY <1>0, <2>1
  <2>. QED  BY <1>3, <2>2, Zenon
<1>12. s[20 + i] = f[i]
  <2>1. \A j \in Nat : 0 < j /\ j <= Len(f) => s[Len(t) + j] = f[j]
    BY <1>2, Zenon DEF Joins
  <2>2. s[Len(t) + i] = f[i]
    BY <1>0, <2>1
  <2>. QED  BY <1>3, <2>2, Zenon
<1>13. /\ s[i] = t[i] /\ s[4 + i] = t[4 + i] /\ s[8 + i] = t[8 + i]
       /\ s[12 + i] = t[12 + i] /\ s[16 + i] = t[16 + i]
  <2>1. /\ 0 < 4 + i /\ 4 + i <= 20 /\ 0 < 8 + i /\ 8 + i <= 20
        /\ 0 < 12 + i /\ 12 + i <= 20 /\ 0 < 16 + i /\ 16 + i <= 20 /\ i <= 20
    OBVIOUS
  <2>2. 4 + i \in Nat /\ 8 + i \in Nat /\ 12 + i \in Nat /\ 16 + i \in Nat
    OBVIOUS
  <2>. QED  BY <1>4, <2>1, <2>2, Zenon
<1>14. t[i] = r[i] /\ t[4 + i] = r[4 + i] /\ t[8 + i] = r[8 + i] /\ t[12 + i] = r[12 + i]
  BY <1>5
<1>15. r[i] = q[i] /\ r[4 + i] = q[4 + i] /\ r[8 + i] = q[8 + i]
  BY <1>6
<1>16. q[i] = p[i] /\ q[4 + i] = p[4 + i]
  BY <1>7
<1>. QED  BY <1>8, <1>9, <1>10, <1>11, <1>12, <1>13, <1>14, <1>15, <1>16

(* Every block begins with the magic. *)
LEMMA MagicWord == Magic \in Words /\ Rd32(Wr32(Magic)) = Magic
<1>1. Half \in Nat /\ 65536 <= Half /\ Half <= 65536
  BY DEF Half
<1>2. 18737 \in 0 .. Half - 1 /\ 20034 \in 0 .. Half - 1
  BY <1>1, SMT
<1>3. Magic \in Words
  BY <1>2, SMT DEF Magic, Words
<1>4. 18737 % Half = 18737
  BY SMT DEF Half
<1>5. Wr32(Magic) = <<66, 78, 49, 73>>
  BY <1>4, SMT DEF Wr32, Magic
<1>6. Rd32(<<66, 78, 49, 73>>) = Magic
  BY SMT DEF Rd32, Magic
<1>. QED  BY <1>3, <1>5, <1>6, SMT

Lies(b, o, q) == o + 4 <= Len(b) /\ \A i \in Nat : 0 < i /\ i <= 4 => b[o + i] = q[i]

(* Four bytes read where they lie. *)
LEMMA QuadRead ==
  ASSUME NEW b \in Seq(Bytes), NEW q \in Quads, NEW o \in Nat, Lies(b, o, q)
  PROVE  \A m, n : m = o + 1 /\ n = o + 4 => Rd32(SubSeq(b, m, n)) = Rd32(q)
<1>. SUFFICES ASSUME NEW m, NEW n, m = o + 1, n = o + 4 PROVE Rd32(SubSeq(b, m, n)) = Rd32(q)
  OBVIOUS
<1>. PICK r : r = SubSeq(b, m, n)
  OBVIOUS
<1>1. \A i \in Nat : 0 < i /\ i <= 4 => r[i] = b[o + i]
  BY DEF Lies
<1>2. r[1] = q[1] /\ r[2] = q[2] /\ r[3] = q[3] /\ r[4] = q[4]
  BY <1>1 DEF Lies
<1>. QED  BY <1>2 DEF Rd32

(* A block that is written and read is the block. *)
LEMMA BlockBytes ==
  ASSUME NEW k \in BlocksMade
  PROVE  /\ EncodeInputBlock(k) \in Seq(Bytes) /\ Len(EncodeInputBlock(k)) = 24
         /\ \A b : b \in Seq(Bytes) /\ Len(b) = 24
                   /\ (\A i \in Nat : 0 < i /\ i <= 24 => b[i] = EncodeInputBlock(k)[i])
              => Rd32(SubSeq(b, 1, 4)) = Magic /\ DecodeInputBlock(b) = k
<1>. DEFINE c == <<k.seat % 256, k.nseats % 256, k.delay % 256, 0>>
            d == <<k.pad.x % 256, k.pad.y % 256, k.pad.buttons % 256, (k.pad.buttons \div 256) % 256>>
            f == <<k.pad.lookYaw % 256, k.pad.lookPitch % 256, 0, 0>>
<1>1. /\ k.tick \in TickNumbers /\ k.seat \in Bytes /\ k.nseats \in Bytes /\ k.delay \in Bytes
      /\ k.pad \in PadsMade /\ k.simCrc \in Words
  BY DEF BlocksMade
<1>2. /\ k.pad.x \in SignedBytes /\ k.pad.y \in SignedBytes /\ k.pad.buttons \in 0 .. Half - 1
      /\ k.pad.lookYaw \in SignedBytes /\ k.pad.lookPitch \in SignedBytes
  BY <1>1 DEF PadsMade
<1>3. Magic \in Words /\ Word(k.tick) \in Words
  BY <1>1, TickWord, MagicWord
<1>4. k.seat % 256 = k.seat /\ k.nseats % 256 = k.nseats /\ k.delay % 256 = k.delay /\ 0 \in Bytes
  BY <1>1 DEF Bytes
<1>5. /\ k.pad.buttons % 256 \in Bytes /\ k.pad.buttons \div 256 \in Bytes
      /\ (k.pad.buttons % 256) + 256 * (k.pad.buttons \div 256) = k.pad.buttons
  BY <1>2, HalfBytes
<1>6. (k.pad.buttons \div 256) % 256 = k.pad.buttons \div 256
  BY <1>5 DEF Bytes
<1>7. /\ c \in Seq(Bytes) /\ Len(c) = 4
      /\ c[1] = k.seat /\ c[2] = k.nseats /\ c[3] = k.delay
  BY <1>1, <1>4
<1>8. /\ k.pad.x % 256 \in Bytes /\ Signed8(k.pad.x % 256) = k.pad.x
      /\ k.pad.y % 256 \in Bytes /\ Signed8(k.pad.y % 256) = k.pad.y
      /\ k.pad.lookYaw % 256 \in Bytes /\ Signed8(k.pad.lookYaw % 256) = k.pad.lookYaw
      /\ k.pad.lookPitch % 256 \in Bytes /\ Signed8(k.pad.lookPitch % 256) = k.pad.lookPitch
  BY <1>2, SignedByte
<1>9. /\ d \in Seq(Bytes) /\ Len(d) = 4 /\ Signed8(d[1]) = k.pad.x /\ Signed8(d[2]) = k.pad.y
      /\ d[3] + 256 * d[4] = k.pad.buttons
  BY <1>5, <1>6, <1>8
<1>10. /\ f \in Seq(Bytes) /\ Len(f) = 4
       /\ Signed8(f[1]) = k.pad.lookYaw /\ Signed8(f[2]) = k.pad.lookPitch
  BY <1>4, <1>8
<1>. PICK s : s = EncodeInputBlock(k)
  OBVIOUS
<1>11. s = Wr32(Magic) \o Wr32(Word(k.tick)) \o c \o d \o Wr32(k.simCrc) \o f
  BY DEF EncodeInputBlock
<1>. HIDE DEF c, d, f
<1>12. /\ s \in Seq(Bytes) /\ Len(s) = 24
       /\ \A i \in Nat : 0 < i /\ i <= 4 =>
            /\ s[i] = Wr32(Magic)[i] /\ s[4 + i] = Wr32(Word(k.tick))[i]
            /\ s[8 + i] = c[i] /\ s[12 + i] = d[i]
            /\ s[16 + i] = Wr32(k.simCrc)[i] /\ s[20 + i] = f[i]
  <2>. PICK m, t, z : m = Wr32(Magic) /\ t = Wr32(Word(k.tick)) /\ z = Wr32(k.simCrc)
    OBVIOUS
  <2>1. m \in Quads /\ t \in Quads /\ z \in Quads
    BY <1>1, <1>3, WordBytes DEF Quads
  <2>2. s = Six(m, t, c, d, z, f)
    BY <1>11, Zenon DEF Six
  <2>4. c \in Quads /\ d \in Quads /\ f \in Quads
    BY <1>7, <1>9, <1>10 DEF Quads
  <2>3. /\ s \in Seq(Bytes) /\ Len(s) = 24
        /\ \A i \in Nat : 0 < i /\ i <= 4 =>
             /\ s[i] = m[i] /\ s[4 + i] = t[i] /\ s[8 + i] = c[i]
             /\ s[12 + i] = d[i] /\ s[16 + i] = z[i] /\ s[20 + i] = f[i]
    <3>1. Spread(Six(m, t, c, d, z, f), m, t, c, d, z, f)
      BY <2>1, <2>4, SixQuads
    <3>2. Spread(s, m, t, c, d, z, f)
      BY <2>2, <3>1
    <3>. QED  BY <3>2, Zenon DEF Spread
  <2>. QED  BY <2>3, Zenon
<1>. SUFFICES ASSUME NEW b \in Seq(Bytes), Len(b) = 24,
                     \A i \in Nat : 0 < i /\ i <= 24 => b[i] = s[i]
              PROVE  Rd32(SubSeq(b, 1, 4)) = Magic /\ DecodeInputBlock(b) = k
  BY <1>12
<1>13. \A i \in Nat : 0 < i /\ i <= 4 =>
         b[i] = s[i] /\ b[4 + i] = s[4 + i] /\ b[16 + i] = s[16 + i]
  <2>. SUFFICES ASSUME NEW i \in Nat, 0 < i, i <= 4
                PROVE  b[i] = s[i] /\ b[4 + i] = s[4 + i] /\ b[16 + i] = s[16 + i]
    OBVIOUS
  <2>1. /\ i <= 24 /\ 4 + i \in Nat /\ 0 < 4 + i /\ 4 + i <= 24
        /\ 16 + i \in Nat /\ 0 < 16 + i /\ 16 + i <= 24
    OBVIOUS
  <2>. QED  BY <2>1, Zenon
<1>14. Rd32(SubSeq(b, 1, 4)) = Rd32(Wr32(Magic))
  <2>1. \A i \in Nat : 0 < i /\ i <= 4 => b[0 + i] = Wr32(Magic)[i]
    BY <1>12, <1>13
  <2>2. Lies(b, 0, Wr32(Magic))
    BY 0 + 4 <= 24, <2>1, Zenon DEF Lies
  <2>3. Wr32(Magic) \in Quads
    BY <1>3, WordBytes DEF Quads
  <2>. QED  BY <2>2, <2>3, QuadRead
<1>15. Rd32(SubSeq(b, 5, 8)) = Rd32(Wr32(Word(k.tick)))
  <2>1. \A i \in Nat : 0 < i /\ i <= 4 => b[4 + i] = Wr32(Word(k.tick))[i]
    BY <1>12, <1>13
  <2>2. Lies(b, 4, Wr32(Word(k.tick)))
    BY 4 + 4 <= 24, <2>1, Zenon DEF Lies
  <2>3. Wr32(Word(k.tick)) \in Quads
    BY <1>3, WordBytes DEF Quads
  <2>. QED  BY <2>2, <2>3, QuadRead
<1>16. Rd32(SubSeq(b, 17, 20)) = Rd32(Wr32(k.simCrc))
  <2>1. \A i \in Nat : 0 < i /\ i <= 4 => b[16 + i] = Wr32(k.simCrc)[i]
    BY <1>12, <1>13
  <2>2. Lies(b, 16, Wr32(k.simCrc))
    BY 16 + 4 <= 24, <2>1, Zenon DEF Lies
  <2>3. Wr32(k.simCrc) \in Quads
    BY <1>1, WordBytes DEF Quads
  <2>. QED  BY <2>2, <2>3, QuadRead
<1>17. Value(Unsigned(Rd32(SubSeq(b, 5, 8)))) = k.tick /\ Unsigned(Rd32(SubSeq(b, 17, 20))) = k.simCrc
  BY <1>1, <1>3, <1>15, <1>16, WordBytes, TickWord
<1>18. /\ b[9] = s[8 + 1] /\ b[10] = s[8 + 2] /\ b[11] = s[8 + 3]
       /\ b[13] = s[12 + 1] /\ b[14] = s[12 + 2] /\ b[15] = s[12 + 3] /\ b[16] = s[12 + 4]
       /\ b[21] = s[20 + 1] /\ b[22] = s[20 + 2]
  OBVIOUS
<1>19. /\ b[9] = c[1] /\ b[10] = c[2] /\ b[11] = c[3]
       /\ b[13] = d[1] /\ b[14] = d[2] /\ b[15] = d[3] /\ b[16] = d[4]
       /\ b[21] = f[1] /\ b[22] = f[2]
  <2>0. /\ 1 \in Nat /\ 0 < 1 /\ 1 <= 4 /\ 2 \in Nat /\ 0 < 2 /\ 2 <= 4
        /\ 3 \in Nat /\ 0 < 3 /\ 3 <= 4 /\ 4 \in Nat /\ 0 < 4 /\ 4 <= 4
    OBVIOUS
  <2>1. s[8 + 1] = c[1] /\ s[8 + 2] = c[2] /\ s[8 + 3] = c[3]
    BY <1>12, <2>0, Zenon
  <2>2. s[12 + 1] = d[1] /\ s[12 + 2] = d[2] /\ s[12 + 3] = d[3] /\ s[12 + 4] = d[4]
    BY <1>12, <2>0, Zenon
  <2>3. s[20 + 1] = f[1] /\ s[20 + 2] = f[2]
    BY <1>12, <2>0, Zenon
  <2>. QED  BY <1>18, <2>1, <2>2, <2>3
<1>20. DecodeInputBlock(b) =
         [tick |-> k.tick, seat |-> k.seat, nseats |-> k.nseats, delay |-> k.delay,
          pad |-> [x |-> k.pad.x, y |-> k.pad.y, buttons |-> k.pad.buttons,
                   lookYaw |-> k.pad.lookYaw, lookPitch |-> k.pad.lookPitch],
          simCrc |-> k.simCrc]
  BY <1>7, <1>9, <1>10, <1>17, <1>19 DEF DecodeInputBlock
<1>21. k.pad = [x |-> k.pad.x, y |-> k.pad.y, buttons |-> k.pad.buttons,
                lookYaw |-> k.pad.lookYaw, lookPitch |-> k.pad.lookPitch]
  BY <1>1 DEF PadsMade
<1>22. DecodeInputBlock(b) = k
  BY <1>20, <1>21 DEF BlocksMade
<1>. QED  BY <1>14, <1>22, MagicWord

(* Where byte q of block i lies. *)
LEMMA InBlock ==
  ASSUME NEW n \in Nat, NEW i \in 1 .. n, NEW q \in Nat, 0 < q, q <= 24
  PROVE  /\ 24 * (i - 1) + q \in 1 .. 24 * n
         /\ ((24 * (i - 1) + q - 1) \div 24) + 1 = i /\ ((24 * (i - 1) + q - 1) % 24) + 1 = q
  BY SMT

(* What a block holds are bytes. *)
LEMMA ByteAt ==
  \A e \in Seq(Bytes), q \in Nat : Len(e) = 24 /\ 0 < q /\ q <= 24 => e[q] \in Bytes
<1>. SUFFICES ASSUME NEW e \in Seq(Bytes), NEW q \in Nat, Len(e) = 24, 0 < q, q <= 24
              PROVE  e[q] \in Bytes
  OBVIOUS
<1>1. q \in 1 .. Len(e)
  OBVIOUS
<1>. QED  BY <1>1, ElementOfSeq

(* A datagram that is written and read has the blocks. *)
LEMMA DatagramBytes ==
  ASSUME NEW n \in Nat, 0 < n, n <= Redundancy, NEW h \in [1 .. n -> BlocksMade],
         NEW d, d = EncodeInputDatagram(h)
  PROVE  /\ d.count = n /\ d.bytes \in Seq(Bytes)
         /\ DecodeInputDatagram(d) = h
<1>. DEFINE E(i) == EncodeInputBlock(h[i])
            B == [j \in 1 .. 24 * n |-> E(((j - 1) \div 24) + 1)[((j - 1) % 24) + 1]]
            Piece(i) == SubSeq(B, 24 * (i - 1) + 1, 24 * i)
<1>1. Redundancy \in Nat
  BY WireAssumption DEF Bytes
<1>2. Len(h) = n /\ Least(Redundancy, Len(h)) = n
  BY <1>1 DEF Least
<1>3. d = [count |-> n, bytes |-> B]
  BY <1>2 DEF EncodeInputDatagram
<1>4. \A i \in 1 .. n :
        /\ E(i) \in Seq(Bytes) /\ Len(E(i)) = 24
        /\ \A b : b \in Seq(Bytes) /\ Len(b) = 24 /\ (\A q \in Nat : 0 < q /\ q <= 24 => b[q] = E(i)[q])
             => Rd32(SubSeq(b, 1, 4)) = Magic /\ DecodeInputBlock(b) = h[i]
  BY BlockBytes
<1>. HIDE DEF E
<1>5. B \in Seq(Bytes) /\ Len(B) = 24 * n
  <2>1. \A j \in 1 .. 24 * n : /\ ((j - 1) \div 24) + 1 \in 1 .. n
                               /\ ((j - 1) % 24) + 1 \in Nat /\ 0 < ((j - 1) % 24) + 1
                               /\ ((j - 1) % 24) + 1 <= 24
    BY SMT
  <2>2. \A j \in 1 .. 24 * n : B[j] \in Bytes
    <3>. SUFFICES ASSUME NEW j \in 1 .. 24 * n PROVE B[j] \in Bytes
      OBVIOUS
    <3>. PICK i, q : i = ((j - 1) \div 24) + 1 /\ q = ((j - 1) % 24) + 1
      OBVIOUS
    <3>1. i \in 1 .. n /\ q \in Nat /\ 0 < q /\ q <= 24
      BY <2>1
    <3>2. E(i)[q] \in Bytes
      BY <1>4, <3>1, ByteAt, Zenon
    <3>. QED  BY <3>2
  <2>3. 24 * n \in Nat /\ B \in [1 .. 24 * n -> Bytes]
    BY <2>2
  <2>. QED  BY <2>3
<1>6. \A i \in 1 .. n :
        /\ Piece(i) \in Seq(Bytes) /\ Len(Piece(i)) = 24
        /\ \A q \in Nat : 0 < q /\ q <= 24 => Piece(i)[q] = E(i)[q]
  <2>. SUFFICES ASSUME NEW i \in 1 .. n
                PROVE  /\ Piece(i) \in Seq(Bytes) /\ Len(Piece(i)) = 24
                       /\ \A q \in Nat : 0 < q /\ q <= 24 => Piece(i)[q] = E(i)[q]
    OBVIOUS
  <2>1. \A q \in Nat : 0 < q /\ q <= 24 => B[24 * (i - 1) + q] = E(i)[q]
    <3>. SUFFICES ASSUME NEW q \in Nat, 0 < q, q <= 24 PROVE B[24 * (i - 1) + q] = E(i)[q]
      OBVIOUS
    <3>. PICK j : j = 24 * (i - 1) + q
      OBVIOUS
    <3>1. j \in 1 .. 24 * n /\ ((j - 1) \div 24) + 1 = i /\ ((j - 1) % 24) + 1 = q
      BY InBlock
    <3>2. B[j] = E(((j - 1) \div 24) + 1)[((j - 1) % 24) + 1]
      BY <3>1
    <3>. QED  BY <3>1, <3>2
  <2>. HIDE DEF B
  <2>2. PICK l, m \in Nat : l = 24 * (i - 1) + 1 /\ m = 24 * i
    OBVIOUS
  <2>3. 1 <= l /\ m <= Len(B) /\ m - l + 1 = 24
    BY <1>5, <2>2
  <2>4. SubSeq(B, l, m) \in Seq(Bytes) /\ Len(SubSeq(B, l, m)) = 24
    BY <1>5, <2>3
  <2>5. \A q \in Nat : 0 < q /\ q <= 24 => SubSeq(B, l, m)[q] = B[l + q - 1]
    BY <1>5, <2>3
  <2>. QED  BY <2>1, <2>2, <2>4, <2>5
<1>. HIDE DEF B, Piece
<1>7. \A i \in 1 .. n : Rd32(SubSeq(Piece(i), 1, 4)) = Magic /\ DecodeInputBlock(Piece(i)) = h[i]
  BY <1>4, <1>6
<1>8. DecodeInputDatagram(d) =
        [i \in {k \in 1 .. n : Rd32(SubSeq(Piece(k), 1, 4)) = Magic} |-> DecodeInputBlock(Piece(i))]
  BY <1>1, <1>3 DEF DecodeInputDatagram, Piece
<1>9. {k \in 1 .. n : Rd32(SubSeq(Piece(k), 1, 4)) = Magic} = 1 .. n
  BY <1>7
<1>10. DecodeInputDatagram(d) = h
  BY <1>7, <1>8, <1>9
<1>. QED  BY <1>3, <1>5, <1>10

(* Two digits a byte, and back. *)
LEMMA HexBack ==
  ASSUME NEW s \in Seq(Bytes) PROVE BytesFromHex(HexBytes(s)) = s
<1>. DEFINE n == Len(s)
            H == [i \in 1 .. 2 * n |-> IF i % 2 = 1 THEN s[(i + 1) \div 2] \div 16 ELSE s[i \div 2] % 16]
<1>1. n \in Nat /\ s \in [1 .. n -> Bytes]
  OBVIOUS
<1>2. HexBytes(s) = H /\ Len(H) = 2 * n
  BY <1>1 DEF HexBytes
<1>3. (2 * n) \div 2 = n
  <2>. HIDE DEF n
  <2>. QED  BY <1>1, SMT
<1>. HIDE DEF n
<1>4. \A i \in 1 .. n : 16 * H[2 * i - 1] + H[2 * i] = s[i]
  <2>. SUFFICES ASSUME NEW i \in 1 .. n PROVE 16 * H[2 * i - 1] + H[2 * i] = s[i]
    OBVIOUS
  <2>1. /\ 2 * i - 1 \in 1 .. 2 * n /\ (2 * i - 1) % 2 = 1 /\ (2 * i - 1 + 1) \div 2 = i
        /\ 2 * i \in 1 .. 2 * n /\ (2 * i) % 2 = 0 /\ (2 * i) \div 2 = i
    BY <1>1
  <2>2. H[2 * i - 1] = s[i] \div 16 /\ H[2 * i] = s[i] % 16
    BY <2>1
  <2>3. \A v \in Bytes : 16 * (v \div 16) + (v % 16) = v
    BY SMT DEF Bytes
  <2>. QED  BY <1>1, <2>2, <2>3
<1>5. BytesFromHex(HexBytes(s)) = [i \in 1 .. n |-> 16 * H[2 * i - 1] + H[2 * i]]
  BY <1>2, <1>3 DEF BytesFromHex
<1>. QED  BY <1>1, <1>4, <1>5

Different(blocks) ==
  /\ DOMAIN blocks \subseteq Nat
  /\ \A i, k \in DOMAIN blocks : blocks[i].tick = blocks[k].tick => i = k
Taken(new, all, blocks) ==
  /\ DOMAIN new = DOMAIN all \cup {blocks[i].tick : i \in DOMAIN blocks}
  /\ \A t \in DOMAIN all : new[t] = all[t]
  /\ \A i \in DOMAIN blocks : blocks[i].tick \notin DOMAIN all => new[blocks[i].tick] = blocks[i]

(* Blocks of different ticks are submitted each for its own. *)
LEMMA SubmittedEach ==
  ASSUME NEW all, NEW blocks, Different(blocks)
  PROVE  Taken(Submitted(all, blocks), all, blocks)
<1>. DEFINE Of(t) == {i \in DOMAIN blocks : blocks[i].tick = t}
            First(t) == CHOOSE i \in Of(t) : \A k \in Of(t) : i <= k
<1>1. Submitted(all, blocks) =
        [t \in DOMAIN all \cup {blocks[i].tick : i \in DOMAIN blocks} |->
           IF t \in DOMAIN all THEN all[t] ELSE blocks[First(t)]]
  BY DEF Submitted
<1>2. \A i \in DOMAIN blocks : First(blocks[i].tick) = i
  <2>. SUFFICES ASSUME NEW i \in DOMAIN blocks PROVE First(blocks[i].tick) = i
    OBVIOUS
  <2>1. Of(blocks[i].tick) = {i}
    BY DEF Different
  <2>2. \A k \in Of(blocks[i].tick) : i <= k
    BY <2>1 DEF Different
  <2>. HIDE DEF Of
  <2>3. First(blocks[i].tick) \in Of(blocks[i].tick)
    BY <2>1, <2>2
  <2>. HIDE DEF First
  <2>. QED  BY <2>1, <2>3
<1>. HIDE DEF First
<1>. QED  BY <1>1, <1>2 DEF Taken

(* What is sampled fits into a block. *)
LEMMA PadFits ==
  ASSUME mouse \in Int \X Int, NEW held PROVE Sampled(held) \in PadsMade
<1>1. \A q \in Int : Quantize(q) \in SignedBytes
  BY SMT DEF Quantize, Clamp, SignedBytes
<1>2. mouse[1] \in Int /\ -mouse[2] \in Int
  OBVIOUS
<1>3. StickPad(held).x \in SignedBytes /\ StickPad(held).y \in SignedBytes
  <2>1. \A a, b \in {0, 70} : a - b \in SignedBytes
    BY SMT DEF SignedBytes
  <2>. QED  BY <2>1 DEF StickPad
<1>4. ButtonBits(held) \in 0 .. Half - 1
  <2>1. /\ BitOf(held, "fire") \in {0, 8192} /\ BitOf(held, "use") \in {0, 32768}
        /\ BitOf(held, "lookUp") \in {0, 8} /\ BitOf(held, "lookDown") \in {0, 4}
        /\ BitOf(held, "pointer") \in {0, 32} /\ BitOf(held, "run") \in {0, 16}
    BY DEF BitOf, Bit
  <2>2. ButtonBits(held) \in Nat /\ ButtonBits(held) < 65536
    BY <2>1, SMT DEF ButtonBits
  <2>3. Half \in Nat /\ 65536 <= Half
    BY DEF Half
  <2>. QED  BY <2>2, <2>3
<1>. QED  BY <1>1, <1>2, <1>3, <1>4 DEF Sampled, PadsMade

(* So does the block. *)
LEMMA BlockFits ==
  ASSUME NEW t \in TickNumbers, NEW pad \in PadsMade, NEW c \in Words
  PROVE  Block(t, pad, c) \in BlocksMade /\ Block(t, pad, c).tick = t
<1>1. Delay \in Bytes /\ 0 \in Bytes /\ 2 \in Bytes
  BY WireAssumption DEF Bytes
<1>. QED  BY <1>1 DEF Block, BlocksMade

(* The first ticks have no input. *)
LEMMA WireBegins == WireInit => WireInv
<1>. SUFFICES ASSUME WireInit PROVE WireInv
  OBVIOUS
<1>1. Delay \in Nat /\ Delay < 256
  BY WireAssumption DEF Bytes
<1>2. Half \in Nat /\ 65536 <= Half /\ Half <= 65536
  BY DEF Half
<1>3. Idle \in PadsMade
  BY <1>2, SMT DEF Idle, PadsMade, SignedBytes
<1>4. Word(0) \in Words
  BY <1>2, TickWord DEF TickNumbers
<1>5. DOMAIN ring = 0 .. Delay - 1
  BY DEF WireInit
<1>6. Ticks = Delay
  BY <1>1, <1>5, FS_Interval DEF Ticks
<1>7. \A t \in 0 .. Delay : t \in TickNumbers
  BY <1>1, <1>2 DEF TickNumbers
<1>8. \A t \in 0 .. Delay - 1 : ring[t] = Block(t, Idle, Word(0))
  BY DEF WireInit
<1>9. \A t \in 0 .. Delay - 1 : ring[t] \in BlocksMade /\ ring[t].tick = t
  BY <1>1, <1>3, <1>4, <1>7, <1>8, BlockFits
<1>10. history = [i \in 1 .. Delay |-> ring[Delay - i]]
  <2>1. \A i \in 1 .. Delay : ring[Delay - i] = Block(Delay - i, Idle, Word(0))
    BY <1>1, <1>8
  <2>. QED  BY <2>1 DEF WireInit
<1>11. theirs = <<>> /\ DOMAIN theirs = {}
  BY DEF WireInit
<1>12. /\ mouse \in Int \X Int /\ crc \in Words /\ air.count = 0
       /\ air \in [count : Bytes, bytes : Seq(Bytes)]
  BY <1>4 DEF WireInit, Bytes
<1>13. \E n \in 0 .. Ticks : /\ history = [i \in 1 .. n |-> ring[Ticks - i]]
                             /\ air.count = 0 \/ (n \in 1 .. Redundancy /\ air = EncodeInputDatagram(history))
  <2>1. Delay \in 0 .. Ticks
    BY <1>1, <1>6
  <2>. QED  BY <1>6, <1>10, <1>12, <2>1
<1>14. Ticks \in TickNumbers /\ DOMAIN ring = 0 .. Ticks - 1
  BY <1>1, <1>5, <1>6, <1>7
<1>. QED  BY <1>5, <1>9, <1>11, <1>12, <1>13, <1>14 DEF WireInv

(* A slice commits a block and sends it with those before it. *)
LEMMA SliceKeeps == ASSUME WireInv, CommitSlice PROVE WireInv'
<1>0. Ticks \in Nat
  BY DEF WireInv, TickNumbers
<1>. PICK n \in 0 .. Ticks : history = [i \in 1 .. n |-> ring[Ticks - i]]
  BY DEF WireInv
<1>. PICK N \in Nat : N = Ticks /\ n \in 0 .. N
  BY <1>0
<1>1. PICK held \in Inputs, c \in Crcs :
        LET block == Block(Ticks, Sampled(held), crc)
            sent == <<block>> \o history
        IN  /\ ring' = Submitted(ring, <<block>>)
            /\ history' = SubSeq(sent, 1, Least(Redundancy, Len(sent)))
            /\ air' = EncodeInputDatagram(history')
            /\ crc' = c
  BY DEF CommitSlice
<1>. PICK block : block = Block(N, Sampled(held), crc)
  OBVIOUS
<1>2. /\ ring' = Submitted(ring, <<block>>) /\ crc' = c
      /\ history' = SubSeq(<<block>> \o history, 1, Least(Redundancy, Len(<<block>> \o history)))
      /\ air' = EncodeInputDatagram(history')
  BY <1>1
<1>3. N \in TickNumbers /\ N + 1 \in TickNumbers
  <2>1. N < MaxSlices /\ MaxSlices < 32767 * Half /\ MaxSlices \in Nat /\ Half \in Nat
    BY WireAssumption DEF CommitSlice, Half
  <2>2. 32767 * Half \in Nat
    BY <2>1
  <2>. QED  BY <2>1, <2>2 DEF TickNumbers
<1>4. block \in BlocksMade /\ block.tick = N
  BY <1>3, PadFits, BlockFits DEF WireInv
<1>5. DOMAIN ring = 0 .. N - 1 /\ \A t \in 0 .. N - 1 : ring[t] \in BlocksMade /\ ring[t].tick = t
  BY DEF WireInv
<1>6. /\ DOMAIN ring' = 0 .. N
      /\ ring'[N] = block /\ \A t \in 0 .. N - 1 : ring'[t] = ring[t]
  <2>. PICK one : one = <<block>>
    OBVIOUS
  <2>1. DOMAIN one = {1} /\ one[1] = block
    OBVIOUS
  <2>2. Taken(ring', ring, one)
    <3>1. Different(one)
      BY <2>1 DEF Different
    <3>. QED  BY <1>2, <3>1, SubmittedEach
  <2>3. {one[i].tick : i \in DOMAIN one} = {N} /\ N \notin 0 .. N - 1 /\ 0 .. N - 1 \cup {N} = 0 .. N
    BY <1>4, <2>1
  <2>4. DOMAIN ring' = 0 .. N /\ \A t \in 0 .. N - 1 : ring'[t] = ring[t]
    BY <1>5, <2>2, <2>3 DEF Taken
  <2>5. ring'[N] = block
    BY <1>4, <1>5, <2>1, <2>2, <2>3 DEF Taken
  <2>. QED  BY <2>4, <2>5
<1>7. Ticks' = N + 1
  BY <1>6, FS_Interval DEF Ticks
<1>8. \A t \in 0 .. N : ring'[t] \in BlocksMade /\ ring'[t].tick = t
  BY <1>4, <1>5, <1>6
<1>. PICK sent : sent = <<block>> \o history
  OBVIOUS
<1>9. sent \in Seq(BlocksMade) /\ Len(sent) = n + 1 /\ \A i \in 1 .. n + 1 : sent[i] = ring'[N + 1 - i]
  <2>1. \A i \in 1 .. n : N - i \in 0 .. N - 1
    OBVIOUS
  <2>2. history \in [1 .. n -> BlocksMade]
    BY <1>5, <2>1
  <2>3. history \in Seq(BlocksMade) /\ Len(history) = n
    BY <2>2
  <2>. PICK one : one = <<block>>
    OBVIOUS
  <2>4. one \in Seq(BlocksMade) /\ Len(one) = 1 /\ one[1] = block
    BY <1>4
  <2>5. /\ one \o history \in Seq(BlocksMade)
        /\ Len(one \o history) = Len(one) + Len(history)
        /\ \A i \in 1 .. Len(one) + Len(history) :
             (one \o history)[i] = IF i <= Len(one) THEN one[i] ELSE history[i - Len(one)]
    BY <2>3, <2>4, ConcatProperties
  <2>6. sent \in Seq(BlocksMade) /\ Len(sent) = 1 + n
        /\ \A i \in 1 .. 1 + n : sent[i] = IF i <= 1 THEN one[i] ELSE history[i - 1]
    BY <2>3, <2>4, <2>5, Zenon
  <2>7. \A i \in 1 .. n + 1 : sent[i] = ring'[N + 1 - i]
    <3>. SUFFICES ASSUME NEW i \in 1 .. n + 1 PROVE sent[i] = ring'[N + 1 - i]
      OBVIOUS
    <3>1. CASE i = 1
      BY <1>6, <2>4, <2>6, <3>1
    <3>2. CASE i > 1
      <4>1. i - 1 \in 1 .. n /\ N - (i - 1) = N + 1 - i /\ N + 1 - i \in 0 .. N - 1
        BY <3>2
      <4>2. sent[i] = history[i - 1] /\ history[i - 1] = ring[N - (i - 1)]
        BY <2>6, <3>2, <4>1
      <4>. QED  BY <1>6, <4>1, <4>2
    <3>3. i = 1 \/ i > 1
      OBVIOUS
    <3>. QED  BY <3>1, <3>2, <3>3, Zenon
  <2>8. 1 + n = n + 1
    OBVIOUS
  <2>. QED  BY <2>6, <2>7, <2>8, Zenon
<1>. PICK m : m = Least(Redundancy, n + 1)
  OBVIOUS
<1>10. m \in 1 .. Redundancy /\ m \in 1 .. n + 1 /\ Redundancy \in Nat
  BY WireAssumption DEF Least, Bytes
<1>11. history' = [i \in 1 .. m |-> ring'[N + 1 - i]]
  <2>1. history' = SubSeq(sent, 1, m)
    BY <1>2, <1>9
  <2>2. SubSeq(sent, 1, m) = [i \in 1 .. m |-> sent[i]]
    <3>1. m \in Int /\ Len(sent) = n + 1 /\ m <= n + 1
      BY <1>9, <1>10
    <3>. QED  BY <1>9, <3>1
  <2>3. \A i \in 1 .. m : sent[i] = ring'[N + 1 - i]
    <3>1. \A i \in 1 .. m : i \in 1 .. n + 1
      BY <1>10
    <3>. QED  BY <1>9, <3>1, Zenon
  <2>. QED  BY <2>1, <2>2, <2>3, Zenon
<1>12. DOMAIN theirs' \subseteq DOMAIN ring' /\ \A t \in DOMAIN theirs' : theirs'[t] = ring'[t]
  <2>1. theirs' = theirs
    BY DEF CommitSlice
  <2>. QED  BY <1>5, <1>6, <2>1 DEF WireInv
<1>13. mouse' \in Int \X Int /\ crc' \in Words
  BY <1>2, WireAssumption DEF CommitSlice
<1>14. air' \in [count : Bytes, bytes : Seq(Bytes)]
  <2>1. \A i \in 1 .. m : N + 1 - i \in 0 .. N
    BY <1>10
  <2>2. history' \in [1 .. m -> BlocksMade]
    BY <1>8, <1>11, <2>1
  <2>3. air'.count = m /\ air'.bytes \in Seq(Bytes)
    <3>1. m \in Nat /\ 0 < m /\ m <= Redundancy
      BY <1>10
    <3>2. air' = EncodeInputDatagram(history')
      BY <1>2
    <3>. QED  BY <2>2, <3>1, <3>2, DatagramBytes, Zenon
  <2>4. m \in Bytes
    BY <1>10, WireAssumption DEF Bytes
  <2>5. air' = [count |-> air'.count, bytes |-> air'.bytes]
    BY <1>2 DEF EncodeInputDatagram
  <2>. QED  BY <2>3, <2>4, <2>5
<1>15. /\ m \in 0 .. Ticks' /\ m \in 1 .. Redundancy /\ air' = EncodeInputDatagram(history')
       /\ history' = [i \in 1 .. m |-> ring'[Ticks' - i]]
  <2>1. m \in 0 .. Ticks' /\ m \in 1 .. Redundancy
    BY <1>7, <1>10
  <2>2. history' = [i \in 1 .. m |-> ring'[Ticks' - i]]
    <3>1. \A i \in 1 .. m : ring'[N + 1 - i] = ring'[Ticks' - i]
      BY <1>7
    <3>. QED  BY <1>11, <3>1
  <2>. QED  BY <1>2, <2>1, <2>2
<1>16. Ticks' \in TickNumbers /\ DOMAIN ring' = 0 .. Ticks' - 1
  BY <1>3, <1>6, <1>7
<1>. QED  BY <1>6, <1>8, <1>12, <1>13, <1>14, <1>15, <1>16 DEF WireInv

(* A datagram brings what is in the history, whichever way it has come. *)
LEMMA DatagramBrings ==
  ASSUME WireInv, NEW d,
         d = air \/ d = [air EXCEPT !.bytes = BytesFromHex(HexBytes(@))]
  PROVE  DecodeInputDatagram(d) = IF air.count = 0 THEN <<>> ELSE history
<1>1. CASE air.count = 0
  <2>1. d.count = 0
    BY <1>1 DEF WireInv
  <2>. QED  BY <1>1, <2>1 DEF DecodeInputDatagram
<1>2. CASE air.count # 0
  <2>1. PICK n \in Nat : /\ n \in 1 .. Ticks /\ n \in 1 .. Redundancy
                         /\ history = [i \in 1 .. n |-> ring[Ticks - i]]
                         /\ air = EncodeInputDatagram(history)
    BY <1>2, WireAssumption DEF WireInv, TickNumbers, Bytes
  <2>2. history \in [1 .. n -> BlocksMade]
    <3>1. Ticks \in Nat /\ \A i \in 1 .. n : Ticks - i \in 0 .. Ticks - 1
      BY <2>1 DEF WireInv, TickNumbers
    <3>2. \A i \in 1 .. n : ring[Ticks - i] \in BlocksMade
      BY <3>1 DEF WireInv
    <3>. QED  BY <2>1, <3>2
  <2>3. air.bytes \in Seq(Bytes) /\ DecodeInputDatagram(air) = history
    BY <2>1, <2>2, DatagramBytes
  <2>4. d = air
    BY <2>1, <2>3, HexBack DEF EncodeInputDatagram
  <2>. QED  BY <1>2, <2>3, <2>4
<1>. QED  BY <1>1, <1>2

(* What the other peer submits is what was committed for the tick. *)
LEMMA ReceiveKeeps == ASSUME WireInv, ReceiveDatagram PROVE WireInv'
<1>1. PICK d : /\ d = air \/ d = [air EXCEPT !.bytes = BytesFromHex(HexBytes(@))]
               /\ theirs' = Submitted(theirs, DecodeInputDatagram(d))
  BY DEF ReceiveDatagram
<1>. PICK got : got = IF air.count = 0 THEN <<>> ELSE history
  OBVIOUS
<1>2. theirs' = Submitted(theirs, got)
  BY <1>1, DatagramBrings
<1>3. /\ DOMAIN got \subseteq Nat
      /\ \A i \in DOMAIN got : Ticks - i \in DOMAIN ring /\ got[i] = ring[Ticks - i] /\ got[i].tick = Ticks - i
  <2>1. CASE air.count = 0
    BY <2>1
  <2>2. CASE air.count # 0
    <3>1. PICK n \in 0 .. Ticks : history = [i \in 1 .. n |-> ring[Ticks - i]]
      BY DEF WireInv
    <3>2. Ticks \in Nat /\ \A i \in 1 .. n : Ticks - i \in 0 .. Ticks - 1
      BY <3>1 DEF WireInv, TickNumbers
    <3>3. \A i \in 1 .. n : Ticks - i \in DOMAIN ring /\ ring[Ticks - i].tick = Ticks - i
      BY <3>2 DEF WireInv
    <3>4. got = history /\ DOMAIN got = 1 .. n /\ \A i \in 1 .. n : got[i] = ring[Ticks - i]
      BY <2>2, <3>1
    <3>5. 1 .. n \subseteq Nat
      OBVIOUS
    <3>. QED  BY <3>3, <3>4, <3>5, Zenon
  <2>. QED  BY <2>1, <2>2
<1>4. Different(got)
  <2>1. Ticks \in Nat
    BY DEF WireInv, TickNumbers
  <2>. QED  BY <1>3, <2>1 DEF Different
<1>5. Taken(theirs', theirs, got)
  BY <1>2, <1>4, SubmittedEach
<1>6. \A t \in DOMAIN theirs' : t \in DOMAIN ring /\ theirs'[t] = ring[t]
  <2>. SUFFICES ASSUME NEW t \in DOMAIN theirs' PROVE t \in DOMAIN ring /\ theirs'[t] = ring[t]
    OBVIOUS
  <2>1. CASE t \in DOMAIN theirs
    BY <1>5, <2>1 DEF WireInv, Taken
  <2>2. CASE t \notin DOMAIN theirs
    <3>1. PICK i \in DOMAIN got : t = got[i].tick
      BY <1>5, <2>2 DEF Taken
    <3>2. theirs'[t] = got[i]
      BY <1>5, <2>2, <3>1 DEF Taken
    <3>. QED  BY <1>3, <3>1, <3>2
  <2>. QED  BY <2>1, <2>2
<1>7. UNCHANGED <<mouse, crc, history, ring, air>> /\ Ticks' = Ticks
  BY DEF ReceiveDatagram, Ticks
<1>. QED  BY <1>6, <1>7 DEF WireInv

(* A pad is committed once, sent until it has come, and comes as it was. *)
THEOREM WireInvHolds == WireSpec => []WireInv
<1>1. WireInv /\ [WireNext]_wireVars => WireInv'
  <2>. SUFFICES ASSUME WireInv, [WireNext]_wireVars PROVE WireInv'
    OBVIOUS
  <2>1. CASE MoveMouse
    <3>1. mouse' \in Int \X Int
      BY <2>1, WireAssumption DEF MoveMouse, WireInv
    <3>2. UNCHANGED <<crc, history, ring, air, theirs>> /\ Ticks' = Ticks
      BY <2>1 DEF MoveMouse, Ticks
    <3>. QED  BY <3>1, <3>2 DEF WireInv
  <2>2. CASE UNCHANGED wireVars
    BY <2>2 DEF wireVars, WireInv, Ticks
  <2>. QED  BY <2>1, <2>2, SliceKeeps, ReceiveKeeps DEF WireNext
<1>. QED  BY <1>1, WireBegins, PTL DEF WireSpec

(* The engines of all peers are given the same pads with the same checksums, *)
(* and a datagram brings all its blocks.                                     *)
THEOREM PadsArriveWhole == WireSpec => [](SamePads /\ WholeDatagram)
<1>1. WireInv => SamePads
  BY DEF WireInv, SamePads
<1>2. WireInv => WholeDatagram
  <2>. SUFFICES ASSUME WireInv, air.count > 0 PROVE DecodeInputDatagram(air) = history
    BY DEF WholeDatagram
  <2>. QED  BY DatagramBrings
<1>. QED  BY <1>1, <1>2, WireInvHolds, PTL

(* A peer begins the match that was published, is sent what the sender      *)
(* plays, whatever is lost on the way, and both its rings run it.           *)
THEOREM SamePlayHolds == ConfigSpec /\ WireSpec /\ RingsSpec => []SamePlay
<1>1. SameMatch /\ SamePads /\ WholeDatagram /\ SameAnswers => SamePlay
  BY DEF SamePlay
<1>. QED  BY <1>1, SameMatchHolds, PadsArriveWhole, RingInvHolds, PTL
===============================================================================
