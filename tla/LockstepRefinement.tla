-------------------------- MODULE LockstepRefinement --------------------------
(* Lockstep implements LockstepLog, for every value of the constants: what  *)
(* the peers exchange over the lossy channel is one shared input log that   *)
(* each of them replays.                                                    *)
EXTENDS LockstepProofs

LogBar == [s \in Seats |-> LogOf(s)]

(* The abstract log of a seat is as long as its committed ticks. *)
LEMMA LogLength ==
  IInv => \A s \in Seats :
            /\ Cardinality(committed[s]) \in Nat
            /\ s \in started => Cardinality(committed[s]) = Top(s)
            /\ s \notin started => Cardinality(committed[s]) = 0
<1>. SUFFICES ASSUME IInv, NEW s \in Seats
              PROVE  /\ s \in started => Cardinality(committed[s]) = Top(s) /\ Top(s) \in Nat
                     /\ s \notin started => Cardinality(committed[s]) = 0
  OBVIOUS
<1>1. Top(s) \in Nat /\ Top(s) - 1 \in Int /\ 0 \in Int
  BY TopTypes
<1>2. s \in started => committed[s] = 0 .. Top(s) - 1
  BY DEF IInv, CommittedInv
<1>3. s \notin started => committed[s] = {}
  BY DEF IInv, CommittedInv
<1>4. Cardinality(0 .. Top(s) - 1) = Top(s)
  <2>. DEFINE b == Top(s) - 1
  <2>1. Cardinality(0 .. b) = IF 0 > b THEN 0 ELSE b - 0 + 1
    BY <1>1, FS_Interval
  <2>. QED  BY <2>1, <1>1
<1>. QED  BY <1>1, <1>2, <1>3, <1>4, FS_EmptySet

(* Every tick a peer has run is in every seat's log. *)
LEMMA RanIsLogged ==
  IInv => \A p, q \in Seats : next[q] > 0 => next[q] - 1 \in committed[p]
<1>. SUFFICES ASSUME IInv, NEW p \in Seats, NEW q \in Seats, next[q] > 0
              PROVE  next[q] - 1 \in committed[p]
  OBVIOUS
<1>1. next[q] - 1 \in 0 .. next[q] - 1
  BY TopTypes
<1>. QED  BY <1>1, RanIsCommitted

(* The facts about the log that a step needs in its next state. *)
LoggedInv ==
  /\ CommittedInv
  /\ \A s \in Seats :
       /\ Top(s) \in Nat
       /\ Cardinality(committed[s]) \in Nat
       /\ s \in started => Cardinality(committed[s]) = Top(s)
  /\ \A p, q \in Seats : next[q] > 0 => next[q] - 1 \in committed[p]

(* The facts above, gathered so that they can be primed. *)
LEMMA LogFacts == IInv => LoggedInv
<1>. SUFFICES ASSUME IInv PROVE LoggedInv
  OBVIOUS
<1>1. CommittedInv
  BY DEF IInv
<1>2. \A s \in Seats : Top(s) \in Nat
  BY TopTypes
<1>. QED  BY <1>1, <1>2, LogLength, RanIsLogged DEF LoggedInv

(* The commit of a slice leaves the log alone or writes one pad to it.      *)
LEMMA CommitWrites ==
  ASSUME IInv, NEW p \in started, NEW pad \in Pads, CommitLocal(p, pad)
  PROVE  \/ LogBar' = LogBar
         \/ /\ Cardinality(committed[p]) = next[p] + Delay
            /\ LogBar' = [LogBar EXCEPT ![p] = Append(@, pad)]
<1>. DEFINE t == next[p] + Delay
            b == Block(p, t, pad)
<1>1. p \in Seats /\ t \in Nat /\ committed \in [Seats -> SUBSET Nat]
  BY CommitCases DEF IInv, TypeOK
<1>2. /\ committed' = [committed EXCEPT ![p] = 0 .. t]
      /\ \/ t \in committed[p] /\ Sent' = Sent
         \/ t \notin committed[p] /\ Sent' = Sent \cup {b}
  BY CommitCases
<1>3. committed[p] = 0 .. Top(p) - 1 /\ Cardinality(committed[p]) = Top(p)
  BY <1>1, LogLength DEF IInv, CommittedInv
<1>4. CASE t \in committed[p] /\ Sent' = Sent
  <2>1. Top(p) = t + 1
    BY <1>4, <1>1, TopTypes
  <2>2. committed[p] = 0 .. t
    BY <2>1, <1>1, <1>3
  <2>3. committed' = committed
    BY <2>2, <1>1, <1>2
  <2>. QED  BY <2>3, <1>4 DEF LogBar, LogOf, CommittedPad, BlocksAt
<1>5. CASE t \notin committed[p] /\ Sent' = Sent \cup {b}
  <2>1. Top(p) = t /\ Cardinality(committed[p]) = t
    BY <1>3, <1>5, <1>1, TopTypes
  <2>2. committed'[p] = 0 .. t /\ Cardinality(committed'[p]) = t + 1
    <3>1. Cardinality(0 .. t) = IF 0 > t THEN 0 ELSE t - 0 + 1
      BY <1>1, FS_Interval
    <3>. QED  BY <3>1, <1>1, <1>2
  <2>3. b.seat = p /\ b.tick = t /\ b.pad = pad
    BY DEF Block
  <2>. HIDE DEF b
  <2>4. \A s \in Seats, u \in Nat : s # p \/ u # t => BlocksAt(Sent', s, u) = BlocksAt(Sent, s, u)
    BY <2>3, <1>5 DEF BlocksAt
  <2>5. BlocksAt(Sent', p, t) = {b}
    <3>1. \A c \in Sent : ~ (c.seat = p /\ c.tick = t)
      BY <1>5 DEF IInv, SentInv
    <3>. QED  BY <3>1, <2>3, <1>5 DEF BlocksAt
  <2>6. CommittedPad(Sent', p, t) = pad
    BY <2>3, <2>5 DEF CommittedPad
  <2>7. \A s \in Seats, u \in Nat : s # p \/ u # t => CommittedPad(Sent', s, u) = CommittedPad(Sent, s, u)
    BY <2>4 DEF CommittedPad
  <2>8. ASSUME NEW s \in Seats \ {p} PROVE LogOf(s)' = LogOf(s)
    <3>1. committed'[s] = committed[s] /\ Cardinality(committed[s]) \in Nat
      BY <1>1, <1>2, LogLength
    <3>2. \A k \in 1 .. Cardinality(committed[s]) : CommittedPad(Sent', s, k - 1) = CommittedPad(Sent, s, k - 1)
      BY <3>1, <2>7
    <3>. QED  BY <3>1, <3>2 DEF LogOf
  <2>9. LogOf(p)' = Append(LogOf(p), pad)
    <3>. DEFINE old == LogOf(p)
    <3>1. old = [k \in 1 .. t |-> CommittedPad(Sent, p, k - 1)]
      BY <2>1 DEF LogOf
    <3>2. LogOf(p)' = [k \in 1 .. t + 1 |-> CommittedPad(Sent', p, k - 1)]
      BY <2>2 DEF LoggedInv, LogOf
    <3>3. \A k \in 1 .. t : CommittedPad(Sent', p, k - 1) = CommittedPad(Sent, p, k - 1)
      BY <1>1, <2>7
    <3>4. CommittedPad(Sent', p, (t + 1) - 1) = pad
      BY <1>1, <2>6
    <3>5. Append(old, pad) = [k \in 1 .. t + 1 |-> IF k = t + 1 THEN pad ELSE old[k]]
      BY <1>1, <3>1
    <3>. QED  BY <1>1, <3>1, <3>2, <3>3, <3>4, <3>5
  <2>. QED  BY <2>1, <2>8, <2>9, <1>1 DEF LogBar
<1>. QED  BY <1>2, <1>4, <1>5

(* startLockstep() opens a seat's log with Delay idle ticks. *)
LEMMA StartOpens ==
  ASSUME IInv, NEW p \in Seats, Start(p)
  PROVE  Log!Open(p)
<1>. DEFINE h == Prefill(p)
<1>1. /\ Delay \in Nat \ {0} /\ p \notin started /\ committed[p] = {}
      /\ committed \in [Seats -> SUBSET Nat]
      /\ committed' = [committed EXCEPT ![p] = 0 .. Delay - 1]
      /\ next' = next
  BY LockstepAssumption DEF IInv, TypeOK, CommittedInv, Start
<1>2. Sent' = Sent \cup BlocksOf(h)
  BY DEF Start, Sent
<1>3. \A c \in BlocksOf(h) : c.seat = p
  BY DEF Prefill, BlocksOf, Block
<1>4. Cardinality(committed'[p]) = Delay /\ Cardinality(committed[p]) = 0
  <2>1. Cardinality(0 .. Delay - 1) = IF 0 > Delay - 1 THEN 0 ELSE (Delay - 1) - 0 + 1
    <3>1. 0 \in Int /\ Delay - 1 \in Int
      BY <1>1
    <3>. QED  BY <3>1, FS_Interval
  <2>. QED  BY <2>1, <1>1, FS_EmptySet
<1>5. \A k \in 1 .. Delay : BlocksAt(Sent', p, k - 1) = {Block(p, k - 1, Idle)}
  <2>1. SUFFICES ASSUME NEW k \in 1 .. Delay
                 PROVE  BlocksAt(Sent', p, k - 1) = {Block(p, k - 1, Idle)}
    OBVIOUS
  <2>2. \A c \in Sent : c.seat # p
    BY <1>1 DEF IInv, SentInv
  <2>3. DOMAIN h = 1 .. Delay /\ \A j \in 1 .. Delay : h[j] = Block(p, Delay - j, Idle)
    BY <1>1 DEF Prefill
  <2>4. Block(p, k - 1, Idle) \in BlocksOf(h)
    <3>1. Delay - (k - 1) \in 1 .. Delay /\ Delay - (Delay - (k - 1)) = k - 1
      BY <1>1
    <3>2. h[Delay - (k - 1)] = Block(p, k - 1, Idle)
      BY <3>1, <2>3
    <3>. QED  BY <3>1, <3>2, <2>3 DEF BlocksOf
  <2>5. \A c \in BlocksOf(h) : c.tick = k - 1 => c = Block(p, k - 1, Idle)
    BY <2>3 DEF BlocksOf, Block
  <2>6. Block(p, k - 1, Idle).seat = p /\ Block(p, k - 1, Idle).tick = k - 1
    BY DEF Block
  <2>. HIDE DEF h
  <2>. QED  BY <2>2, <2>4, <2>5, <2>6, <1>2 DEF BlocksAt
<1>6. \A k \in 1 .. Delay : CommittedPad(Sent', p, k - 1) = Idle
  <2>1. SUFFICES ASSUME NEW k \in 1 .. Delay PROVE CommittedPad(Sent', p, k - 1) = Idle
    OBVIOUS
  <2>. DEFINE b == Block(p, k - 1, Idle)
  <2>2. b.pad = Idle
    BY DEF Block
  <2>3. BlocksAt(Sent', p, k - 1) = {b}
    BY <1>5
  <2>. HIDE DEF b
  <2>. QED  BY <2>2, <2>3 DEF CommittedPad
<1>7. LogOf(p) = <<>> /\ LogOf(p)' = [k \in 1 .. Delay |-> Idle]
  BY <1>1, <1>4, <1>6 DEF LogOf
<1>8. ASSUME NEW s \in Seats \ {p} PROVE LogOf(s)' = LogOf(s)
  <2>1. \A u \in Nat : BlocksAt(Sent', s, u) = BlocksAt(Sent, s, u)
    BY <1>2, <1>3 DEF BlocksAt
  <2>2. \A u \in Nat : CommittedPad(Sent', s, u) = CommittedPad(Sent, s, u)
    BY <2>1 DEF CommittedPad
  <2>3. committed'[s] = committed[s]
    BY <1>1
  <2>4. \A k \in 1 .. Cardinality(committed[s]) : k - 1 \in Nat
    BY LogLength
  <2>. QED  BY <2>2, <2>3, <2>4 DEF LogOf
<1>9. LogBar' = [LogBar EXCEPT ![p] = [k \in 1 .. Delay |-> Idle]]
  BY <1>7, <1>8 DEF LogBar
<1>. QED  BY <1>1, <1>7, <1>9 DEF Log!Open, LogBar

(* A slice writes at most one pad and replays at most one tick, which every *)
(* seat has logged.                                                         *)
LEMMA SliceIsLogSlice ==
  ASSUME IInv, IInv', NEW p \in started, NEW pad \in Pads, CommitLocal(p, pad),
         \/ next' = next
         \/ next' = [next EXCEPT ![p] = @ + 1]
  PROVE  Log!LogSlice(p)
<1>1. p \in Seats /\ LogBar[p] = LogOf(p) /\ next \in [Seats -> Nat]
  BY DEF LogBar, IInv, TypeOK
<1>2. LogOf(p) # <<>> /\ Len(LogOf(p)) = Cardinality(committed[p])
  <2>1. Cardinality(committed[p]) \in Nat \ {0}
    BY <1>1, LogLength, TopTypes
  <2>. QED  BY <2>1 DEF LogOf
<1>3. \/ LogBar' = LogBar
      \/ \E x \in Pads : /\ Len(LogOf(p)) = next[p] + Delay
                         /\ LogBar' = [LogBar EXCEPT ![p] = Append(@, x)]
  BY <1>2, CommitWrites
<1>4. next' = next \/ ((\A s \in Seats : Len(LogOf(s)') > next[p]) /\ next' = [next EXCEPT ![p] = @ + 1])
  <2>1. SUFFICES ASSUME next' = [next EXCEPT ![p] = @ + 1], NEW s \in Seats
                 PROVE  Len(LogOf(s)') > next[p]
    OBVIOUS
  <2>2. LoggedInv'
    BY LogFacts, PTL
  <2>3. next'[p] = next[p] + 1 /\ next[p] \in Nat
    BY <2>1, <1>1
  <2>4. next[p] \in committed'[s]
    BY <2>2, <2>3, <1>1 DEF LoggedInv
  <2>5. s \in started' /\ committed'[s] = 0 .. Top(s)' - 1 /\ Top(s)' \in Nat
    BY <2>2, <2>4 DEF LoggedInv, CommittedInv
  <2>6. Cardinality(committed'[s]) > next[p]
    BY <2>2, <2>3, <2>4, <2>5 DEF LoggedInv
  <2>7. Len(LogOf(s)') = Cardinality(committed'[s])
    BY <2>2 DEF LoggedInv, LogOf
  <2>. QED  BY <2>6, <2>7
<1>5. \A s \in Seats : LogBar'[s] = LogOf(s)'
  BY DEF LogBar
<1>. QED  BY <1>1, <1>2, <1>3, <1>4, <1>5 DEF Log!LogSlice, Log!Write, Log!Replay, LogBar, Log!Seats, Seats

(* Every behaviour of Lockstep is a behaviour of the shared input log. *)
THEOREM Refinement == Spec => ImplementsLog
<1>1. Init => Log!LogInit
  <2>. SUFFICES ASSUME Init PROVE Log!LogInit
    OBVIOUS
  <2>1. \A s \in Seats : LogOf(s) = <<>>
    BY FS_EmptySet DEF Init, LogOf
  <2>. QED  BY <2>1 DEF Init, Log!LogInit, Log!Seats, Seats
<1>2. IInv /\ IInv' /\ [Next]_vars => [Log!LogNext]_(Log!logVars)
  <2>. SUFFICES ASSUME IInv, IInv', [Next]_vars PROVE [Log!LogNext]_(Log!logVars)
    OBVIOUS
  <2>1. ASSUME NEW p \in Seats, Start(p) PROVE Log!LogNext
    BY <2>1, StartOpens DEF Log!LogNext, Log!Seats, Seats
  <2>2. ASSUME NEW p \in Seats, Slice(p) PROVE Log!LogNext
    <3>1. /\ p \in started
          /\ \E pad \in Pads : CommitLocal(p, pad)
          /\ next' = next \/ next' = [next EXCEPT ![p] = @ + 1]
      BY <2>2 DEF Slice, RunSlice, WaitSlice
    <3>. QED  BY <3>1, SliceIsLogSlice DEF Log!LogNext, Log!Seats, Seats
  <2>3. ASSUME UNCHANGED <<next, committed, net>> PROVE UNCHANGED Log!logVars
    BY <2>3 DEF Log!logVars, LogOf, Sent
  <2>4. CASE UNCHANGED vars
    BY <2>3, <2>4 DEF vars
  <2>5. ASSUME NEW p \in Seats, NEW d \in net, Receive(p, d) PROVE UNCHANGED Log!logVars
    BY <2>3, <2>5 DEF Receive
  <2>6. ASSUME NEW p \in Seats, Halt(p) PROVE UNCHANGED Log!logVars
    BY <2>3, <2>6 DEF Halt
  <2>. QED  BY <2>1, <2>2, <2>4, <2>5, <2>6 DEF Next
<1>. QED  BY <1>1, <1>2, Invariant, PTL DEF Spec, ImplementsLog, Log!LogSpec
===============================================================================
