--------------------------- MODULE SessionLogProofs ---------------------------
(***************************************************************************)
(* Proofs about one session's log, for any events, any number of crashes   *)
(* and failures, and either form of the file: SessionInv is inductive, and *)
(* the persistence of the session implements DurableLog.                   *)
(***************************************************************************)
EXTENDS SessionLog, SequenceTheorems, FiniteSetTheorems, WellFoundedInduction, TLAPS

-----------------------------------------------------------------------------
(* Least and greatest numbers.                                             *)

LEMMA LeastNumber ==
  ASSUME NEW T, T \subseteq Nat, T # {}
  PROVE  \E x \in T : \A y \in T : x <= y
<1> DEFINE R == OpToRel(<, Nat)
<1>1. IsWellFoundedOn(R, Nat)
  BY NatLessThanWellFounded
<1>2. ASSUME NEW x \in Nat, NEW y \in Nat, y < x PROVE <<y, x>> \in R
  BY <1>2 DEF OpToRel
<1> HIDE DEF R
<1>3. PICK x \in T : \A y \in T : ~(<<y, x>> \in R)
  BY <1>1, WFMin
<1>4. ASSUME NEW y \in T PROVE x <= y
  <2>1. x \in Nat /\ y \in Nat /\ ~(<<y, x>> \in R)
    BY <1>3
  <2>2. ~(y < x)
    BY <2>1, <1>2
  <2> QED
    BY <2>1, <2>2
<1> QED
  BY <1>4

LEMMA GreatestNumber ==
  ASSUME NEW n \in Nat, NEW T, T \subseteq 0..n, T # {}
  PROVE  \E x \in T : \A y \in T : y <= x
<1> DEFINE U == {n - x : x \in T}
<1>1. U \subseteq Nat /\ U # {}
  OBVIOUS
<1>2. PICK u \in U : \A v \in U : u <= v
  BY <1>1, LeastNumber
<1>3. PICK x \in T : u = n - x
  BY <1>2
<1>4. ASSUME NEW y \in T PROVE y <= x
  <2>1. n - y \in U /\ u <= n - y /\ x \in 0..n /\ y \in 0..n
    BY <1>2
  <2> QED
    BY <2>1, <1>3
<1> QED
  BY <1>4

(* The last event of certain kinds is one, if there is any.                *)
LEMMA LastHolds ==
  ASSUME NEW events \in Seq(Kinds), NEW kinds,
         NEW i \in 1..Len(events), events[i] \in kinds
  PROVE  /\ LastOf(events, kinds) \in 1..Len(events)
         /\ events[LastOf(events, kinds)] \in kinds
<1> DEFINE at == {j \in DOMAIN events : events[j] \in kinds}
<1>1. at \subseteq 0..Len(events) /\ at # {} /\ Len(events) \in Nat
  OBVIOUS
<1>2. \E j \in at : \A k \in at : k <= j
  BY <1>1, GreatestNumber
<1>3. LastOf(events, kinds) \in at
  BY <1>1, <1>2 DEF LastOf
<1> QED
  BY <1>3

LEMMA LastIsAny ==
  ASSUME NEW events \in Seq(Kinds), NEW kinds, LastOf(events, kinds) # 0
  PROVE  /\ LastOf(events, kinds) \in 1..Len(events)
         /\ events[LastOf(events, kinds)] \in kinds
<1> DEFINE at == {j \in DOMAIN events : events[j] \in kinds}
<1>1. at # {}
  BY DEF LastOf
<1>2. PICK i \in 1..Len(events) : events[i] \in kinds
  BY <1>1
<1> QED
  BY <1>2, LastHolds

(* The call that is about to run its body has an event of its own.         *)
LEMMA CallIsThere ==
  ASSUME TypeOK, Boundary(log) = "call"
  PROVE  LastOf(log, {"call"}) \in 1..Len(log) /\ log[LastOf(log, {"call"})] = "call"
<1> DEFINE last == LastOf(log, Kinds \ {"note"})
<1>1. log \in Seq(Kinds)
  BY DEF TypeOK
<1>2. last # 0 /\ log[last] = "call"
  BY DEF Boundary
<1> HIDE DEF last
<1>3. last \in 1..Len(log)
  BY <1>1, <1>2, LastIsAny DEF last
<1>4. log[last] \in {"call"}
  BY <1>2
<1>5. log[LastOf(log, {"call"})] \in {"call"} /\ LastOf(log, {"call"}) \in 1..Len(log)
  BY <1>1, <1>3, <1>4, LastHolds
<1> QED
  BY <1>5

-----------------------------------------------------------------------------
(* Batches that continue a sequence of positions.                          *)

LEMMA EmptyContinues == ASSUME NEW b PROVE Continues(<<>>, b) /\ Len(<<>>) = 0
BY DEF Continues

LEMMA AppendContinues ==
  ASSUME NEW s \in Seq(Nat), NEW b \in Nat, Continues(s, b), NEW e \in Nat,
         e = b + Len(s) + 1
  PROVE  /\ Append(s, e) \in Seq(Nat) /\ Len(Append(s, e)) = Len(s) + 1
         /\ Continues(Append(s, e), b)
<1>1. /\ Append(s, e) \in Seq(Nat) /\ Len(Append(s, e)) = Len(s) + 1
      /\ \A i \in 1..Len(s) : Append(s, e)[i] = s[i]
      /\ Append(s, e)[Len(s) + 1] = e
  BY AppendProperties
<1>2. ASSUME NEW i \in DOMAIN Append(s, e) PROVE Append(s, e)[i] = b + i
  <2>1. i \in 1..Len(s) \/ i = Len(s) + 1
    BY <1>1
  <2>2. CASE i \in 1..Len(s)
    BY <1>1, <2>2 DEF Continues
  <2>3. CASE i = Len(s) + 1
    BY <1>1, <2>3
  <2> QED
    BY <2>1, <2>2, <2>3
<1> QED
  BY <1>1, <1>2 DEF Continues

LEMMA ConcatContinues ==
  ASSUME NEW s \in Seq(Nat), NEW t \in Seq(Nat), NEW b \in Nat,
         Continues(s, b), Continues(t, b + Len(s))
  PROVE  /\ s \o t \in Seq(Nat) /\ Len(s \o t) = Len(s) + Len(t)
         /\ Continues(s \o t, b)
<1>1. /\ s \o t \in Seq(Nat) /\ Len(s \o t) = Len(s) + Len(t)
      /\ \A i \in 1..Len(s) + Len(t) :
           (s \o t)[i] = IF i <= Len(s) THEN s[i] ELSE t[i - Len(s)]
  BY ConcatProperties
<1>2. ASSUME NEW i \in DOMAIN (s \o t) PROVE (s \o t)[i] = b + i
  <2>1. i \in 1..Len(s) + Len(t)
    BY <1>1
  <2>2. CASE i <= Len(s)
    <3>1. i \in DOMAIN s /\ (s \o t)[i] = s[i]
      BY <1>1, <2>1, <2>2
    <3> QED
      BY <3>1 DEF Continues
  <2>3. CASE i > Len(s)
    <3>1. i - Len(s) \in DOMAIN t /\ (s \o t)[i] = t[i - Len(s)]
      BY <1>1, <2>1, <2>3
    <3>2. t[i - Len(s)] = b + Len(s) + (i - Len(s))
      BY <3>1 DEF Continues
    <3> QED
      BY <2>1, <3>1, <3>2
  <2> QED
    BY <2>1, <2>2, <2>3
<1> QED
  BY <1>1, <1>2 DEF Continues

-----------------------------------------------------------------------------
(* The controller's operations keep the queue in order.                    *)

LEMMA QueueTypes ==
  ASSUME NEW c \in Controller
  PROVE  /\ c.active \in Seq(Nat) /\ c.pending \in Seq(Nat)
         /\ Len(c.active) \in Nat /\ Len(c.pending) \in Nat
BY DEF Controller

LEMMA Sizes ==
  ASSUME NEW b \in Nat, NEW a \in Nat, NEW p \in Nat
  PROVE  b + a \in Nat /\ b + (a + p) = b + a + p /\ b + a <= b + a + p
OBVIOUS

LEMMA QueueSize ==
  ASSUME NEW c \in Controller, NEW b \in Nat, NEW n \in Nat, InOrder(c, b, n)
  PROVE  /\ Continues(c.active, b) /\ Continues(c.pending, b + Len(c.active))
         /\ b + Len(c.active) \in Nat
         /\ n = b + Len(c.active) + Len(c.pending)
         /\ b + (Len(c.active) + Len(c.pending)) = n
<1>1. Len(c.active) \in Nat /\ Len(c.pending) \in Nat
  BY QueueTypes
<1>2. /\ Continues(c.active, b) /\ Continues(c.pending, b + Len(c.active))
      /\ n = b + Len(c.active) + Len(c.pending)
  BY DEF InOrder
<1>3. b + Len(c.active) \in Nat
  BY <1>1
<1>4. b + (Len(c.active) + Len(c.pending)) = b + Len(c.active) + Len(c.pending)
  BY <1>1, Sizes
<1> QED
  BY <1>2, <1>3, <1>4

LEMMA SameOrder ==
  ASSUME NEW c, NEW d, NEW b, NEW n, InOrder(c, b, n),
         d.active = c.active, d.pending = c.pending
  PROVE  InOrder(d, b, n)
BY DEF InOrder

LEMMA CancelOrdered ==
  ASSUME NEW c \in Controller
  PROVE  /\ CancelAutomaticWait(c) \in Controller
         /\ CancelAutomaticWait(c).active = c.active
         /\ CancelAutomaticWait(c).pending = c.pending
         /\ CancelAutomaticWait(c).paused = c.paused
         /\ CancelAutomaticWait(c).barrier = c.barrier
BY DEF CancelAutomaticWait, Controller

LEMMA StartOrdered ==
  ASSUME NEW c \in Controller, NEW b \in Nat, NEW n \in Nat,
         InOrder(c, b, n), c.active = <<>>
  PROVE  /\ StartWrite(c) \in Controller /\ InOrder(StartWrite(c), b, n)
         /\ StartWrite(c).active = c.pending /\ StartWrite(c).pending = <<>>
         /\ StartWrite(c).paused = c.paused
         /\ StartWrite(c).barrier = c.barrier
<1>1. /\ StartWrite(c) \in Controller
      /\ StartWrite(c).active = c.pending /\ StartWrite(c).pending = <<>>
      /\ StartWrite(c).paused = c.paused
      /\ StartWrite(c).barrier = c.barrier
  BY CancelOrdered DEF StartWrite, CancelAutomaticWait, Controller
<1>2. InOrder(StartWrite(c), b, n)
  <2>1. Continues(c.pending, b) /\ b + Len(c.pending) = n
    BY QueueTypes, EmptyContinues DEF InOrder
  <2> QED
    BY <1>1, <2>1, QueueTypes, EmptyContinues DEF InOrder
<1> QED
  BY <1>1, <1>2

LEMMA DrainOrdered ==
  ASSUME NEW c \in Controller, NEW b \in Nat, NEW n \in Nat,
         InOrder(c, b, n), c.active = <<>>
  PROVE  /\ Drain(c) \in Controller /\ InOrder(Drain(c), b, n)
         /\ Drain(c).barrier = "none" =>
              Drain(c).active = <<>> /\ Drain(c).pending = <<>> /\ b = n
         /\ Drain(c).barrier \in {"none", "drain"}
<1>1. CASE c.pending = <<>>
  <2>1. /\ Drain(c) \in Controller
        /\ Drain(c).active = <<>> /\ Drain(c).pending = <<>>
        /\ Drain(c).barrier = "none"
    BY <1>1 DEF Drain, Controller
  <2>2. InOrder(Drain(c), b, n)
    BY <1>1, <2>1, SameOrder
  <2>3. b = n
    BY <1>1, EmptyContinues DEF InOrder
  <2> QED
    BY <2>1, <2>2, <2>3
<1>2. CASE c.pending # <<>>
  <2>1. Drain(c) = [StartWrite(c) EXCEPT !.barrier = "drain"]
    BY <1>2 DEF Drain
  <2>2. StartWrite(c) \in Controller /\ InOrder(StartWrite(c), b, n)
    BY StartOrdered
  <2>3. /\ Drain(c) \in Controller /\ Drain(c).barrier = "drain"
        /\ Drain(c).active = StartWrite(c).active
        /\ Drain(c).pending = StartWrite(c).pending
    BY <2>1, <2>2 DEF Controller
  <2>4. InOrder(Drain(c), b, n)
    BY <2>2, <2>3, SameOrder
  <2> QED
    BY <2>3, <2>4
<1> QED
  BY <1>1, <1>2

LEMMA EnqueueOrdered ==
  ASSUME NEW c \in Controller, NEW b \in Nat, NEW n \in Nat, InOrder(c, b, n)
  PROVE  /\ Enqueue(c, n + 1) \in Controller
         /\ InOrder(Enqueue(c, n + 1), b, n + 1)
         /\ Enqueue(c, n + 1).barrier = c.barrier
         /\ Enqueue(c, n + 1).active = c.active
         /\ c.barrier # "none" => Enqueue(c, n + 1).paused = c.paused
<1> DEFINE longer == Append(c.pending, n + 1)
           behind == b + Len(c.active)
<1>1. /\ c.pending \in Seq(Nat) /\ Len(c.active) \in Nat /\ Len(c.pending) \in Nat
      /\ n = behind + Len(c.pending) /\ behind \in Nat
      /\ Continues(c.active, b) /\ Continues(c.pending, behind)
  BY QueueTypes, QueueSize
<1> HIDE DEF behind
<1>2. /\ longer \in Seq(Nat) /\ Len(longer) = Len(c.pending) + 1
      /\ Continues(longer, behind)
  <2>1. n + 1 = behind + Len(c.pending) + 1 /\ n + 1 \in Nat
    BY <1>1
  <2> QED
    BY <1>1, <2>1, AppendContinues
<1> HIDE DEF longer
<1>3. /\ Enqueue(c, n + 1) \in Controller
      /\ Enqueue(c, n + 1).pending = longer
      /\ Enqueue(c, n + 1).active = c.active
      /\ Enqueue(c, n + 1).barrier = c.barrier
      /\ c.barrier # "none" => Enqueue(c, n + 1).paused = c.paused
  BY <1>2 DEF Enqueue, Controller, longer
<1>4. InOrder(Enqueue(c, n + 1), b, n + 1)
  <2>1. behind + Len(longer) = n + 1
    BY <1>1, <1>2
  <2> QED
    BY <1>1, <1>2, <1>3, <2>1 DEF InOrder, behind
<1> QED
  BY <1>3, <1>4

LEMMA WriteFailedOrdered ==
  ASSUME NEW c \in Controller, NEW b \in Nat, NEW n \in Nat, InOrder(c, b, n)
  PROVE  /\ WriteFailed(c) \in Controller /\ InOrder(WriteFailed(c), b, n)
         /\ WriteFailed(c).active = <<>> /\ WriteFailed(c).paused = TRUE
         /\ WriteFailed(c).barrier =
              IF c.barrier = "drain" THEN "failed" ELSE c.barrier
<1> DEFINE whole == c.active \o c.pending
           cancelled == CancelAutomaticWait(c)
<1>1. /\ whole \in Seq(Nat) /\ Len(whole) = Len(c.active) + Len(c.pending)
      /\ Continues(whole, b)
  BY QueueTypes, ConcatContinues DEF InOrder
<1>2. /\ cancelled \in Controller /\ cancelled.active = c.active
      /\ cancelled.pending = c.pending /\ cancelled.barrier = c.barrier
  BY CancelOrdered
<1>3. WriteFailed(c) = [cancelled EXCEPT
        !.pending = c.active \o @, !.active = <<>>, !.paused = TRUE,
        !.barrier = IF @ = "drain" THEN "failed" ELSE @]
  BY DEF WriteFailed
<1> HIDE DEF cancelled
<1>4. /\ WriteFailed(c) \in Controller
      /\ WriteFailed(c).pending = whole /\ WriteFailed(c).active = <<>>
      /\ WriteFailed(c).paused = TRUE
      /\ WriteFailed(c).barrier = IF c.barrier = "drain" THEN "failed" ELSE c.barrier
  <2>1. /\ WriteFailed(c).pending = whole /\ WriteFailed(c).active = <<>>
        /\ WriteFailed(c).paused = TRUE
        /\ WriteFailed(c).barrier = IF c.barrier = "drain" THEN "failed" ELSE c.barrier
        /\ WriteFailed(c).timer = cancelled.timer
        /\ WriteFailed(c).expired = cancelled.expired
    BY <1>2, <1>3 DEF Controller
  <2>2. <<>> \in Seq(Nat)
    OBVIOUS
  <2>3. [cancelled EXCEPT
           !.pending = whole, !.active = <<>>, !.paused = TRUE,
           !.barrier = IF @ = "drain" THEN "failed" ELSE @] \in Controller
    BY <1>1, <1>2, <2>2 DEF Controller
  <2> QED
    BY <1>2, <1>3, <2>1, <2>3
<1> HIDE DEF whole
<1>5. InOrder(WriteFailed(c), b, n)
  <2>1. b + Len(WriteFailed(c).active) = b /\ Continues(WriteFailed(c).active, b)
    BY <1>4, EmptyContinues
  <2>2. b + Len(whole) = n
    BY <1>1, QueueSize
  <2> QED
    BY <1>1, <1>4, <2>1, <2>2 DEF InOrder
<1> QED
  BY <1>4, <1>5

LEMMA WriteSucceededOrdered ==
  ASSUME NEW c \in Controller, NEW b \in Nat, NEW n \in Nat, InOrder(c, b, n)
  PROVE  /\ WriteSucceeded(c) \in Controller
         /\ InOrder(WriteSucceeded(c), b + Len(c.active), n)
         /\ WriteSucceeded(c).barrier = c.barrier
         /\ WriteSucceeded(c).paused = c.paused
<1> DEFINE settled == [c EXCEPT !.active = <<>>]
           k == b + Len(c.active)
<1>1. /\ settled \in Controller /\ settled.active = <<>>
      /\ settled.pending = c.pending /\ settled.barrier = c.barrier
      /\ settled.paused = c.paused
  <2>1. <<>> \in Seq(Nat)
    OBVIOUS
  <2> QED
    BY <2>1 DEF Controller
<1>2. WriteSucceeded(c) = IF c.barrier = "none" /\ c.expired
                          THEN StartWrite(settled) ELSE settled
  BY DEF WriteSucceeded
<1>3. k \in Nat
  BY QueueTypes
<1> HIDE DEF settled
<1>4. InOrder(settled, k, n)
  <2>1. Continues(settled.active, k) /\ k + Len(settled.active) = k
    BY <1>1, <1>3, EmptyContinues
  <2>2. Continues(settled.pending, k) /\ k + Len(settled.pending) = n
    BY <1>1 DEF InOrder
  <2> QED
    BY <2>1, <2>2 DEF InOrder
<1> HIDE DEF k
<1>5. /\ StartWrite(settled) \in Controller
      /\ InOrder(StartWrite(settled), k, n)
      /\ StartWrite(settled).barrier = c.barrier
      /\ StartWrite(settled).paused = c.paused
  BY <1>1, <1>3, <1>4, StartOrdered
<1> QED
  BY <1>1, <1>2, <1>4, <1>5 DEF k

LEMMA FlushOrdered ==
  ASSUME NEW c \in Controller, NEW b \in Nat, NEW n \in Nat, InOrder(c, b, n)
  PROVE  /\ Flush(c) \in Controller /\ InOrder(Flush(c), b, n)
         /\ Flush(c).barrier = "none" =>
              Flush(c).active = <<>> /\ Flush(c).pending = <<>> /\ b = n
         /\ Flush(c).barrier = "failed" => c.barrier = "failed" /\ Flush(c) = c
<1> DEFINE awake == [CancelAutomaticWait(c) EXCEPT !.paused = FALSE]
<1>1. /\ awake \in Controller /\ awake.active = c.active /\ awake.pending = c.pending
      /\ awake.barrier = c.barrier
  BY CancelOrdered DEF Controller
<1>2. Flush(c) = IF c.barrier # "none" THEN c
                 ELSE IF c.active # <<>> THEN [awake EXCEPT !.barrier = "overlap"]
                 ELSE Drain(awake)
  BY DEF Flush
<1> HIDE DEF awake
<1>3. InOrder(awake, b, n)
  BY <1>1, SameOrder
<1>4. CASE c.barrier # "none"
  BY <1>2, <1>4
<1>5. CASE c.barrier = "none" /\ c.active # <<>>
  <2>1. Flush(c) = [awake EXCEPT !.barrier = "overlap"]
    BY <1>2, <1>5
  <2>2. /\ Flush(c) \in Controller /\ Flush(c).barrier = "overlap"
        /\ Flush(c).active = c.active /\ Flush(c).pending = c.pending
    BY <1>1, <2>1 DEF Controller
  <2>3. InOrder(Flush(c), b, n)
    BY <2>2, SameOrder
  <2> QED
    BY <2>2, <2>3
<1>6. CASE c.barrier = "none" /\ c.active = <<>>
  <2>1. Flush(c) = Drain(awake) /\ awake.active = <<>>
    BY <1>1, <1>2, <1>6
  <2> QED
    BY <1>1, <1>3, <2>1, DrainOrdered
<1> QED
  BY <1>4, <1>5, <1>6

LEMMA DeadlineOrdered ==
  ASSUME NEW c \in Controller, NEW b \in Nat, NEW n \in Nat, InOrder(c, b, n)
  PROVE  /\ OnDeadline(c) \in Controller /\ InOrder(OnDeadline(c), b, n)
         /\ OnDeadline(c).barrier = c.barrier /\ OnDeadline(c).paused = c.paused
         /\ \/ OnDeadline(c).pending = <<>>
            \/ OnDeadline(c).expired /\ OnDeadline(c).active # <<>>
<1> DEFINE fired == [c EXCEPT !.timer = FALSE]
<1>1. /\ fired \in Controller /\ fired.active = c.active /\ fired.pending = c.pending
      /\ fired.barrier = c.barrier /\ fired.paused = c.paused
  BY DEF Controller
<1>2. OnDeadline(c) = IF c.active # <<>> THEN [fired EXCEPT !.expired = TRUE]
                      ELSE StartWrite(fired)
  BY DEF OnDeadline
<1> HIDE DEF fired
<1>3. InOrder(fired, b, n)
  BY <1>1, SameOrder
<1>4. CASE c.active # <<>>
  <2>1. /\ OnDeadline(c) \in Controller /\ OnDeadline(c).active = c.active
        /\ OnDeadline(c).pending = c.pending /\ OnDeadline(c).expired = TRUE
        /\ OnDeadline(c).barrier = c.barrier /\ OnDeadline(c).paused = c.paused
    BY <1>1, <1>2, <1>4 DEF Controller
  <2>2. InOrder(OnDeadline(c), b, n)
    BY <2>1, SameOrder
  <2> QED
    BY <1>4, <2>1, <2>2
<1>5. CASE c.active = <<>>
  <2>1. OnDeadline(c) = StartWrite(fired) /\ fired.active = <<>>
    BY <1>1, <1>2, <1>5
  <2> QED
    BY <1>1, <1>3, <2>1, StartOrdered
<1> QED
  BY <1>4, <1>5

LEMMA DrainBarrierOrdered ==
  ASSUME NEW c \in Controller, NEW b \in Nat, NEW n \in Nat, InOrder(c, b, n),
         c.active = <<>>, c.barrier = "failed" => c.paused
  PROVE  /\ DrainBarrier(c) \in Controller /\ InOrder(DrainBarrier(c), b, n)
         /\ DrainBarrier(c).barrier \in {"none", "drain"}
         /\ c.barrier = "failed" =>
              DrainBarrier(c).barrier = "none" /\ DrainBarrier(c).paused
         /\ DrainBarrier(c).barrier = "none" /\ c.barrier # "failed" =>
              DrainBarrier(c).active = <<>> /\ DrainBarrier(c).pending = <<>> /\ b = n
<1>1. CASE c.barrier = "failed"
  <2>1. DrainBarrier(c) = [c EXCEPT !.barrier = "none"]
    BY <1>1 DEF DrainBarrier
  <2>2. /\ DrainBarrier(c) \in Controller /\ DrainBarrier(c).barrier = "none"
        /\ DrainBarrier(c).active = c.active /\ DrainBarrier(c).pending = c.pending
        /\ DrainBarrier(c).paused = c.paused
    BY <2>1 DEF Controller
  <2>3. InOrder(DrainBarrier(c), b, n)
    BY <2>2, SameOrder
  <2> QED
    BY <1>1, <2>2, <2>3
<1>2. CASE c.barrier # "failed"
  <2> DEFINE awake == [c EXCEPT !.paused = @ /\ c.barrier # "overlap"]
  <2>1. DrainBarrier(c) = Drain(awake)
    BY <1>2 DEF DrainBarrier
  <2>2. awake \in Controller /\ awake.active = c.active /\ awake.pending = c.pending
    BY DEF Controller
  <2> HIDE DEF awake
  <2>3. InOrder(awake, b, n)
    BY <2>2, SameOrder
  <2> QED
    BY <1>2, <2>1, <2>2, <2>3, DrainOrdered
<1> QED
  BY <1>1, <1>2

-----------------------------------------------------------------------------
(* What SessionInv says of a session that is up.                           *)

LEMMA UpFacts ==
  ASSUME SessionInv, Up
  PROVE  /\ w \in Controller /\ Behind \in Nat /\ Len(log) \in Nat
         /\ cursor \in Nat /\ seeded \in Nat /\ Len(lines) \in Nat
         /\ log \in Seq(Kinds) /\ lines \in Seq(Kinds)
         /\ InOrder(w, Behind, Len(log))
         /\ cursor <= Len(lines) /\ Len(lines) <= Len(log)
         /\ ~torn /\ tail = <<>> /\ repair = "none"
<1>1. /\ w \in Controller /\ cursor \in Nat /\ seeded \in Nat
      /\ log \in Seq(Kinds) /\ lines \in Seq(Kinds)
  BY DEF SessionInv, TypeOK
<1>2. Behind \in Nat /\ Len(log) \in Nat /\ Len(lines) \in Nat
  BY <1>1 DEF Behind
<1>3. InOrder(w, Behind, Len(log))
  BY DEF SessionInv, QueueInv
<1>4. cursor <= Len(lines) /\ Len(lines) <= Len(log)
  BY <1>1, <1>2 DEF SessionInv, FileInv
<1>5. ~torn /\ tail = <<>> /\ repair = "none"
  BY DEF SessionInv, RepairInv
<1> QED
  BY <1>1, <1>2, <1>3, <1>4, <1>5

(* A queue with nothing in it: the whole log is in the file.               *)
LEMMA AllStored ==
  ASSUME SessionInv, Up, init = "done", Behind = Len(log)
  PROVE  Len(log) = Len(lines)
BY UpFacts DEF Behind

(* Nothing but the controller and the callers changes.                     *)
LEMMA QuietKeeps ==
  ASSUME SessionInv, Up, Up',
         UNCHANGED <<file, log, seeded, init, cursor, materialized, repairing, ran>>,
         w' \in Controller, InOrder(w', Behind, Len(log))
  PROVE  RestInv' /\ QueueInv' /\ FileInv' /\ RepairInv' /\ RanIsRecorded'
<1> USE DEF file, repairing
<1>1. RestInv'
  BY DEF RestInv
<1>2. QueueInv'
  BY DEF QueueInv, Behind
<1>3. FileInv'
  BY DEF SessionInv, FileInv
<1>4. RepairInv'
  BY DEF SessionInv, RepairInv
<1>5. RanIsRecorded'
  BY DEF SessionInv, RanIsRecorded
<1> QED
  BY <1>1, <1>2, <1>3, <1>4, <1>5

(* How callers are answered.                                               *)
LEMMA SettleAnswers ==
  ASSUME SessionInv, Up, NEW waiters \in SUBSET Callers,
         NEW outcome \in {"ok", "failed"}, Settle(waiters, outcome),
         UNCHANGED <<lines, log>>, outcome = "ok" => Len(log) <= Len(lines)
  PROVE  /\ call' \in [Callers -> {"idle", "init", "barrier", "ok", "failed"}]
         /\ mark' \in [Callers -> Nat]
         /\ \A k \in Callers : mark'[k] <= Len(log)
         /\ acked' \in Nat /\ acked <= acked' /\ acked' <= Len(lines)
         /\ \A k \in Callers :
              call'[k] = IF k \in waiters THEN Answered(k, outcome) ELSE call[k]
<1>1. /\ call \in [Callers -> {"idle", "init", "barrier", "ok", "failed"}]
      /\ mark \in [Callers -> Nat] /\ acked \in Nat /\ acked <= Len(lines)
      /\ \A k \in Callers : mark[k] <= Len(log)
      /\ Len(lines) \in Nat /\ Len(log) \in Nat
  BY UpFacts DEF SessionInv, TypeOK, FlushInv, AckedSurvives
<1>2. /\ call' = [k \in Callers |-> IF k \in waiters THEN Answered(k, outcome) ELSE call[k]]
      /\ mark' = [k \in Callers |-> IF k \in waiters THEN 0 ELSE mark[k]]
  BY DEF Settle
<1>3. acked' \in Nat /\ acked <= acked' /\ acked' <= Len(lines)
  <2>1. CASE outcome = "failed" \/ waiters = {}
    <3>1. acked' = acked
      BY <2>1 DEF Settle
    <3> QED
      BY <1>1, <3>1
  <2>2. CASE ~(outcome = "failed" \/ waiters = {})
    <3> DEFINE covered == {acked} \cup {mark[k] : k \in waiters}
    <3>1. acked' = CHOOSE n \in covered : \A m \in covered : m <= n
      BY <2>2 DEF Settle
    <3>2. covered \subseteq 0..Len(lines) /\ covered # {}
      BY <1>1, <2>2
    <3>3. acked \in covered
      OBVIOUS
    <3> HIDE DEF covered
    <3>4. acked' \in covered /\ \A m \in covered : m <= acked'
      BY <1>1, <3>1, <3>2, GreatestNumber
    <3> QED
      BY <3>2, <3>3, <3>4
  <2> QED
    BY <2>1, <2>2
<1> QED
  BY <1>1, <1>2, <1>3 DEF Answered

-----------------------------------------------------------------------------
(* Flushes keep the invariant.                                             *)

LEMMA AskKeeps ==
  ASSUME SessionInv, Up, Up', NEW k \in Callers, AskFlush(k),
         phase' \in {"down", "cold", "live", "retiring", "stuck", "closing"},
         UNCHANGED <<file, log, seeded, init, cursor, materialized,
                     repairing, history, interference>>,
         k = "drain" \/ call["drain"] # "idle" => phase' \in {"retiring", "closing"}
  PROVE  SessionInv'
<1> USE DEF file, repairing, history
<1>1. /\ call[k] = "idle" /\ call' = [call EXCEPT ![k] = "init"]
      /\ mark' = [mark EXCEPT ![k] = Len(log)] /\ w' = CancelAutomaticWait(w)
  BY DEF AskFlush
<1>2. /\ w' \in Controller /\ w'.active = w.active /\ w'.pending = w.pending
      /\ w'.paused = w.paused /\ w'.barrier = w.barrier
  BY <1>1, UpFacts, CancelOrdered
<1>3. InOrder(w', Behind, Len(log))
  BY <1>2, UpFacts, SameOrder
<1>4. RestInv' /\ QueueInv' /\ FileInv' /\ RepairInv' /\ RanIsRecorded'
  BY <1>2, <1>3, QuietKeeps
<1>5. TypeOK'
  BY <1>1, <1>2, UpFacts DEF SessionInv, TypeOK
<1>6. FlushInv'
  <2>1. \A i \in Callers : mark'[i] <= Len(log)
    BY <1>1, UpFacts DEF SessionInv, FlushInv, TypeOK
  <2>2. call'["drain"] # "idle" => phase' \in {"retiring", "closing"}
    BY <1>1 DEF SessionInv, TypeOK, Callers
  <2>3. \A i \in Callers : call'[i] = "ok" => call[i] = "ok"
    BY <1>1 DEF SessionInv, TypeOK
  <2> QED
    BY <1>2, <2>1, <2>2, <2>3 DEF SessionInv, FlushInv, Callers
<1>7. AckedSurvives'
  BY DEF SessionInv, AckedSurvives
<1>8. NothingStranded'
  <2>1. call'[k] = "init"
    BY <1>1 DEF SessionInv, TypeOK
  <2>2. \A i \in Callers : call'[i] = "barrier" => call[i] = "barrier"
    BY <1>1 DEF SessionInv, TypeOK
  <2> QED
    BY <1>2, <2>1, <2>2 DEF SessionInv, NothingStranded
<1> QED
  BY <1>4, <1>5, <1>6, <1>7, <1>8 DEF SessionInv

LEMMA CheckpointKeeps ==
  ASSUME SessionInv, Checkpoint \/ ReaderFlush PROVE SessionInv'
<1>1. /\ phase = "live" /\ phase' = phase /\ Up /\ Up'
      /\ AskFlush("loop") \/ AskFlush("reader")
      /\ UNCHANGED <<file, memory, repairing, history, interference>>
  BY DEF Checkpoint, ReaderFlush, memory, Up
<1>2. call["drain"] = "idle"
  BY <1>1 DEF SessionInv, FlushInv
<1> QED
  BY <1>1, <1>2, AskKeeps DEF Callers, memory

LEMMA EndKeeps == ASSUME SessionInv, Retire \/ Close PROVE SessionInv'
<1>1. /\ phase \in {"live", "stuck"} /\ phase' \in {"retiring", "closing"} /\ Up /\ Up'
      /\ AskFlush("drain")
      /\ UNCHANGED <<file, log, seeded, init, cursor, materialized,
                     repairing, history, interference>>
  BY DEF Retire, Close, Up
<1> QED
  BY <1>1, AskKeeps DEF Callers

LEMMA AnswerKeeps ==
  ASSUME SessionInv, Up, UNCHANGED <<file, memory, repairing, ran, interference>>,
         w' \in Controller, InOrder(w', Behind, Len(log)),
         w'.barrier # "none" => init = "done",
         w'.barrier = "failed" => w'.paused,
         call' \in [Callers -> {"idle", "init", "barrier", "ok", "failed"}],
         mark' \in [Callers -> Nat], \A k \in Callers : mark'[k] <= Len(log),
         acked' \in Nat, acked' <= Len(lines),
         \A k \in Callers : call[k] = "idle" => call'[k] = "idle",
         \A k \in Callers : call'[k] = "ok" /\ call[k] # "ok" => Len(log) <= Len(lines),
         NothingStranded'
  PROVE  SessionInv'
<1> USE DEF file, memory, repairing
<1>1. Up'
  BY DEF Up
<1>2. RestInv' /\ QueueInv' /\ FileInv' /\ RepairInv' /\ RanIsRecorded'
  BY <1>1, QuietKeeps
<1>3. TypeOK'
  BY DEF SessionInv, TypeOK
<1>4. FlushInv'
  <2>1. call'["drain"] # "idle" => phase' \in {"retiring", "closing"}
    BY DEF SessionInv, FlushInv, Callers
  <2>2. call'["drain"] = "ok" => Len(log') <= Len(lines')
    BY DEF SessionInv, FlushInv, Callers
  <2>3. call'["loop"] = "ok" =>
          \A i \in 1..Len(log') : log'[i] # "note" => i <= Len(lines')
    <3>1. CASE call["loop"] = "ok"
      BY <3>1 DEF SessionInv, FlushInv
    <3>2. CASE call'["loop"] = "ok" /\ call["loop"] # "ok"
      <4>1. Len(log) <= Len(lines)
        BY <3>2 DEF Callers
      <4> QED
        BY <4>1, UpFacts
    <3> QED
      BY <3>1, <3>2
  <2> QED
    BY <2>1, <2>2, <2>3 DEF FlushInv
<1>5. AckedSurvives'
  BY DEF AckedSurvives
<1> QED
  BY <1>2, <1>3, <1>4, <1>5 DEF SessionInv

LEMMA JoinKeeps ==
  ASSUME SessionInv, NEW k \in Callers, JoinFlush(k) PROVE SessionInv'
<1>1. /\ call[k] = "init" /\ init # "pending"
      /\ UNCHANGED <<file, memory, repairing, ran, interference>>
  BY DEF JoinFlush
<1>2. Up
  BY <1>1 DEF SessionInv, RestInv
<1>3. /\ call \in [Callers -> {"idle", "init", "barrier", "ok", "failed"}]
      /\ mark \in [Callers -> Nat] /\ acked \in Nat /\ acked <= Len(lines)
      /\ \A i \in Callers : mark[i] <= Len(log)
      /\ init \in {"pending", "done", "failed"}
  BY DEF SessionInv, TypeOK, FlushInv, AckedSurvives
<1>4. \A i \in Callers : call[i] = "barrier" => w.barrier # "none"
  BY DEF SessionInv, NothingStranded
<1>5. UNCHANGED <<lines, log, init>>
  BY <1>1 DEF file, memory
<1>6. CASE init = "failed"
  <2>1. w' = CancelAutomaticWait(w) /\ Settle({k}, "failed")
    BY <1>6 DEF JoinFlush
  <2>2. /\ w' \in Controller /\ w'.active = w.active /\ w'.pending = w.pending
        /\ w'.paused = w.paused /\ w'.barrier = w.barrier
    BY <1>2, <2>1, UpFacts, CancelOrdered
  <2>3. InOrder(w', Behind, Len(log))
    BY <1>2, <2>2, UpFacts, SameOrder
  <2>4. w.barrier = "none"
    BY <1>6 DEF SessionInv, FlushInv
  <2>5. /\ call' \in [Callers -> {"idle", "init", "barrier", "ok", "failed"}]
        /\ mark' \in [Callers -> Nat] /\ \A i \in Callers : mark'[i] <= Len(log)
        /\ acked' \in Nat /\ acked' <= Len(lines)
        /\ \A i \in Callers :
             call'[i] = IF i = k THEN Answered(i, "failed") ELSE call[i]
    BY <1>2, <1>5, <2>1, SettleAnswers
  <2>6. NothingStranded'
    BY <1>4, <1>5, <1>6, <2>2, <2>5 DEF NothingStranded, Answered
  <2> QED
    BY <1>1, <1>2, <2>2, <2>3, <2>4, <2>5, <2>6, AnswerKeeps DEF Answered
<1>7. CASE init = "done"
  <2>1. w' = Flush(w)
    BY <1>7 DEF JoinFlush
  <2>2. /\ w' \in Controller /\ InOrder(w', Behind, Len(log))
        /\ w'.barrier = "none" => w'.active = <<>> /\ w'.pending = <<>>
                                  /\ Behind = Len(log)
        /\ w'.barrier = "failed" => w.barrier = "failed" /\ w' = w
    BY <1>2, <2>1, UpFacts, FlushOrdered
  <2>3. w'.barrier = "failed" => w'.paused
    BY <2>2 DEF SessionInv, FlushInv
  <2>4. CASE w'.barrier = "none"
    <3>1. Settle({k}, "ok") /\ Len(log) = Len(lines)
      BY <1>2, <1>7, <2>2, <2>4, AllStored DEF JoinFlush
    <3>2. /\ call' \in [Callers -> {"idle", "init", "barrier", "ok", "failed"}]
          /\ mark' \in [Callers -> Nat] /\ \A i \in Callers : mark'[i] <= Len(log)
          /\ acked' \in Nat /\ acked' <= Len(lines)
          /\ \A i \in Callers :
               call'[i] = IF i = k THEN Answered(i, "ok") ELSE call[i]
      <4>1. Len(log) <= Len(lines)
        BY <1>2, <3>1, UpFacts
      <4> QED
        BY <1>2, <1>5, <3>1, <4>1, SettleAnswers
    <3>3. w.barrier = "none"
      <4>1. w.barrier # "none" => w' = w
        BY <2>1 DEF Flush
      <4> QED
        BY <2>4, <4>1
    <3>4. NothingStranded'
      BY <1>4, <2>2, <2>4, <3>2, <3>3 DEF NothingStranded, Answered
    <3>5. Len(log) <= Len(lines)
      BY <1>2, <3>1, UpFacts
    <3> QED
      BY <1>1, <1>2, <2>2, <2>3, <2>4, <3>2, <3>4, <3>5, AnswerKeeps
  <2>5. CASE w'.barrier # "none"
    <3>1. call' = [call EXCEPT ![k] = "barrier"] /\ UNCHANGED <<mark, acked>>
      BY <1>7, <2>5 DEF JoinFlush
    <3>2. NothingStranded'
      BY <2>5 DEF NothingStranded
    <3>3. /\ call' \in [Callers -> {"idle", "init", "barrier", "ok", "failed"}]
          /\ \A i \in Callers : call'[i] = IF i = k THEN "barrier" ELSE call[i]
      BY <1>3, <3>1
    <3> QED
      BY <1>1, <1>2, <1>3, <1>7, <2>2, <2>3, <3>1, <3>2, <3>3, AnswerKeeps
  <2> QED
    BY <2>4, <2>5
<1> QED
  BY <1>1, <1>3, <1>6, <1>7

LEMMA DrainStepKeeps == ASSUME SessionInv, DrainStep PROVE SessionInv'
<1> DEFINE waiters == IF w'.barrier = "none"
                      THEN {k \in Callers : call[k] = "barrier"} ELSE {}
           outcome == IF w.barrier = "failed" THEN "failed" ELSE "ok"
<1>1. /\ w.active = <<>> /\ w.barrier # "none" /\ w' = DrainBarrier(w)
      /\ Settle(waiters, outcome)
      /\ UNCHANGED <<file, memory, repairing, ran, interference>>
  BY DEF DrainStep
<1>2. init = "done" /\ (w.barrier = "failed" => w.paused)
  BY <1>1 DEF SessionInv, FlushInv
<1>3. Up
  BY <1>1 DEF SessionInv, RestInv, Idle
<1>4. /\ w' \in Controller /\ InOrder(w', Behind, Len(log))
      /\ w'.barrier \in {"none", "drain"}
      /\ w.barrier = "failed" => w'.barrier = "none" /\ w'.paused
      /\ w'.barrier = "none" /\ w.barrier # "failed" =>
           w'.active = <<>> /\ w'.pending = <<>> /\ Behind = Len(log)
  BY <1>1, <1>2, <1>3, UpFacts, DrainBarrierOrdered
<1>5. UNCHANGED <<lines, log>>
  BY <1>1 DEF file, memory
<1>6. w'.barrier = "none" /\ w.barrier # "failed" => Len(log) <= Len(lines)
  BY <1>2, <1>3, <1>4, AllStored, UpFacts
<1>7. /\ call' \in [Callers -> {"idle", "init", "barrier", "ok", "failed"}]
      /\ mark' \in [Callers -> Nat] /\ \A k \in Callers : mark'[k] <= Len(log)
      /\ acked' \in Nat /\ acked' <= Len(lines)
      /\ \A k \in Callers :
           call'[k] = IF k \in waiters THEN Answered(k, outcome) ELSE call[k]
  <2>1. CASE waiters = {}
    <3>1. /\ call' = [k \in Callers |-> call[k]] /\ mark' = [k \in Callers |-> mark[k]]
          /\ acked' = acked
      BY <1>1, <2>1 DEF Settle
    <3> QED
      BY <2>1, <3>1 DEF SessionInv, TypeOK, FlushInv, AckedSurvives
  <2>2. CASE waiters # {}
    <3>1. waiters \in SUBSET Callers /\ outcome \in {"ok", "failed"}
      OBVIOUS
    <3>2. outcome = "ok" => Len(log) <= Len(lines)
      BY <1>6, <2>2
    <3> HIDE DEF waiters, outcome
    <3> QED
      BY <1>1, <1>3, <1>5, <3>1, <3>2, SettleAnswers
  <2> QED
    BY <2>1, <2>2
<1>8. NothingStranded'
  <2>1. w'.pending # <<>> => w'.barrier # "none" \/ w'.paused
    BY <1>4
  <2>2. \A k \in Callers : call'[k] = "barrier" => w'.barrier # "none"
    BY <1>7 DEF Answered
  <2> QED
    BY <2>1, <2>2 DEF NothingStranded
<1>9. /\ \A k \in Callers : call[k] = "idle" => call'[k] = "idle"
      /\ \A k \in Callers : call'[k] = "ok" /\ call[k] # "ok" => Len(log) <= Len(lines)
  BY <1>6, <1>7 DEF Answered
<1> HIDE DEF waiters, outcome
<1> QED
  BY <1>1, <1>2, <1>3, <1>4, <1>7, <1>8, <1>9, AnswerKeeps

LEMMA DeadlineKeeps == ASSUME SessionInv, Deadline PROVE SessionInv'
<1>1. /\ w.timer /\ w' = OnDeadline(w)
      /\ UNCHANGED <<file, memory, flushes, repairing, history, interference>>
  BY DEF Deadline
<1>2. Up
  BY <1>1 DEF SessionInv, RestInv, Idle
<1>3. /\ w' \in Controller /\ InOrder(w', Behind, Len(log))
      /\ w'.barrier = w.barrier /\ w'.paused = w.paused
      /\ w'.pending = <<>> \/ (w'.expired /\ w'.active # <<>>)
  BY <1>1, <1>2, UpFacts, DeadlineOrdered
<1>4. NothingStranded'
  BY <1>1, <1>3 DEF SessionInv, NothingStranded, flushes
<1> QED
  BY <1>1, <1>2, <1>3, <1>4, AnswerKeeps
     DEF SessionInv, TypeOK, FlushInv, AckedSurvives, flushes, history

-----------------------------------------------------------------------------
(* What is written to the file.                                            *)

(* A batch of positions behind the durable ones, as events.                *)
LEMMA EventsAre ==
  ASSUME SessionInv, Up, NEW batch \in Seq(Nat), Continues(batch, cursor),
         cursor + Len(batch) <= Len(log)
  PROVE  /\ Events(batch) \in Seq(Kinds) /\ Len(Events(batch)) = Len(batch)
         /\ \A i \in 1..Len(batch) : Events(batch)[i] = log[cursor + i]
<1>1. /\ cursor \in Nat /\ log \in Seq(Kinds) /\ Len(log) \in Nat
      /\ Len(batch) \in Nat /\ DOMAIN batch = 1..Len(batch)
  BY UpFacts
<1>2. Events(batch) = [i \in 1..Len(batch) |-> log[batch[i]]]
  BY <1>1 DEF Events
<1>3. \A i \in 1..Len(batch) : batch[i] = cursor + i /\ batch[i] \in 1..Len(log)
  BY <1>1 DEF Continues
<1>4. \A i \in 1..Len(batch) : log[batch[i]] \in Kinds
  BY <1>1, <1>3
<1>5. Events(batch) \in [1..Len(batch) -> Kinds]
  BY <1>2, <1>4
<1> QED
  BY <1>1, <1>2, <1>3, <1>5

LEMMA SeedsAre ==
  ASSUME SessionInv, Up, init = "pending"
  PROVE  /\ SeedBatch \in Seq(Nat) /\ Continues(SeedBatch, cursor)
         /\ cursor + Len(SeedBatch) = seeded /\ seeded <= Len(log)
<1>1. cursor \in Nat /\ seeded \in Nat /\ cursor <= seeded /\ seeded <= Len(log)
  BY UpFacts DEF SessionInv, FileInv
<1>2. SeedBatch = [i \in 1..(seeded - cursor) |-> cursor + i] /\ seeded - cursor \in Nat
  BY <1>1 DEF SeedBatch
<1>3. SeedBatch \in [1..(seeded - cursor) -> Nat]
  BY <1>1, <1>2
<1>4. SeedBatch \in Seq(Nat) /\ Len(SeedBatch) = seeded - cursor
  BY <1>2, <1>3
<1> QED
  BY <1>1, <1>2, <1>4 DEF Continues

(* Nothing of a batch that a write was started with is stored already.     *)
LEMMA FreshIsAll ==
  ASSUME SessionInv, Up, init = "done" PROVE Fresh(w.active) = w.active
<1> DEFINE stored == {i \in DOMAIN w.active : w.active[i] <= cursor}
<1>1. w.active \in Seq(Nat) /\ cursor \in Nat /\ Continues(w.active, cursor)
  BY UpFacts, QueueTypes DEF InOrder, Behind
<1>2. stored = {}
  BY <1>1 DEF Continues
<1>3. Cardinality(stored) = 0
  BY <1>2, FS_EmptySet
<1>4. Fresh(w.active) = SubSeq(w.active, Cardinality(stored) + 1, Len(w.active))
  BY DEF Fresh
<1> HIDE DEF stored
<1>5. Fresh(w.active) = SubSeq(w.active, 1, Len(w.active))
  BY <1>3, <1>4
<1> QED
  BY <1>1, <1>5, SubSeqFull

LEMMA ActiveIsNext ==
  ASSUME SessionInv, Up, init = "done"
  PROVE  /\ w.active \in Seq(Nat) /\ Continues(w.active, cursor)
         /\ cursor + Len(w.active) \in Nat
         /\ cursor + Len(w.active) <= Len(log)
<1>1. /\ w.active \in Seq(Nat) /\ Len(w.active) \in Nat /\ Len(w.pending) \in Nat
      /\ cursor \in Nat /\ Behind = cursor
  BY UpFacts, QueueTypes DEF Behind
<1>2. /\ Continues(w.active, cursor)
      /\ Len(log) = cursor + Len(w.active) + Len(w.pending)
  BY <1>1, UpFacts, QueueSize
<1>3. /\ cursor + Len(w.active) \in Nat
      /\ cursor + Len(w.active) <= cursor + Len(w.active) + Len(w.pending)
  BY <1>1, Sizes
<1> QED
  BY <1>1, <1>2, <1>3

LEMMA ConcatEvents ==
  ASSUME NEW s \in Seq(Kinds), NEW t \in Seq(Kinds)
  PROVE  /\ s \o t \in Seq(Kinds) /\ Len(s \o t) = Len(s) + Len(t)
         /\ \A i \in 1..Len(s) : (s \o t)[i] = s[i]
         /\ \A i \in 1..Len(s) + Len(t) : i > Len(s) => (s \o t)[i] = t[i - Len(s)]
BY ConcatProperties

(* Writing such a batch keeps the file a prefix of the log, and all that   *)
(* was in it.                                                              *)
LEMMA StoreExtends ==
  ASSUME SessionInv, Up, NEW batch \in Seq(Nat), Continues(batch, cursor),
         cursor + Len(batch) <= Len(log), Len(lines) = cursor,
         lines' = lines \o Events(batch)
  PROVE  /\ lines' \in Seq(Kinds) /\ Len(lines') = cursor + Len(batch)
         /\ Len(lines') \in Nat /\ Len(lines) <= Len(lines')
         /\ \A i \in 1..Len(lines') : lines'[i] = log[i]
         /\ \A i \in 1..Len(lines) : lines'[i] = lines[i]
<1>1. /\ lines \in Seq(Kinds) /\ cursor \in Nat /\ Len(batch) \in Nat
      /\ \A i \in 1..Len(lines) : lines[i] = log[i]
  BY UpFacts DEF SessionInv, FileInv
<1>2. /\ Events(batch) \in Seq(Kinds) /\ Len(Events(batch)) = Len(batch)
      /\ \A i \in 1..Len(batch) : Events(batch)[i] = log[cursor + i]
  BY EventsAre
<1>3. /\ lines' \in Seq(Kinds) /\ Len(lines') = cursor + Len(batch)
      /\ \A i \in 1..Len(lines) : lines'[i] = lines[i]
      /\ \A i \in 1..(cursor + Len(batch)) :
           i > cursor => lines'[i] = Events(batch)[i - cursor]
  <2> DEFINE new == Events(batch)
  <2> HIDE DEF new
  <2>1. new \in Seq(Kinds) /\ Len(new) = Len(batch) /\ lines' = lines \o new
    BY <1>2 DEF new
  <2>2. /\ lines \o new \in Seq(Kinds) /\ Len(lines \o new) = Len(lines) + Len(new)
        /\ \A i \in 1..Len(lines) : (lines \o new)[i] = lines[i]
        /\ \A i \in 1..Len(lines) + Len(new) :
             i > Len(lines) => (lines \o new)[i] = new[i - Len(lines)]
    BY <1>1, <2>1, ConcatEvents
  <2> QED
    BY <2>1, <2>2 DEF new
<1>4. ASSUME NEW i \in 1..Len(lines') PROVE lines'[i] = log[i]
  <2>1. CASE i <= cursor
    BY <1>1, <1>3, <2>1
  <2>2. CASE i > cursor
    <3>1. i - cursor \in 1..Len(batch) /\ cursor + (i - cursor) = i
      BY <1>1, <1>3, <2>2
    <3>2. Events(batch)[i - cursor] = log[cursor + (i - cursor)]
      BY <1>2, <3>1
    <3> QED
      BY <1>3, <2>2, <3>1, <3>2, <1>1
  <2> QED
    BY <1>1, <1>3, <2>1, <2>2
<1> QED
  BY <1>1, <1>3, <1>4

(* What a longer file keeps.                                               *)
LEMMA LongerKeeps ==
  ASSUME SessionInv, lines' \in Seq(Kinds), Len(lines) <= Len(lines'),
         \A i \in 1..Len(lines) : lines'[i] = lines[i], UNCHANGED history
  PROVE  AckedSurvives' /\ RanIsRecorded' /\ acked <= Len(lines)
<1>1. /\ Len(lines) \in Nat /\ Len(lines') \in Nat /\ acked \in Nat /\ ran \subseteq Nat
      /\ acked <= Len(lines) /\ \A at \in ran : at \in 1..Len(lines) /\ lines[at] = "call"
      /\ DOMAIN lines' = 1..Len(lines')
  BY DEF SessionInv, TypeOK, AckedSurvives, RanIsRecorded
<1> QED
  BY <1>1 DEF AckedSurvives, RanIsRecorded, history

LEMMA StoreWrites ==
  ASSUME SessionInv, Up, NEW batch \in Seq(Nat), Continues(batch, cursor),
         cursor + Len(batch) <= Len(log), Store(batch)
  PROVE  /\ lines' \in Seq(Kinds) /\ Len(lines') \in Nat
         /\ Len(lines) <= Len(lines') /\ Len(lines') <= Len(log)
         /\ \A i \in 1..Len(lines') : lines'[i] = log[i]
         /\ \A i \in 1..Len(lines) : lines'[i] = lines[i]
         /\ cursor' = cursor + Len(batch) /\ cursor' \in Nat
         /\ materialized' \in BOOLEAN
         /\ IF materialized' THEN Len(lines') = cursor' /\ cursor' > 0 ELSE cursor' = 0
         /\ UNCHANGED <<tail, torn>>
<1>1. /\ cursor \in Nat /\ Len(batch) \in Nat /\ lines \in Seq(Kinds)
      /\ Len(lines) \in Nat /\ Len(log) \in Nat /\ materialized \in BOOLEAN
      /\ Len(lines) <= Len(log) /\ \A i \in 1..Len(lines) : lines[i] = log[i]
      /\ IF materialized THEN Len(lines) = cursor /\ cursor > 0 ELSE cursor = 0
  BY UpFacts DEF SessionInv, FileInv, TypeOK
<1>2. /\ batch # <<>> => ~Refused
      /\ lines' = lines \o Events(batch) /\ cursor' = cursor + Len(batch)
      /\ materialized' = (materialized \/ batch # <<>>)
      /\ UNCHANGED <<tail, torn>>
  BY DEF Store
<1>3. CASE batch = <<>>
  <2>1. Events(batch) \in Seq(Kinds) /\ Len(Events(batch)) = 0
    BY <1>3, EventsAre
  <2>2. Events(batch) = <<>>
    BY <2>1, EmptySeq
  <2>3. lines' = lines /\ cursor' = cursor /\ materialized' = materialized
    BY <1>1, <1>2, <1>3, <2>2, ConcatEmptySeq
  <2> QED
    BY <1>1, <1>2, <2>3
<1>4. CASE batch # <<>>
  <2>1. Len(lines) = cursor
    BY <1>1, <1>2, <1>4 DEF Refused
  <2>2. /\ lines' \in Seq(Kinds) /\ Len(lines') = cursor + Len(batch)
        /\ Len(lines') \in Nat /\ Len(lines) <= Len(lines')
        /\ \A i \in 1..Len(lines') : lines'[i] = log[i]
        /\ \A i \in 1..Len(lines) : lines'[i] = lines[i]
    BY <1>2, <2>1, StoreExtends
  <2>3. Len(batch) > 0 /\ materialized' = TRUE
    <3>1. Len(batch) \in Nat \ {0}
      BY <1>4, EmptySeq
    <3>2. materialized' = (materialized \/ TRUE)
      BY <1>2, <1>4
    <3>3. materialized' = TRUE
      BY <3>2
    <3>4. Len(batch) > 0
      BY <3>1
    <3> QED
      BY <3>3, <3>4
  <2> QED
    BY <1>1, <1>2, <2>1, <2>2, <2>3
<1> QED
  BY <1>3, <1>4

LEMMA FailureWrites ==
  ASSUME SessionInv, Up, NEW batch \in Seq(Nat), Continues(batch, cursor),
         cursor + Len(batch) <= Len(log), StoreFails(batch)
  PROVE  /\ lines' \in Seq(Kinds) /\ Len(lines') \in Nat
         /\ Len(lines) <= Len(lines') /\ Len(lines') <= Len(log)
         /\ \A i \in 1..Len(lines') : lines'[i] = log[i]
         /\ \A i \in 1..Len(lines) : lines'[i] = lines[i]
         /\ materialized => Len(lines') = Len(lines)
         /\ UNCHANGED <<tail, torn, cursor, materialized>>
         /\ interference' \in [{"crash", "fault"} -> Nat]
<1>1. /\ lines \in Seq(Kinds) /\ Len(lines) \in Nat /\ Len(log) \in Nat
      /\ cursor \in Nat /\ Len(batch) \in Nat
      /\ Len(lines) <= Len(log) /\ \A i \in 1..Len(lines) : lines[i] = log[i]
      /\ ~materialized => cursor = 0
      /\ interference \in [{"crash", "fault"} -> Nat]
  BY UpFacts DEF SessionInv, FileInv, TypeOK
<1>2. /\ UNCHANGED <<tail, torn, cursor, materialized>>
      /\ interference' \in [{"crash", "fault"} -> Nat]
  BY <1>1 DEF StoreFails, Interfere
<1>3. CASE lines' = lines
  BY <1>1, <1>2, <1>3
<1>4. CASE ~materialized /\ lines = <<>> /\ lines' = Events(batch)
  <2>1. /\ Events(batch) \in Seq(Kinds) /\ Len(Events(batch)) = Len(batch)
        /\ \A i \in 1..Len(batch) : Events(batch)[i] = log[cursor + i]
    BY EventsAre
  <2>2. cursor = 0 /\ Len(lines) = 0
    BY <1>1, <1>4
  <2>3. \A i \in 1..Len(lines') : lines'[i] = log[i]
    BY <1>1, <1>4, <2>1, <2>2
  <2> QED
    BY <1>1, <1>2, <1>4, <2>1, <2>2, <2>3
<1>5. lines' = lines \/ (~materialized /\ lines = <<>> /\ lines' = Events(batch))
  BY DEF StoreFails
<1> QED
  BY <1>3, <1>4, <1>5

-----------------------------------------------------------------------------
(* Writing keeps the invariant.                                            *)

LEMMA WritingKeeps ==
  ASSUME SessionInv, Up,
         lines' \in Seq(Kinds), Len(lines) <= Len(lines'), Len(lines') <= Len(log),
         \A i \in 1..Len(lines') : lines'[i] = log[i],
         \A i \in 1..Len(lines) : lines'[i] = lines[i],
         cursor' \in Nat, materialized' \in BOOLEAN,
         IF materialized' THEN Len(lines') = cursor' /\ cursor' > 0 ELSE cursor' = 0,
         init' \in {"pending", "done", "failed"},
         init' # "done" => cursor' <= seeded,
         w.barrier # "none" => init' = "done",
         interference' \in [{"crash", "fault"} -> Nat],
         UNCHANGED <<tail, torn, phase, log, seeded, flushes, repairing, history>>,
         w' \in Controller, InOrder(w', Behind', Len(log)),
         w'.barrier = w.barrier \/ (w.barrier = "drain" /\ w'.barrier = "failed"),
         w'.barrier = "failed" => w'.paused,
         NothingStranded'
  PROVE  SessionInv'
<1>1. /\ Len(lines) \in Nat /\ Len(lines') \in Nat /\ Len(log) \in Nat
      /\ seeded <= Len(log)
  BY UpFacts DEF SessionInv, FileInv
<1>2. TypeOK'
  BY DEF SessionInv, TypeOK, flushes, repairing, history
<1>3. Up'
  BY DEF Up
<1>4. RestInv' /\ QueueInv'
  BY <1>3 DEF RestInv, QueueInv
<1>5. FileInv'
  BY <1>1 DEF FileInv
<1>6. RepairInv'
  BY <1>3, UpFacts DEF RepairInv, repairing
<1>7. FlushInv'
  <2>1. call["drain"] = "ok" => Len(log) <= Len(lines')
    BY <1>1 DEF SessionInv, FlushInv
  <2>2. call["loop"] = "ok" =>
          \A i \in 1..Len(log) : log[i] # "note" => i <= Len(lines')
    BY <1>1 DEF SessionInv, FlushInv
  <2> QED
    BY <2>1, <2>2 DEF SessionInv, FlushInv, flushes
<1>8. AckedSurvives' /\ RanIsRecorded'
  BY LongerKeeps
<1> QED
  BY <1>2, <1>4, <1>5, <1>6, <1>7, <1>8 DEF SessionInv

LEMMA InitSucceedsKeeps == ASSUME SessionInv, InitSucceeds PROVE SessionInv'
<1>1. /\ init = "pending" /\ init' = "done" /\ Store(SeedBatch)
      /\ UNCHANGED <<phase, log, seeded, w, flushes, repairing, history, interference>>
  BY DEF InitSucceeds
<1>2. Up
  BY <1>1 DEF SessionInv, RestInv
<1>3. /\ SeedBatch \in Seq(Nat) /\ Continues(SeedBatch, cursor)
      /\ cursor + Len(SeedBatch) = seeded /\ seeded <= Len(log)
  BY <1>1, <1>2, SeedsAre
<1>4. /\ lines' \in Seq(Kinds) /\ Len(lines) <= Len(lines') /\ Len(lines') <= Len(log)
      /\ \A i \in 1..Len(lines') : lines'[i] = log[i]
      /\ \A i \in 1..Len(lines) : lines'[i] = lines[i]
      /\ cursor' = seeded /\ cursor' \in Nat /\ materialized' \in BOOLEAN
      /\ IF materialized' THEN Len(lines') = cursor' /\ cursor' > 0 ELSE cursor' = 0
      /\ UNCHANGED <<tail, torn>>
  BY <1>1, <1>2, <1>3, StoreWrites
<1>5. Behind' = Behind
  BY <1>1, <1>4 DEF Behind
<1>6. w \in Controller /\ InOrder(w, Behind, Len(log))
  BY <1>2, UpFacts
<1>7. NothingStranded'
  BY <1>1 DEF SessionInv, NothingStranded, flushes
<1>8. /\ w.barrier = "failed" => w.paused
      /\ interference \in [{"crash", "fault"} -> Nat]
  BY DEF SessionInv, FlushInv, TypeOK
<1> QED
  BY <1>1, <1>2, <1>4, <1>5, <1>6, <1>7, <1>8, WritingKeeps

LEMMA InitFailsKeeps == ASSUME SessionInv, InitFails PROVE SessionInv'
<1>1. /\ init = "pending" /\ init' = "failed"
      /\ UNCHANGED <<phase, log, seeded, w, flushes, repairing, history>>
  BY DEF InitFails
<1>2. Up
  BY <1>1 DEF SessionInv, RestInv
<1>3. /\ SeedBatch \in Seq(Nat) /\ Continues(SeedBatch, cursor)
      /\ cursor + Len(SeedBatch) <= Len(log) /\ cursor <= seeded /\ cursor \in Nat
  BY <1>1, <1>2, SeedsAre, UpFacts DEF SessionInv, FileInv
<1>4. /\ lines' \in Seq(Kinds) /\ Len(lines) <= Len(lines') /\ Len(lines') <= Len(log)
      /\ \A i \in 1..Len(lines') : lines'[i] = log[i]
      /\ \A i \in 1..Len(lines) : lines'[i] = lines[i]
      /\ materialized => Len(lines') = Len(lines)
      /\ UNCHANGED <<tail, torn, cursor, materialized>>
      /\ interference' \in [{"crash", "fault"} -> Nat]
  <2>1. CASE StoreFails(SeedBatch)
    BY <1>2, <1>3, <2>1, FailureWrites
  <2>2. CASE Interfere("fault", MaxFaults) /\ UNCHANGED <<file, cursor, materialized>>
    <3>1. UNCHANGED <<lines, tail, torn, cursor, materialized>>
      BY <2>2 DEF file
    <3>2. interference' \in [{"crash", "fault"} -> Nat]
      BY <2>2 DEF Interfere, SessionInv, TypeOK
    <3>3. /\ lines \in Seq(Kinds) /\ Len(lines) \in Nat /\ Len(lines) <= Len(log)
          /\ \A i \in 1..Len(lines) : lines[i] = log[i]
      BY <1>2, UpFacts DEF SessionInv, FileInv
    <3> QED
      BY <3>1, <3>2, <3>3
  <2> QED
    BY <2>1, <2>2 DEF InitFails
<1>5. /\ materialized \in BOOLEAN
      /\ IF materialized THEN Len(lines) = cursor /\ cursor > 0 ELSE cursor = 0
      /\ w.barrier = "none"
  BY <1>1, <1>2 DEF SessionInv, TypeOK, FileInv, FlushInv
<1>6. Behind' = Behind
  BY <1>1, <1>4 DEF Behind
<1>7. w \in Controller /\ InOrder(w, Behind, Len(log))
  BY <1>2, UpFacts
<1>8. NothingStranded'
  BY <1>1 DEF SessionInv, NothingStranded, flushes
<1> QED
  BY <1>1, <1>2, <1>3, <1>4, <1>5, <1>6, <1>7, <1>8, WritingKeeps

LEMMA WriteStoresKeeps == ASSUME SessionInv, WriteStores PROVE SessionInv'
<1>1. /\ w.active # <<>> /\ init = "done" /\ Store(Fresh(w.active))
      /\ w' = WriteSucceeded(w)
      /\ UNCHANGED <<phase, log, seeded, init, flushes, repairing, history, interference>>
  BY DEF WriteStores
<1>2. Up
  BY <1>1 DEF SessionInv, RestInv, Idle
<1>3. /\ w.active \in Seq(Nat) /\ Continues(w.active, cursor)
      /\ cursor + Len(w.active) <= Len(log) /\ Store(w.active)
  BY <1>1, <1>2, ActiveIsNext, FreshIsAll
<1>4. /\ lines' \in Seq(Kinds) /\ Len(lines) <= Len(lines') /\ Len(lines') <= Len(log)
      /\ \A i \in 1..Len(lines') : lines'[i] = log[i]
      /\ \A i \in 1..Len(lines) : lines'[i] = lines[i]
      /\ cursor' = cursor + Len(w.active) /\ cursor' \in Nat
      /\ materialized' \in BOOLEAN
      /\ IF materialized' THEN Len(lines') = cursor' /\ cursor' > 0 ELSE cursor' = 0
      /\ UNCHANGED <<tail, torn>>
  BY <1>2, <1>3, StoreWrites
<1>5. Behind' = Behind + Len(w.active)
  BY <1>1, <1>4 DEF Behind
<1>6. /\ w' \in Controller /\ InOrder(w', Behind', Len(log))
      /\ w'.barrier = w.barrier /\ w'.paused = w.paused
  BY <1>1, <1>2, <1>5, UpFacts, WriteSucceededOrdered
<1>7. NothingStranded'
  <2>1. CASE w.barrier = "none" /\ w.expired
    <3>1. w'.pending = <<>>
      BY <1>1, <1>2, <2>1, UpFacts
         DEF WriteSucceeded, StartWrite, CancelAutomaticWait, Controller
    <3> QED
      BY <1>1, <1>6, <3>1 DEF SessionInv, NothingStranded, flushes
  <2>2. CASE ~(w.barrier = "none" /\ w.expired)
    <3>1. w'.pending = w.pending /\ w'.timer = w.timer
      BY <1>1, <1>2, <2>2, UpFacts DEF WriteSucceeded, Controller
    <3> QED
      BY <1>1, <1>6, <2>2, <3>1 DEF SessionInv, NothingStranded, flushes
  <2> QED
    BY <2>1, <2>2
<1>8. /\ w.barrier = "failed" => w.paused
      /\ interference \in [{"crash", "fault"} -> Nat]
  BY DEF SessionInv, FlushInv, TypeOK
<1> QED
  BY <1>1, <1>2, <1>4, <1>6, <1>7, <1>8, WritingKeeps

LEMMA WriteIsLostKeeps == ASSUME SessionInv, WriteIsLost PROVE SessionInv'
<1>1. /\ w.active # <<>> /\ w' = WriteFailed(w)
      /\ \/ init = "done" /\ StoreFails(Fresh(w.active))
         \/ init = "failed" /\ UNCHANGED <<file, cursor, materialized, interference>>
      /\ UNCHANGED <<phase, log, seeded, init, flushes, repairing, history>>
  BY DEF WriteIsLost
<1>2. Up
  BY <1>1 DEF SessionInv, RestInv, Idle
<1>3. /\ lines' \in Seq(Kinds) /\ Len(lines) <= Len(lines') /\ Len(lines') <= Len(log)
      /\ \A i \in 1..Len(lines') : lines'[i] = log[i]
      /\ \A i \in 1..Len(lines) : lines'[i] = lines[i]
      /\ materialized => Len(lines') = Len(lines)
      /\ UNCHANGED <<tail, torn, cursor, materialized>>
      /\ interference' \in [{"crash", "fault"} -> Nat]
  <2>1. CASE init = "done" /\ StoreFails(Fresh(w.active))
    <3>1. /\ w.active \in Seq(Nat) /\ Continues(w.active, cursor)
          /\ cursor + Len(w.active) <= Len(log) /\ StoreFails(w.active)
      BY <1>2, <2>1, ActiveIsNext, FreshIsAll
    <3> QED
      BY <1>2, <3>1, FailureWrites
  <2>2. CASE init = "failed" /\ UNCHANGED <<file, cursor, materialized, interference>>
    BY <1>2, <2>2, UpFacts DEF SessionInv, FileInv, TypeOK, file
  <2> QED
    BY <1>1, <2>1, <2>2
<1>4. /\ materialized \in BOOLEAN /\ cursor \in Nat
      /\ init \in {"pending", "done", "failed"}
      /\ IF materialized THEN Len(lines) = cursor /\ cursor > 0 ELSE cursor = 0
      /\ w.barrier # "none" => init = "done"
      /\ init # "done" => cursor <= seeded
  BY <1>2 DEF SessionInv, TypeOK, FileInv, FlushInv
<1>5. Behind' = Behind
  BY <1>1, <1>3 DEF Behind
<1>6. /\ w' \in Controller /\ InOrder(w', Behind, Len(log)) /\ w'.paused = TRUE
      /\ w'.barrier = IF w.barrier = "drain" THEN "failed" ELSE w.barrier
  BY <1>1, <1>2, UpFacts, WriteFailedOrdered
<1>7. NothingStranded'
  BY <1>1, <1>6 DEF SessionInv, NothingStranded, flushes
<1> QED
  BY <1>1, <1>2, <1>3, <1>4, <1>5, <1>6, <1>7, WritingKeeps

-----------------------------------------------------------------------------
(* The life of a session keeps the invariant.                              *)

LEMMA InitKeeps == Init => SessionInv
<1> SUFFICES ASSUME Init PROVE SessionInv
  OBVIOUS
<1>1. ~Up
  BY DEF Init, Up
<1>2. TypeOK
  <2>1. Idle \in Controller
    BY DEF Idle, Controller
  <2>2. {lines, tail, log, rest} \subseteq Seq(Kinds)
    BY DEF Init
  <2>3. /\ call \in [Callers -> {"idle", "init", "barrier", "ok", "failed"}]
        /\ mark \in [Callers -> Nat]
    BY DEF Init
  <2>4. interference \in [{"crash", "fault"} -> Nat]
    BY DEF Init
  <2>5. {seeded, cursor, acked} \subseteq Nat /\ ran \subseteq Nat
    BY DEF Init
  <2> QED
    BY <2>1, <2>2, <2>3, <2>4, <2>5 DEF Init, TypeOK
<1>3. RestInv
  BY DEF Init, RestInv
<1>4. QueueInv /\ FileInv
  BY <1>1 DEF QueueInv, FileInv
<1>5. RepairInv
  BY <1>1 DEF Init, RepairInv
<1>6. FlushInv /\ AckedSurvives /\ RanIsRecorded /\ NothingStranded
  BY DEF Init, FlushInv, AckedSurvives, RanIsRecorded, NothingStranded, Idle, Callers
<1> QED
  BY <1>2, <1>3, <1>4, <1>5, <1>6 DEF SessionInv

(* A session becomes live.                                                 *)
LEMMA OpenKeeps ==
  ASSUME SessionInv, phase = "cold", phase' = "live", repair = "none", ~torn,
         log' \in Seq(Kinds), seeded' = Len(log'), init' \in {"pending", "done"},
         cursor' \in Nat, materialized' \in BOOLEAN,
         Len(lines) <= Len(log'), \A i \in 1..Len(lines) : lines[i] = log'[i],
         IF materialized' THEN Len(lines) = cursor' /\ cursor' > 0 ELSE cursor' = 0,
         cursor' <= seeded', init' = "done" => cursor' = seeded',
         UNCHANGED <<file, w, flushes, repairing, history, interference>>
  PROVE  SessionInv'
<1> USE DEF file, flushes, repairing, history
<1>1. ~Up /\ Up'
  BY DEF Up
<1>2. w = Idle /\ \A k \in Callers : call[k] = "idle" /\ mark[k] = 0
  BY <1>1 DEF SessionInv, RestInv
<1>3. Len(log') \in Nat
  OBVIOUS
<1>4. TypeOK'
  BY <1>3 DEF SessionInv, TypeOK
<1>5. RestInv'
  BY <1>1 DEF RestInv
<1>6. QueueInv'
  <2>1. Behind' = Len(log')
    BY DEF Behind
  <2>2. w'.active = <<>> /\ w'.pending = <<>>
    BY <1>2 DEF Idle
  <2>3. /\ Continues(w'.active, Behind') /\ Continues(w'.pending, Behind' + Len(w'.active))
        /\ Len(w'.active) = 0 /\ Len(w'.pending) = 0
    BY <2>2, EmptyContinues
  <2>4. Behind' + Len(w'.active) + Len(w'.pending) = Len(log')
    BY <1>3, <2>1, <2>3
  <2> QED
    BY <2>3, <2>4 DEF QueueInv, InOrder
<1>7. FileInv'
  BY <1>3 DEF FileInv
<1>8. RepairInv'
  BY DEF SessionInv, RepairInv
<1>9. FlushInv'
  BY <1>2, <1>3 DEF FlushInv, Callers, Idle
<1>10. AckedSurvives' /\ RanIsRecorded'
  BY DEF SessionInv, AckedSurvives, RanIsRecorded
<1>11. NothingStranded'
  BY <1>2 DEF NothingStranded, Idle
<1> QED
  BY <1>4, <1>5, <1>6, <1>7, <1>8, <1>9, <1>10, <1>11 DEF SessionInv

LEMMA CreateKeeps == ASSUME SessionInv, NEW seed \in Seeds, Create(seed) PROVE SessionInv'
<1>1. /\ phase = "cold" /\ lines = <<>> /\ ~torn /\ phase' = "live" /\ log' = seed
      /\ seeded' = Len(seed) /\ init' = "pending" /\ cursor' = 0
      /\ materialized' = FALSE
      /\ UNCHANGED <<file, w, flushes, repairing, history, interference>>
  BY DEF Create
<1>2. log' \in Seq(Kinds) /\ Len(log') \in Nat
  BY <1>1, EventsAssumption DEF EventsAssumption
<1>3. repair = "none"
  BY <1>1 DEF SessionInv, RepairInv
<1>4. Len(lines) = 0 /\ Len(lines) <= Len(log') /\ cursor' <= seeded'
  BY <1>1, <1>2
<1>5. /\ \A i \in 1..Len(lines) : lines[i] = log'[i]
      /\ IF materialized' THEN Len(lines) = cursor' /\ cursor' > 0 ELSE cursor' = 0
      /\ seeded' = Len(log') /\ init' # "done"
  BY <1>1, <1>4
<1> QED
  BY <1>1, <1>2, <1>3, <1>4, <1>5, OpenKeeps

LEMMA ResumeKeeps == ASSUME SessionInv, NEW setup \in Setups, Resume(setup) PROVE SessionInv'
<1>1. /\ phase = "cold" /\ repair = "none" /\ lines # <<>> /\ ~Damaged
      /\ phase' = "live" /\ log' = lines \o setup
      /\ cursor' = Len(lines) /\ seeded' = Len(log') /\ materialized' = TRUE
      /\ init' = IF setup = <<>> THEN "done" ELSE "pending"
      /\ UNCHANGED <<file, w, flushes, repairing, history, interference>>
  BY DEF Resume
<1>2. /\ lines \in Seq(Kinds) /\ setup \in Seq(Kinds) /\ Len(setup) \in Nat
      /\ Len(lines) \in Nat \ {0}
  BY <1>1, EventsAssumption, EmptySeq DEF SessionInv, TypeOK, EventsAssumption
<1>3. /\ log' \in Seq(Kinds) /\ Len(log') = Len(lines) + Len(setup)
      /\ \A i \in 1..Len(lines) : log'[i] = lines[i]
  BY <1>1, <1>2, ConcatEvents
<1>4. setup = <<>> => Len(setup) = 0
  OBVIOUS
<1>5. ~torn
  BY <1>1 DEF Damaged
<1> QED
  BY <1>1, <1>2, <1>3, <1>4, <1>5, OpenKeeps

LEMMA EmitKeeps == ASSUME SessionInv, NEW kind \in Kinds, Emit(kind) PROVE SessionInv'
<1>1. /\ phase = "live" /\ log' = log \o <<kind>> /\ w' = Enqueue(w, Len(log) + 1)
      /\ call' = IF kind = "note" THEN call ELSE [call EXCEPT !["loop"] = "idle"]
      /\ UNCHANGED <<file, phase, seeded, init, cursor, materialized, mark,
                     repairing, history, interference>>
  BY DEF Emit
<1> USE DEF file, repairing, history
<1>2. Up /\ Up'
  BY <1>1 DEF Up
<1>3. /\ log \in Seq(Kinds) /\ Len(log) \in Nat /\ lines \in Seq(Kinds)
      /\ Len(lines) \in Nat /\ Len(lines) <= Len(log)
      /\ w \in Controller /\ Behind \in Nat /\ InOrder(w, Behind, Len(log))
  BY <1>2, UpFacts
<1>4. /\ log' \in Seq(Kinds) /\ Len(log') = Len(log) + 1
      /\ \A i \in 1..Len(log) : log'[i] = log[i]
      /\ log'[Len(log) + 1] = kind
  <2>1. log' = Append(log, kind)
    BY <1>1, <1>3, AppendIsConcat
  <2> QED
    BY <1>3, <2>1, AppendProperties
<1>5. /\ w' \in Controller /\ InOrder(w', Behind, Len(log) + 1)
      /\ w'.barrier = w.barrier /\ w'.active = w.active
      /\ w.barrier # "none" => w'.paused = w.paused
  BY <1>1, <1>3, EnqueueOrdered
<1>6. /\ call' \in [Callers -> {"idle", "init", "barrier", "ok", "failed"}]
      /\ \A k \in Callers : call'[k] = IF kind # "note" /\ k = "loop" THEN "idle" ELSE call[k]
  BY <1>1 DEF SessionInv, TypeOK
<1>7. TypeOK'
  BY <1>1, <1>4, <1>5, <1>6 DEF SessionInv, TypeOK
<1>8. RestInv'
  BY <1>2 DEF RestInv
<1>9. QueueInv'
  BY <1>1, <1>4, <1>5 DEF QueueInv, Behind
<1>10. FileInv'
  <2>1. seeded <= Len(log) /\ seeded \in Nat
    BY <1>2, UpFacts DEF SessionInv, FileInv
  <2>2. seeded <= Len(log') /\ Len(lines) <= Len(log')
    BY <1>3, <1>4, <2>1
  <2>3. \A i \in 1..Len(lines) : lines[i] = log'[i]
    BY <1>2, <1>3, <1>4 DEF SessionInv, FileInv
  <2> QED
    BY <1>1, <1>2, <2>2, <2>3 DEF SessionInv, FileInv
<1>11. RepairInv'
  BY <1>1, <1>2 DEF SessionInv, RepairInv
<1>12. FlushInv'
  <2>1. \A k \in Callers : mark[k] <= Len(log')
    BY <1>3, <1>4 DEF SessionInv, TypeOK, FlushInv
  <2>2. call["drain"] = "idle" /\ call'["drain"] = "idle"
    BY <1>1, <1>6 DEF SessionInv, FlushInv, Callers
  <2>3. call'["loop"] = "ok" =>
          \A i \in 1..Len(log') : log'[i] # "note" => i <= Len(lines)
    <3> SUFFICES ASSUME call'["loop"] = "ok", NEW i \in 1..Len(log'), log'[i] # "note"
                 PROVE  i <= Len(lines)
      OBVIOUS
    <3>1. kind = "note" /\ call["loop"] = "ok"
      BY <1>6 DEF Callers
    <3>2. i \in 1..Len(log) /\ log[i] # "note"
      BY <1>3, <1>4, <3>1
    <3> QED
      BY <3>1, <3>2 DEF SessionInv, FlushInv
  <2> QED
    BY <1>1, <1>5, <2>1, <2>2, <2>3 DEF SessionInv, FlushInv
<1>13. AckedSurvives' /\ RanIsRecorded'
  BY <1>1 DEF SessionInv, AckedSurvives, RanIsRecorded
<1>14. NothingStranded'
  <2>1. CASE w.barrier # "none"
    BY <1>1, <1>5, <2>1 DEF NothingStranded
  <2>2. CASE w.barrier = "none" /\ w.paused
    <3>1. w'.timer = TRUE
      BY <1>1, <1>3, <2>2 DEF Enqueue, Controller
    <3> QED
      BY <1>5, <1>6, <2>2, <3>1 DEF SessionInv, NothingStranded
  <2>3. CASE w.barrier = "none" /\ ~w.paused
    <3>1. /\ w'.timer = (w.timer \/ w.pending = <<>>) /\ w'.expired = w.expired
          /\ w'.active = w.active
      BY <1>1, <1>3, <2>3 DEF Enqueue, Controller
    <3>2. \A k \in Callers : call[k] = "init" => (call'[k] = "init" \/ kind # "note")
      BY <1>6
    <3>3. \A k \in Callers : call[k] = "init" => call'[k] = "init"
      <4>1. kind # "note" => ~Waiting("loop")
        BY DEF Emit
      <4>2. kind # "note" => call["loop"] # "init"
        BY <4>1 DEF Waiting
      <4> QED
        BY <1>6, <4>2
    <3>4. \A k \in Callers : call'[k] = "barrier" => w.barrier # "none"
      BY <1>6 DEF SessionInv, NothingStranded
    <3> QED
      BY <1>1, <1>5, <2>3, <3>1, <3>3, <3>4 DEF SessionInv, NothingStranded
  <2> QED
    BY <2>1, <2>2, <2>3
<1> QED
  BY <1>7, <1>8, <1>9, <1>10, <1>11, <1>12, <1>13, <1>14 DEF SessionInv

(* What ran is in the file, since the checkpoint before it was answered.   *)
LEMMA RunKeeps == ASSUME SessionInv, RunTool PROVE SessionInv'
<1> DEFINE at == LastOf(log, {"call"})
<1>1. /\ phase = "live" /\ Boundary(log) = "call" /\ call["loop"] = "ok"
      /\ ran' = ran \cup {at}
      /\ UNCHANGED <<file, memory, w, flushes, repairing, acked, interference>>
  BY DEF RunTool
<1> USE DEF file, memory, flushes, repairing
<1>2. Up /\ Up'
  BY <1>1 DEF Up
<1>3. at \in 1..Len(log) /\ log[at] = "call"
  BY <1>1, CallIsThere DEF SessionInv
<1> HIDE DEF at
<1>4. at \in 1..Len(lines) /\ lines[at] = "call"
  <2>1. at <= Len(lines)
    BY <1>1, <1>3 DEF SessionInv, FlushInv
  <2>2. at \in 1..Len(lines)
    BY <1>2, <1>3, <2>1, UpFacts
  <2> QED
    BY <1>2, <1>3, <2>2 DEF SessionInv, FileInv
<1>5. RanIsRecorded'
  BY <1>1, <1>2, <1>4, UpFacts DEF SessionInv, RanIsRecorded
<1>6. TypeOK'
  BY <1>1, <1>3 DEF SessionInv, TypeOK
<1>7. RestInv' /\ QueueInv' /\ FileInv' /\ RepairInv'
  BY <1>1, <1>2 DEF SessionInv, RestInv, QueueInv, FileInv, RepairInv, Behind
<1>8. FlushInv' /\ AckedSurvives' /\ NothingStranded'
  BY <1>1 DEF SessionInv, FlushInv, AckedSurvives, NothingStranded
<1> QED
  BY <1>5, <1>6, <1>7, <1>8 DEF SessionInv

(* A caller that gives up on a failed flush.                               *)
LEMMA StuckKeeps == ASSUME SessionInv, RetirementFails PROVE SessionInv'
<1>1. /\ phase = "retiring" /\ phase' = "stuck" /\ call["drain"] = "failed"
      /\ call' = [call EXCEPT !["drain"] = "idle"]
      /\ UNCHANGED <<file, log, seeded, init, cursor, materialized, w, mark,
                     repairing, history, interference>>
  BY DEF RetirementFails
<1> USE DEF file, repairing, history
<1>2. Up /\ Up'
  BY <1>1 DEF Up
<1>3. /\ call' \in [Callers -> {"idle", "init", "barrier", "ok", "failed"}]
      /\ \A k \in Callers : call'[k] = IF k = "drain" THEN "idle" ELSE call[k]
  BY <1>1 DEF SessionInv, TypeOK
<1>4. TypeOK'
  BY <1>1, <1>3 DEF SessionInv, TypeOK
<1>5. w \in Controller /\ InOrder(w, Behind, Len(log))
  BY <1>2, UpFacts
<1>6. RestInv' /\ QueueInv' /\ FileInv' /\ RepairInv' /\ RanIsRecorded'
  BY <1>1, <1>2, <1>5, QuietKeeps
<1>7. FlushInv'
  BY <1>1, <1>3 DEF SessionInv, FlushInv, Callers
<1>8. AckedSurvives'
  BY <1>1 DEF SessionInv, AckedSurvives
<1>9. NothingStranded'
  <2>1. \A k \in Callers : call[k] = "init" => call'[k] = "init"
    BY <1>1, <1>3
  <2>2. \A k \in Callers : call'[k] = "barrier" => call[k] = "barrier"
    BY <1>3
  <2> QED
    BY <1>1, <2>1, <2>2 DEF SessionInv, NothingStranded
<1> QED
  BY <1>4, <1>6, <1>7, <1>8, <1>9 DEF SessionInv

-----------------------------------------------------------------------------
(* While no session is up, only the file and its repair change.            *)

Forgotten ==
  /\ log = <<>> /\ seeded = 0 /\ init = "done"
  /\ cursor = 0 /\ materialized = FALSE /\ w = Idle
  /\ call \in [Callers -> {"idle"}] /\ mark \in [Callers -> {0}]

LEMMA ForgetForgets == Forget => Forgotten'
BY DEF Forget, Forgotten

LEMMA DownIsForgotten == ASSUME SessionInv, ~Up PROVE Forgotten
<1>1. \A k \in Callers : call[k] = "idle" /\ mark[k] = 0
  BY DEF SessionInv, RestInv
<1> QED
  BY <1>1 DEF SessionInv, RestInv, Forgotten, TypeOK

LEMMA RestKeeps ==
  ASSUME SessionInv, Forgotten', phase' \in {"down", "cold"},
         {lines', tail', rest'} \subseteq Seq(Kinds), torn' \in BOOLEAN,
         repair' \in {"none", "truncate", "append"},
         interference' \in [{"crash", "fault"} -> Nat],
         Len(lines) <= Len(lines'), \A i \in 1..Len(lines) : lines'[i] = lines[i],
         ~torn' => tail' = <<>>, repair' = "append" => ~torn',
         repair' # "none" => phase' = "cold" /\ lines' # <<>>,
         UNCHANGED history
  PROVE  SessionInv'
<1>1. ~Up'
  BY DEF Up
<1>2. \A k \in Callers : call'[k] = "idle" /\ mark'[k] = 0
  BY DEF Forgotten
<1>3. /\ log' = <<>> /\ seeded' = 0 /\ init' = "done" /\ cursor' = 0
      /\ materialized' = FALSE /\ w' = Idle
  BY DEF Forgotten
<1>4. TypeOK'
  <2>1. w' \in Controller
    BY <1>3 DEF Idle, Controller
  <2>2. /\ call' \in [Callers -> {"idle", "init", "barrier", "ok", "failed"}]
        /\ mark' \in [Callers -> Nat]
    BY DEF Forgotten
  <2>3. log' \in Seq(Kinds) /\ {seeded', cursor'} \subseteq Nat
    BY <1>3
  <2> QED
    BY <1>3, <2>1, <2>2, <2>3 DEF SessionInv, TypeOK, history
<1>5. RestInv'
  BY <1>2, <1>3 DEF RestInv
<1>6. QueueInv' /\ FileInv' /\ RepairInv'
  BY <1>1 DEF QueueInv, FileInv, RepairInv
<1>7. FlushInv'
  BY <1>2, <1>3 DEF FlushInv, Idle, Callers
<1>8. AckedSurvives' /\ RanIsRecorded'
  BY LongerKeeps
<1>9. NothingStranded'
  BY <1>2, <1>3 DEF NothingStranded, Idle
<1> QED
  BY <1>4, <1>5, <1>6, <1>7, <1>8, <1>9 DEF SessionInv

LEMMA LeaveKeeps == ASSUME SessionInv, Retired \/ Closed PROVE SessionInv'
<1>1. /\ phase \in {"retiring", "closing"} /\ phase' \in {"down", "cold"} /\ Forgotten'
      /\ UNCHANGED <<file, repairing, history, interference>>
  BY ForgetForgets DEF Retired, Closed
<1>2. Up
  BY <1>1 DEF Up
<1>3. /\ {lines, tail, rest} \subseteq Seq(Kinds) /\ torn \in BOOLEAN
      /\ repair = "none" /\ tail = <<>>
      /\ interference \in [{"crash", "fault"} -> Nat] /\ Len(lines) \in Nat
  BY <1>2, UpFacts DEF SessionInv, TypeOK
<1> QED
  BY <1>1, <1>3, RestKeeps DEF file, repairing

LEMMA BootKeeps == ASSUME SessionInv, Boot PROVE SessionInv'
<1>1. /\ phase = "down" /\ phase' = "cold"
      /\ UNCHANGED <<file, log, seeded, init, cursor, materialized, w, flushes,
                     repairing, history, interference>>
  BY DEF Boot
<1>2. Forgotten'
  BY <1>1, DownIsForgotten DEF Up, Forgotten, flushes
<1>3. /\ {lines, tail, rest} \subseteq Seq(Kinds) /\ torn \in BOOLEAN
      /\ repair = "none" /\ (~torn => tail = <<>>)
      /\ interference \in [{"crash", "fault"} -> Nat] /\ Len(lines) \in Nat
  BY <1>1 DEF SessionInv, TypeOK, RepairInv
<1> QED
  BY <1>1, <1>2, <1>3, RestKeeps DEF file, repairing

(* A step of a repair, of which only the file and the repair itself tell.  *)
LEMMA ColdKeeps ==
  ASSUME SessionInv, phase = "cold", UNCHANGED <<memory, w, flushes, history>>,
         {lines', tail', rest'} \subseteq Seq(Kinds), torn' \in BOOLEAN,
         repair' \in {"none", "truncate", "append"},
         interference' \in [{"crash", "fault"} -> Nat],
         Len(lines) <= Len(lines'), \A i \in 1..Len(lines) : lines'[i] = lines[i],
         ~torn' => tail' = <<>>, repair' = "append" => ~torn',
         repair' # "none" => lines' # <<>>
  PROVE  SessionInv'
<1>1. Forgotten' /\ phase' = "cold"
  BY DownIsForgotten DEF Up, Forgotten, flushes, memory
<1> QED
  BY <1>1, RestKeeps

LEMMA ColdFacts ==
  ASSUME SessionInv
  PROVE  /\ {lines, tail, rest} \subseteq Seq(Kinds) /\ torn \in BOOLEAN
         /\ lines \in Seq(Kinds) /\ tail \in Seq(Kinds) /\ rest \in Seq(Kinds)
         /\ Len(lines) \in Nat /\ interference \in [{"crash", "fault"} -> Nat]
         /\ repair \in {"none", "truncate", "append"}
         /\ (repair = "append" => ~torn) /\ (~torn => tail = <<>>)
         /\ repair # "none" => phase = "cold" /\ lines # <<>>
BY DEF SessionInv, TypeOK, RepairInv

LEMMA ClosersAre == ASSUME NEW events PROVE Closers(events) \in Seq(Kinds)
<1> DEFINE answer == IF ~CallPending(events) THEN <<>>
                     ELSE IF CallStarted(events) THEN <<"unknown">> ELSE <<"notStarted">>
           ending == IF StepOpen(events) THEN <<"stepEnd">> ELSE <<>>
<1>1. {"unknown", "notStarted", "stepEnd", "interrupted"} \subseteq Kinds
  BY DEF Kinds, Answers, Ending
<1>2. answer \in Seq(Kinds) /\ ending \in Seq(Kinds) /\ <<"interrupted">> \in Seq(Kinds)
  BY <1>1
<1>3. Closers(events) = IF ~TurnOpen(events) THEN <<>>
                        ELSE answer \o ending \o <<"interrupted">>
  BY DEF Closers
<1> HIDE DEF answer, ending
<1>4. answer \o ending \o <<"interrupted">> \in Seq(Kinds)
  BY <1>2, ConcatProperties
<1> QED
  BY <1>3, <1>4

LEMMA BeginRepairKeeps == ASSUME SessionInv, BeginRepair PROVE SessionInv'
<1>1. /\ phase = "cold" /\ lines # <<>> /\ rest' = tail \o Closers(Recovered)
      /\ repair' = IF torn THEN "truncate" ELSE "append"
      /\ UNCHANGED <<file, memory, w, flushes, history, interference>>
  BY DEF BeginRepair
<1>2. rest' \in Seq(Kinds)
  BY <1>1, ColdFacts, ClosersAre, ConcatProperties
<1> QED
  BY <1>1, <1>2, ColdFacts, ColdKeeps DEF file

LEMMA TruncateKeeps == ASSUME SessionInv, Truncate PROVE SessionInv'
<1>1. /\ repair = "truncate" /\ tail' = <<>> /\ torn' = FALSE
      /\ repair' \in {"none", "append"}
      /\ UNCHANGED <<lines, rest, memory, w, flushes, history, interference>>
  BY DEF Truncate
<1>2. tail' \in Seq(Kinds) /\ ~torn' /\ torn' \in BOOLEAN
  <2>1. torn' = FALSE
    BY <1>1
  <2>2. ~torn' /\ torn' \in BOOLEAN
    BY <2>1
  <2> QED
    BY <1>1, <2>2
<1>3. /\ {lines', tail', rest'} \subseteq Seq(Kinds) /\ phase = "cold"
      /\ Len(lines) <= Len(lines') /\ \A i \in 1..Len(lines) : lines'[i] = lines[i]
      /\ repair' \in {"none", "truncate", "append"} /\ lines' # <<>>
      /\ interference' \in [{"crash", "fault"} -> Nat]
  <2>1. phase = "cold" /\ lines' # <<>> /\ lines' = lines
    BY <1>1, ColdFacts
  <2>2. {lines', tail', rest'} \subseteq Seq(Kinds)
    BY <1>1, <1>2, <2>1, ColdFacts
  <2> QED
    BY <1>1, <2>1, <2>2, ColdFacts
<1> QED
  BY <1>1, <1>2, <1>3, ColdKeeps

LEMMA AppendRestKeeps == ASSUME SessionInv, AppendRest PROVE SessionInv'
<1>1. /\ repair = "append" /\ repair' = "none" /\ rest' = <<>>
      /\ lines' = lines \o rest
      /\ UNCHANGED <<tail, torn, memory, w, flushes, history, interference>>
  BY DEF AppendRest
<1>2. /\ lines' \in Seq(Kinds) /\ Len(lines) <= Len(lines') /\ rest' \in Seq(Kinds)
      /\ \A i \in 1..Len(lines) : lines'[i] = lines[i]
  BY <1>1, ColdFacts, ConcatEvents
<1> QED
  BY <1>1, <1>2, ColdFacts, ColdKeeps

LEMMA RepairFailsKeeps == ASSUME SessionInv, RepairFails PROVE SessionInv'
<1>1. /\ repair # "none" /\ repair' = "none" /\ rest' = <<>>
      /\ Interfere("fault", MaxFaults) /\ UNCHANGED <<file, memory, w, flushes, history>>
  BY DEF RepairFails
<1>2. interference' \in [{"crash", "fault"} -> Nat] /\ rest' \in Seq(Kinds)
  BY <1>1, ColdFacts DEF Interfere
<1> QED
  BY <1>1, <1>2, ColdFacts, ColdKeeps DEF file

-----------------------------------------------------------------------------
(* A crash leaves a file that was written on.                              *)

LEMMA RunningIs ==
  ASSUME SessionInv
  PROVE  /\ Running \in Seq(Kinds)
         /\ ~Up /\ repair # "append" => Running = <<>>
<1>1. CASE repair = "append"
  BY <1>1, ColdFacts DEF Running
<1>2. CASE repair # "append" /\ init = "pending"
  <2>1. Up /\ Running = Events(SeedBatch)
    BY <1>2 DEF SessionInv, RestInv, Running
  <2>2. /\ SeedBatch \in Seq(Nat) /\ Continues(SeedBatch, cursor)
        /\ cursor + Len(SeedBatch) <= Len(log)
    BY <1>2, <2>1, SeedsAre
  <2> QED
    BY <2>1, <2>2, EventsAre
<1>3. CASE repair # "append" /\ init # "pending" /\ init # "done"
  <2>1. Running = <<>>
    BY <1>3 DEF Running
  <2> QED
    BY <2>1
<1>4. CASE repair # "append" /\ init = "done" /\ Up
  <2>1. Running = Events(w.active)
    BY <1>4, FreshIsAll DEF Running
  <2> QED
    BY <1>4, <2>1, ActiveIsNext, EventsAre
<1>5. CASE repair # "append" /\ init = "done" /\ ~Up
  <2>1. Running = Events(Fresh(w.active)) /\ w.active = <<>>
    BY <1>5 DEF Running, SessionInv, RestInv, Idle
  <2>2. Fresh(w.active) = <<>>
    <3> DEFINE stored == {i \in DOMAIN w.active : w.active[i] <= cursor}
    <3>1. stored = {}
      BY <2>1
    <3>2. Cardinality(stored) = 0
      BY <3>1, FS_EmptySet
    <3>3. Fresh(w.active) = SubSeq(w.active, Cardinality(stored) + 1, Len(w.active))
      BY DEF Fresh
    <3> HIDE DEF stored
    <3>4. Fresh(w.active) = SubSeq(<<>>, 1, 0)
      BY <2>1, <3>2, <3>3
    <3> QED
      BY <3>4
  <2>3. Running = <<>>
    BY <2>1, <2>2 DEF Events
  <2> QED
    BY <2>3
<1> QED
  BY <1>1, <1>2, <1>3, <1>4, <1>5

LEMMA InterruptedExtends ==
  ASSUME SessionInv, Interrupted
  PROVE  /\ {lines', tail'} \subseteq Seq(Kinds) /\ torn' \in BOOLEAN
         /\ Len(lines) <= Len(lines') /\ \A i \in 1..Len(lines) : lines'[i] = lines[i]
         /\ ~torn' => tail' = <<>>
         /\ Len(tail) <= Len(tail') /\ (tail # <<>> => UNCHANGED <<lines, tail>>)
<1>1. /\ lines \in Seq(Kinds) /\ tail \in Seq(Kinds) /\ torn \in BOOLEAN
      /\ Len(lines) \in Nat /\ Len(tail) \in Nat /\ (~torn => tail = <<>>)
  BY ColdFacts
<1>2. Running \in Seq(Kinds) /\ Len(Running) \in Nat
  BY RunningIs
<1>3. materialized \/ repair = "append" => tail = <<>>
  BY UpFacts, ColdFacts DEF SessionInv, RestInv
<1>4. lines = <<>> /\ ~Up => Running = <<>>
  BY RunningIs, ColdFacts
<1>5. CASE UNCHANGED file
  BY <1>1, <1>5 DEF file
<1>6. CASE /\ lines = <<>> \/ materialized \/ repair = "append"
           /\ lines' = lines \o Running /\ UNCHANGED <<tail, torn>>
  <2>1. /\ lines' \in Seq(Kinds) /\ Len(lines) <= Len(lines')
        /\ \A i \in 1..Len(lines) : lines'[i] = lines[i]
    BY <1>1, <1>2, <1>6, ConcatEvents
  <2>2. tail # <<>> => lines' = lines
    <3>1. tail # <<>> => lines = <<>> /\ ~Up
      BY <1>3, <1>6, UpFacts
    <3>2. tail # <<>> => lines' = <<>> \o <<>>
      BY <1>4, <1>6, <3>1
    <3> QED
      BY <3>1, <3>2
  <2> QED
    BY <1>1, <1>6, <2>1, <2>2
<1>7. CASE /\ materialized \/ repair = "append"
           /\ \E n \in 0..Len(Running) :
                IF Compressed
                THEN tail' = SubSeq(Running, 1, n) /\ torn' = TRUE /\ UNCHANGED lines
                ELSE /\ lines' = lines \o SubSeq(Running, 1, n) /\ UNCHANGED tail
                     /\ torn' \in {FALSE, n < Len(Running)}
  <2>1. PICK n \in 0..Len(Running) :
          IF Compressed
          THEN tail' = SubSeq(Running, 1, n) /\ torn' = TRUE /\ UNCHANGED lines
          ELSE /\ lines' = lines \o SubSeq(Running, 1, n) /\ UNCHANGED tail
               /\ torn' \in {FALSE, n < Len(Running)}
    BY <1>7
  <2> DEFINE part == SubSeq(Running, 1, n)
  <2>2. part \in Seq(Kinds)
    BY <1>2, SubSeqProperties
  <2> HIDE DEF part
  <2>3. tail = <<>>
    BY <1>3, <1>7
  <2>4. CASE Compressed
    <3>1. tail' = part /\ lines' = lines /\ torn' = TRUE
      BY <2>1, <2>4 DEF part
    <3>2. Len(tail) = 0 /\ Len(tail') \in Nat
      BY <2>2, <2>3, <3>1
    <3> QED
      BY <1>1, <2>2, <2>3, <3>1, <3>2
  <2>5. CASE ~Compressed
    <3>1. tail' = tail /\ lines' = lines \o part
      BY <2>1, <2>5 DEF part
    <3>3. torn' \in BOOLEAN
      <4> DEFINE cut == n < Len(Running)
      <4>1. cut \in BOOLEAN
        BY <1>2
      <4>2. torn' \in {FALSE, cut}
        BY <2>1, <2>5
      <4> HIDE DEF cut
      <4> QED
        BY <4>1, <4>2
    <3>2. /\ lines' \in Seq(Kinds) /\ Len(lines) <= Len(lines')
          /\ \A i \in 1..Len(lines) : lines'[i] = lines[i]
      BY <1>1, <2>2, <3>1, ConcatEvents
    <3> QED
      BY <1>1, <2>3, <3>1, <3>2, <3>3
  <2> QED
    BY <2>4, <2>5
<1> QED
  BY <1>5, <1>6, <1>7 DEF Interrupted

LEMMA CrashKeeps == ASSUME SessionInv, Crash PROVE SessionInv'
<1>1. /\ Interrupted /\ Forgotten' /\ phase' = "down" /\ repair' = "none" /\ rest' = <<>>
      /\ Interfere("crash", MaxCrashes) /\ UNCHANGED history
  BY ForgetForgets DEF Crash
<1>2. interference' \in [{"crash", "fault"} -> Nat] /\ rest' \in Seq(Kinds)
  BY <1>1, ColdFacts DEF Interfere
<1> QED
  BY <1>1, <1>2, InterruptedExtends, RestKeeps

LEMMA StutterKeeps == ASSUME SessionInv, UNCHANGED vars PROVE SessionInv'
<1> USE DEF vars, file, memory, flushes, repairing, history
<1>1. Up' = Up /\ Behind' = Behind
  BY DEF Up, Behind
<1>2. TypeOK' /\ RestInv' /\ RepairInv'
  BY <1>1 DEF SessionInv, TypeOK, RestInv, RepairInv
<1>3. QueueInv' /\ FileInv'
  BY <1>1 DEF SessionInv, QueueInv, FileInv
<1>4. FlushInv' /\ AckedSurvives' /\ RanIsRecorded' /\ NothingStranded'
  BY DEF SessionInv, FlushInv, AckedSurvives, RanIsRecorded, NothingStranded
<1> QED
  BY <1>2, <1>3, <1>4 DEF SessionInv

-----------------------------------------------------------------------------
(* What holds of every behavior.                                           *)

LEMMA SessionNext == ASSUME SessionInv, [Next]_vars PROVE SessionInv'
<1>1. CASE UNCHANGED vars
  BY <1>1, StutterKeeps
<1>2. CASE Starting
  BY <1>2, CreateKeeps, ResumeKeeps, InitSucceedsKeeps, InitFailsKeeps, BootKeeps DEF Starting
<1>3. CASE Flushing
  BY <1>3, CheckpointKeeps, JoinKeeps, DrainStepKeeps DEF Flushing
<1>4. CASE Writing
  BY <1>4, DeadlineKeeps, WriteStoresKeeps, WriteIsLostKeeps DEF Writing
<1>5. CASE Repairing
  BY <1>5, BeginRepairKeeps, TruncateKeeps, AppendRestKeeps, RepairFailsKeeps DEF Repairing
<1>6. CASE Stopping
  BY <1>6, EndKeeps, LeaveKeeps, StuckKeeps, CrashKeeps DEF Stopping
<1>7. CASE \E kind \in Kinds : Emit(kind)
  BY <1>7, EmitKeeps
<1>8. CASE RunTool
  BY <1>8, RunKeeps
<1> QED
  BY <1>1, <1>2, <1>3, <1>4, <1>5, <1>6, <1>7, <1>8 DEF Next

(* SessionInv is an invariant: the queue and the file share the log        *)
(* between them whatever fails, a repair works on a closed log, and a flush *)
(* is answered when all of the log is stored (coordinator.ts,              *)
(* write-behind.ts, session-persistence-jsonl).                            *)
THEOREM SessionInvariant == Spec => []SessionInv
<1>1. Init => SessionInv
  BY InitKeeps
<1>2. SessionInv /\ [Next]_vars => SessionInv'
  BY SessionNext
<1> QED
  BY <1>1, <1>2, PTL DEF Spec

(* Every variable of the model keeps its type.                             *)
THEOREM SessionTypes == Spec => []TypeOK
<1>1. SessionInv => TypeOK
  BY DEF SessionInv
<1> QED
  BY <1>1, SessionInvariant, PTL

(* A batch and the events that wait, joined, are the end of the log.       *)
LEMMA QueueIsTheRest ==
  ASSUME SessionInv, Up
  PROVE  w.active \o w.pending = [i \in 1..(Len(log) - Behind) |-> Behind + i]
<1>1. /\ w.active \in Seq(Nat) /\ w.pending \in Seq(Nat)
      /\ Len(w.active) \in Nat /\ Len(w.pending) \in Nat
      /\ Behind \in Nat /\ Len(log) \in Nat /\ InOrder(w, Behind, Len(log))
  BY UpFacts, QueueTypes
<1> DEFINE queue == w.active \o w.pending
<1>2. /\ queue \in Seq(Nat) /\ Len(queue) = Len(w.active) + Len(w.pending)
      /\ Continues(queue, Behind)
  BY <1>1, ConcatContinues, ConcatProperties DEF InOrder
<1> HIDE DEF queue
<1>3. Len(queue) = Len(log) - Behind
  <2>1. Behind + Len(w.active) + Len(w.pending) = Len(log)
    BY <1>1 DEF InOrder
  <2>2. ASSUME NEW a \in Nat, NEW b \in Nat, NEW c \in Nat PROVE b + c = (a + b + c) - a
    OBVIOUS
  <2>3. Len(w.active) + Len(w.pending) = (Behind + Len(w.active) + Len(w.pending)) - Behind
    BY <1>1, <2>2
  <2> QED
    BY <1>2, <2>1, <2>3
<1>4. \A i \in 1..Len(queue) : queue[i] = Behind + i
  <2>1. DOMAIN queue = 1..Len(queue)
    BY <1>2
  <2> QED
    BY <1>2, <2>1 DEF Continues
<1>5. queue = [i \in 1..Len(queue) |-> queue[i]]
  BY <1>2
<1> QED
  BY <1>3, <1>4, <1>5 DEF queue

(* No failure and no retry loses an event of a live session or stores one  *)
(* twice (SessionWriteBehind.startWrite, appendLiveBatch).                 *)
THEOREM SessionLosesNothing == Spec => []NothingLost
<1>1. SessionInv => NothingLost
  <2> SUFFICES ASSUME SessionInv, Up
               PROVE  /\ w.active \o w.pending = [i \in 1..(Len(log) - Behind) |-> Behind + i]
                      /\ lines = SubSeq(log, 1, Len(lines))
                      /\ Refused \/ Len(lines) = cursor
    BY DEF NothingLost
  <2>1. /\ log \in Seq(Kinds) /\ lines \in Seq(Kinds) /\ Len(lines) \in Nat
        /\ Len(log) \in Nat /\ Len(lines) <= Len(log)
        /\ \A i \in 1..Len(lines) : lines[i] = log[i]
    BY UpFacts DEF SessionInv, FileInv
  <2>2. lines = SubSeq(log, 1, Len(lines))
    <3> DEFINE start == SubSeq(log, 1, Len(lines))
    <3>1. /\ start \in Seq(Kinds) /\ Len(start) = Len(lines)
          /\ \A i \in 1..Len(lines) : start[i] = log[i]
      BY <2>1, SubSeqProperties
    <3> HIDE DEF start
    <3>2. start = lines
      BY <2>1, <3>1, SeqEqual
    <3> QED
      BY <3>2 DEF start
  <2>3. Refused \/ Len(lines) = cursor
    <3>1. IF materialized THEN Len(lines) = cursor /\ cursor > 0 ELSE cursor = 0
      BY DEF SessionInv, FileInv
    <3>2. lines = <<>> => Len(lines) = 0
      OBVIOUS
    <3> QED
      BY <3>1, <3>2 DEF Refused
  <2> QED
    BY <2>2, <2>3, QueueIsTheRest
<1> QED
  BY <1>1, SessionInvariant, PTL

(* What a flush has covered stays in the file through failed appends,      *)
(* crashes and repairs (docs/subsystems/persistence.md, checkpoints).      *)
THEOREM FlushedSurvives == Spec => []AckedSurvives
<1>1. SessionInv => AckedSurvives
  BY DEF SessionInv
<1> QED
  BY <1>1, SessionInvariant, PTL

(* A tool body never runs before its call is stored                        *)
(* (session-checkpoint-policy, tools:execute:before).                      *)
THEOREM EffectsAreRecorded == Spec => []RanIsRecorded
<1>1. SessionInv => RanIsRecorded
  BY DEF SessionInv
<1> QED
  BY <1>1, SessionInvariant, PTL

(* No event waits without something that will write it, and no caller      *)
(* waits for a barrier that has ended (write-behind.ts).                   *)
THEOREM NobodyIsStranded == Spec => []NothingStranded
<1>1. SessionInv => NothingStranded
  BY DEF SessionInv
<1> QED
  BY <1>1, SessionInvariant, PTL

(* A session that is retired has its whole log in the file                 *)
(* (coordinator.ts retireCore).                                            *)
THEOREM RetirementIsDurable == Spec => RetiredIsDurable
<1>1. ASSUME SessionInv, [Next]_vars
      PROVE  [phase = "retiring" /\ phase' = "cold" => lines = log]_vars
  <2> SUFFICES ASSUME phase = "retiring", phase' = "cold" PROVE lines = log
    OBVIOUS
  <2>1. Retired
    BY <1>1 DEF Next, vars, memory, Starting, Create, Resume, InitSucceeds, InitFails, Boot,
         Flushing, Checkpoint, ReaderFlush, JoinFlush, DrainStep, Writing, Deadline,
         WriteStores, WriteIsLost, Repairing, BeginRepair, Truncate, AppendRest, RepairFails,
         Stopping, Retire, Retired, RetirementFails, Close, Closed, Crash, Emit, RunTool
  <2>2. Up /\ call["drain"] = "ok"
    BY <2>1 DEF Up, Retired
  <2>3. /\ Len(log) <= Len(lines) /\ Len(lines) <= Len(log)
        /\ \A i \in 1..Len(lines) : lines[i] = log[i]
        /\ log \in Seq(Kinds) /\ lines \in Seq(Kinds)
        /\ Len(log) \in Nat /\ Len(lines) \in Nat
    BY <1>1, <2>2, UpFacts DEF SessionInv, FlushInv, FileInv
  <2> QED
    BY <2>3, SeqEqual
<1> QED
  BY <1>1, SessionInvariant, PTL DEF Spec, RetiredIsDurable

-----------------------------------------------------------------------------
(* Refinement: Recovered is the stored log, and a session is open when it  *)
(* is up.                                                                  *)

LEMMA RecoveredIs ==
  ASSUME SessionInv
  PROVE  /\ Recovered \in Seq(Kinds) /\ Len(Recovered) \in Nat
         /\ Len(Recovered) = Len(lines) + Len(tail)
         /\ Len(lines) \in Nat /\ Len(lines) <= Len(Recovered)
         /\ acked \in Nat /\ acked <= Len(lines) /\ acked <= Len(Recovered)
         /\ tail = <<>> => Recovered = lines
<1>1. /\ lines \in Seq(Kinds) /\ tail \in Seq(Kinds) /\ Len(tail) \in Nat
      /\ Len(lines) \in Nat /\ acked \in Nat /\ acked <= Len(lines)
  BY ColdFacts DEF SessionInv, TypeOK, AckedSurvives
<1>2. Recovered \in Seq(Kinds) /\ Len(Recovered) = Len(lines) + Len(tail)
  BY <1>1, ConcatEvents DEF Recovered
<1>3. tail = <<>> => Recovered = lines
  BY <1>1, ConcatEmptySeq DEF Recovered
<1>4. acked <= Len(Recovered) /\ Len(Recovered) \in Nat
  BY <1>1, <1>2
<1> QED
  BY <1>1, <1>2, <1>3, <1>4

LEMMA InterruptedRecovers ==
  ASSUME SessionInv, Interrupted
  PROVE  Durable!Extends(Recovered', Recovered) /\ Len(lines') \in Len(lines)..Len(Recovered')
<1>1. /\ lines \in Seq(Kinds) /\ Len(lines) \in Nat
      /\ lines' \in Seq(Kinds) /\ tail' \in Seq(Kinds)
      /\ Len(lines) <= Len(lines') /\ \A i \in 1..Len(lines) : lines'[i] = lines[i]
      /\ tail # <<>> => UNCHANGED <<lines, tail>>
  BY InterruptedExtends, ColdFacts
<1>4. Len(lines') \in Len(lines)..Len(Recovered')
  <2>1. Len(Recovered') = Len(lines') + Len(tail')
    BY <1>1, ConcatEvents DEF Recovered
  <2>2. Len(lines') \in Nat /\ Len(tail') \in Nat
    BY <1>1
  <2> QED
    BY <1>1, <2>1, <2>2
<1>2. CASE tail # <<>>
  <2>1. Recovered' = Recovered
    BY <1>1, <1>2 DEF Recovered
  <2> QED
    BY <1>4, <2>1, RecoveredIs DEF Durable!Extends
<1>3. CASE tail = <<>>
  <2>1. Recovered = lines
    BY <1>3, RecoveredIs
  <2>2. /\ Len(Recovered') = Len(lines') + Len(tail')
        /\ \A i \in 1..Len(lines') : Recovered'[i] = lines'[i]
    BY <1>1, ConcatEvents DEF Recovered
  <2>3. Len(lines') \in Nat /\ Len(tail') \in Nat
    BY <1>1
  <2>4. /\ Len(Recovered') >= Len(lines)
        /\ \A i \in 1..Len(lines) : Recovered'[i] = lines[i]
    BY <1>1, <2>2, <2>3
  <2> QED
    BY <1>4, <2>1, <2>4 DEF Durable!Extends
<1> QED
  BY <1>2, <1>3

(* A step that only adds to what is stored while no session is open.       *)
LEMMA ExtendingMends ==
  ASSUME SessionInv, ~Up, Up' = Up, Durable!Extends(Recovered', Recovered),
         Len(lines') \in Len(lines)..Len(Recovered'), UNCHANGED acked
  PROVE  Durable!Mend
<1>1. /\ SubSeq(Recovered, 1, Len(Recovered)) = Recovered
      /\ Len(Recovered) \in Len(lines)..Len(Recovered)
  <2>1. Len(lines) \in Nat /\ Len(tail) \in Nat
    BY ColdFacts
  <2> QED
    BY <2>1, RecoveredIs, SubSeqFull
<1> QED
  BY <1>1 DEF Durable!Mend

(* A live session's file has no torn end: what is stored is its lines.     *)
LEMMA LongerFileGrows ==
  ASSUME SessionInv, Up, Up', UNCHANGED <<acked, tail>>, lines' \in Seq(Kinds),
         Len(lines) <= Len(lines'), \A i \in 1..Len(lines) : lines'[i] = lines[i]
  PROVE  Durable!Grow
<1>1. tail = <<>> /\ lines \in Seq(Kinds)
  BY UpFacts
<1>2. Recovered = lines /\ Recovered' = lines'
  BY <1>1, ConcatEmptySeq DEF Recovered
<1>3. Durable!Extends(Recovered', Recovered)
  BY <1>1, <1>2 DEF Durable!Extends
<1> QED
  BY <1>2, <1>3 DEF Durable!Grow

LEMMA FileGrows ==
  ASSUME SessionInv, InitSucceeds \/ InitFails \/ WriteStores \/ WriteIsLost
  PROVE  Durable!Grow
<1>1. Up /\ Up' /\ UNCHANGED acked
  BY DEF InitSucceeds, InitFails, WriteStores, WriteIsLost, SessionInv, RestInv, Idle, Up,
         history
<1>2. CASE init = "pending" /\ (Store(SeedBatch) \/ StoreFails(SeedBatch))
  <2>1. /\ SeedBatch \in Seq(Nat) /\ Continues(SeedBatch, cursor)
        /\ cursor + Len(SeedBatch) <= Len(log)
    BY <1>1, <1>2, SeedsAre
  <2>2. /\ lines' \in Seq(Kinds) /\ Len(lines) <= Len(lines')
        /\ \A i \in 1..Len(lines) : lines'[i] = lines[i]
        /\ tail' = tail
    BY <1>1, <1>2, <2>1, StoreWrites, FailureWrites
  <2> QED
    BY <1>1, <2>2, LongerFileGrows
<1>3. CASE (WriteStores \/ WriteIsLost) /\ init = "done"
  <2>1. Store(Fresh(w.active)) \/ StoreFails(Fresh(w.active))
    BY <1>3 DEF WriteStores, WriteIsLost
  <2>2. /\ w.active \in Seq(Nat) /\ Continues(w.active, cursor)
        /\ cursor + Len(w.active) <= Len(log) /\ (Store(w.active) \/ StoreFails(w.active))
    BY <1>1, <1>3, <2>1, ActiveIsNext, FreshIsAll
  <2>3. /\ lines' \in Seq(Kinds) /\ Len(lines) <= Len(lines')
        /\ \A i \in 1..Len(lines) : lines'[i] = lines[i]
        /\ tail' = tail
    BY <1>1, <2>2, StoreWrites, FailureWrites
  <2> QED
    BY <1>1, <2>3, LongerFileGrows
<1>4. CASE UNCHANGED file
  <2>1. lines' = lines /\ tail' = tail
    BY <1>4 DEF file
  <2>2. lines \in Seq(Kinds) /\ Len(lines) \in Nat
    BY ColdFacts
  <2> QED
    BY <1>1, <2>1, <2>2, LongerFileGrows
<1> QED
  BY <1>2, <1>3, <1>4 DEF InitSucceeds, InitFails, WriteStores, WriteIsLost

(* What is acknowledged only rises.                                        *)
LEMMA SettleRaises ==
  ASSUME SessionInv, Up, NEW waiters \in SUBSET Callers, NEW outcome,
         Settle(waiters, outcome)
  PROVE  acked' \in Nat /\ acked <= acked'
<1>1. /\ mark \in [Callers -> Nat] /\ acked \in Nat /\ Len(log) \in Nat
      /\ \A k \in Callers : mark[k] <= Len(log)
  BY UpFacts DEF SessionInv, TypeOK, FlushInv
<1>2. CASE acked' = acked
  BY <1>1, <1>2
<1>3. CASE acked' # acked
  <2> DEFINE covered == {acked} \cup {mark[k] : k \in waiters}
             top == acked + Len(log)
  <2>1. acked' = CHOOSE n \in covered : \A m \in covered : m <= n
    BY <1>3 DEF Settle
  <2>2. covered \subseteq 0..top /\ covered # {} /\ acked \in covered /\ top \in Nat
    BY <1>1
  <2> HIDE DEF covered, top
  <2>3. acked' \in covered /\ \A m \in covered : m <= acked'
    BY <2>1, <2>2, GreatestNumber
  <2> QED
    BY <2>2, <2>3
<1> QED
  BY <1>2, <1>3

LEMMA AnswersAcknowledge ==
  ASSUME SessionInv, SessionInv', DrainStep \/ \E k \in Callers : JoinFlush(k)
  PROVE  Durable!Acknowledge
<1>1. UNCHANGED <<file, memory>>
  BY DEF DrainStep, JoinFlush
<1>2. Up
  <2>1. w.barrier # "none" \/ \E k \in Callers : call[k] = "init"
    BY DEF DrainStep, JoinFlush
  <2> QED
    BY <2>1 DEF SessionInv, RestInv, Idle
<1>3. acked' \in Nat /\ acked <= acked'
  <2>1. CASE acked' = acked
    BY <2>1, RecoveredIs
  <2>2. CASE acked' # acked
    <3>1. \E waiters \in SUBSET Callers, outcome \in {"ok", "failed"} :
            Settle(waiters, outcome)
      <4>1. CASE DrainStep
        <5> DEFINE waiters == IF w'.barrier = "none"
                              THEN {k \in Callers : call[k] = "barrier"} ELSE {}
                   outcome == IF w.barrier = "failed" THEN "failed" ELSE "ok"
        <5>1. Settle(waiters, outcome)
          BY <4>1 DEF DrainStep
        <5>2. waiters \in SUBSET Callers /\ outcome \in {"ok", "failed"}
          OBVIOUS
        <5> HIDE DEF waiters, outcome
        <5> QED
          BY <5>1, <5>2
      <4>2. CASE \E k \in Callers : JoinFlush(k)
        <5>1. PICK k \in Callers : Settle({k}, "ok") \/ Settle({k}, "failed")
          BY <2>2, <4>2 DEF JoinFlush
        <5>2. {k} \in SUBSET Callers
          OBVIOUS
        <5> QED
          BY <5>1, <5>2
      <4> QED
        BY <4>1, <4>2
    <3> QED
      BY <1>2, <3>1, SettleRaises
  <2> QED
    BY <2>1, <2>2
<1>4. acked' <= Len(lines)
  BY <1>1 DEF SessionInv, AckedSurvives, file
<1>5. acked' \in acked..Len(Recovered)
  BY <1>2, <1>3, <1>4, RecoveredIs, UpFacts
<1>6. Up' = Up /\ Recovered' = Recovered /\ lines' = lines
  BY <1>1 DEF Up, Recovered, file, memory
<1> QED
  BY <1>2, <1>5, <1>6 DEF Durable!Acknowledge

LEMMA RepairMends ==
  ASSUME SessionInv, Truncate \/ AppendRest PROVE Durable!Mend
<1>1. ~Up /\ Up' = Up /\ UNCHANGED acked
  <2>1. phase = "cold" /\ phase' = "cold"
    BY ColdFacts DEF Truncate, AppendRest, memory
  <2> QED
    BY <2>1 DEF Truncate, AppendRest, Up, history
<1>2. CASE Truncate
  <2>1. lines' = lines /\ tail' = <<>> /\ lines \in Seq(Kinds) /\ tail \in Seq(Kinds)
    BY <1>2, ColdFacts DEF Truncate
  <2>2. Recovered' = lines
    BY <2>1, ConcatEmptySeq DEF Recovered
  <2>3. /\ Len(lines) \in Len(lines)..Len(Recovered) /\ Len(lines) \in 0..Len(Recovered)
        /\ Len(lines) \in Nat
    BY <2>1, RecoveredIs, ColdFacts
  <2>4. \A i \in 1..Len(lines) : Recovered[i] = lines[i]
    BY <2>1, ConcatEvents DEF Recovered
  <2>5. Durable!Extends(Recovered', SubSeq(Recovered, 1, Len(lines)))
    <3> DEFINE kept == SubSeq(Recovered, 1, Len(lines))
    <3>1. Len(kept) = Len(lines) /\ \A i \in 1..Len(lines) : kept[i] = Recovered[i]
      BY <2>3, RecoveredIs, SubSeqProperties
    <3> HIDE DEF kept
    <3>2. Durable!Extends(Recovered', kept)
      BY <2>2, <2>3, <2>4, <3>1 DEF Durable!Extends
    <3> QED
      BY <3>2 DEF kept
  <2>6. Len(lines') \in Len(lines)..Len(Recovered')
    BY <2>1, <2>2, <2>3
  <2> QED
    BY <1>1, <2>3, <2>5, <2>6 DEF Durable!Mend
<1>3. CASE AppendRest
  <2>1. /\ lines' = lines \o rest /\ tail = <<>> /\ tail' = <<>>
        /\ lines \in Seq(Kinds) /\ rest \in Seq(Kinds)
    BY <1>3, ColdFacts DEF AppendRest
  <2>2. /\ lines' \in Seq(Kinds) /\ Len(lines') = Len(lines) + Len(rest)
        /\ \A i \in 1..Len(lines) : lines'[i] = lines[i]
    BY <2>1, ConcatEvents
  <2>3. Recovered = lines /\ Recovered' = lines'
    BY <2>1, <2>2, ConcatEmptySeq DEF Recovered
  <2>4. Durable!Extends(Recovered', Recovered)
    BY <2>1, <2>2, <2>3 DEF Durable!Extends
  <2>5. Len(lines') \in Len(lines)..Len(Recovered')
    BY <2>1, <2>2, <2>3
  <2> QED
    BY <1>1, <2>4, <2>5, ExtendingMends
<1> QED
  BY <1>2, <1>3

LEMMA LeavingLeaves ==
  ASSUME SessionInv, Retired \/ Closed \/ (Crash /\ Up) PROVE Durable!Leave
<1>1. Up /\ ~Up' /\ UNCHANGED acked
  BY DEF Retired, Closed, Crash, Up, history
<1>2. Durable!Extends(Recovered', Recovered) /\ Len(lines') \in Len(lines)..Len(Recovered')
  <2>1. CASE Retired \/ Closed
    <3>1. Recovered' = Recovered /\ lines' = lines
      BY <2>1 DEF Retired, Closed, file, Recovered
    <3> QED
      BY <3>1, RecoveredIs DEF Durable!Extends
  <2>2. CASE Crash
    BY <2>2, InterruptedRecovers DEF Crash
  <2> QED
    BY <2>1, <2>2
<1> QED
  BY <1>1, <1>2 DEF Durable!Leave

LEMMA OpeningOpens ==
  ASSUME SessionInv,
         (\E seed \in Seeds : Create(seed)) \/ (\E setup \in Setups : Resume(setup))
  PROVE  Durable!Open
<1>1. ~torn /\ Recovered' = Recovered /\ lines' = lines
  BY DEF Create, Resume, Damaged, file, Recovered
<1>2. Recovered = lines
  BY <1>1, RecoveredIs DEF SessionInv, RepairInv
<1> QED
  BY <1>1, <1>2 DEF Create, Resume, Durable!Open, Up, history

LEMMA SilentSteps ==
  ASSUME \/ UNCHANGED vars \/ Boot \/ Checkpoint \/ ReaderFlush \/ Deadline
         \/ BeginRepair \/ RepairFails \/ Retire \/ RetirementFails \/ Close
         \/ (\E kind \in Kinds : Emit(kind)) \/ RunTool
  PROVE  UNCHANGED Durable!vars
<1>1. Recovered' = Recovered /\ lines' = lines /\ acked' = acked
  BY DEF vars, Boot, Checkpoint, ReaderFlush, Deadline, BeginRepair, RepairFails, Retire,
         RetirementFails, Close, Emit, RunTool, file, history, Recovered
<1>2. Up' = Up
  <2>1. phase' = phase \/ Boot \/ Retire \/ RetirementFails \/ Close
    BY DEF vars, Checkpoint, ReaderFlush, Deadline, BeginRepair, RepairFails, Emit, RunTool,
           memory
  <2> QED
    BY <2>1 DEF Boot, Retire, RetirementFails, Close, Up
<1> QED
  BY <1>1, <1>2 DEF Durable!vars

LEMMA RefinesNext ==
  ASSUME SessionInv, SessionInv', [Next]_vars PROVE [Durable!Next]_(Durable!vars)
<1>1. CASE Starting
  BY <1>1, OpeningOpens, FileGrows, SilentSteps DEF Starting, Durable!Next
<1>2. CASE Flushing
  BY <1>2, AnswersAcknowledge, SilentSteps DEF Flushing, Durable!Next
<1>3. CASE Writing
  BY <1>3, FileGrows, SilentSteps DEF Writing, Durable!Next
<1>4. CASE Repairing
  BY <1>4, RepairMends, SilentSteps DEF Repairing, Durable!Next
<1>5. CASE Crash /\ ~Up
  <2>1. /\ Durable!Extends(Recovered', Recovered) /\ Up' = Up /\ UNCHANGED acked
        /\ Len(lines') \in Len(lines)..Len(Recovered')
    BY <1>5, InterruptedRecovers DEF Crash, Up, history
  <2> QED
    BY <1>5, <2>1, ExtendingMends DEF Durable!Next
<1>6. CASE Stopping /\ ~(Crash /\ ~Up)
  BY <1>6, LeavingLeaves, SilentSteps DEF Stopping, Durable!Next
<1>7. CASE UNCHANGED vars \/ (\E kind \in Kinds : Emit(kind)) \/ RunTool
  BY <1>7, SilentSteps
<1> QED
  BY <1>1, <1>2, <1>3, <1>4, <1>5, <1>6, <1>7 DEF Next, Stopping

(* The persistence of a session implements DurableLog: an open log only    *)
(* grows, and what was acknowledged is never lost                          *)
(* (docs/subsystems/persistence.md).                                       *)
THEOREM SessionRefinesDurableLog == Spec => RefinesDurableLog
<1>1. Init => Durable!Init
  BY DEF Init, Durable!Init, Recovered, Up
<1>2. SessionInv /\ SessionInv' /\ [Next]_vars => [Durable!Next]_(Durable!vars)
  BY RefinesNext
<1> QED
  BY <1>1, <1>2, SessionInvariant, PTL DEF Spec, RefinesDurableLog, Durable!Spec

-----------------------------------------------------------------------------
(* What is open at the end of a log, one event at a time.                  *)

LEMMA LastRange ==
  ASSUME NEW events \in Seq(Kinds), NEW kinds
  PROVE  LastOf(events, kinds) \in 0..Len(events)
<1>1. LastOf(events, kinds) # 0 => LastOf(events, kinds) \in 1..Len(events)
  BY LastIsAny
<1> QED
  BY <1>1

LEMMA LastIsGreatest ==
  ASSUME NEW events \in Seq(Kinds), NEW kinds,
         NEW i \in 1..Len(events), events[i] \in kinds
  PROVE  i <= LastOf(events, kinds)
<1> DEFINE at == {j \in DOMAIN events : events[j] \in kinds}
<1>1. at \subseteq 0..Len(events) /\ i \in at /\ Len(events) \in Nat
  OBVIOUS
<1>2. \E j \in at : \A k \in at : k <= j
  BY <1>1, GreatestNumber
<1>3. \A k \in at : k <= LastOf(events, kinds)
  BY <1>1, <1>2 DEF LastOf
<1> QED
  BY <1>1, <1>3

LEMMA LastAppended ==
  ASSUME NEW events \in Seq(Kinds), NEW kind \in Kinds, NEW kinds
  PROVE  LastOf(Append(events, kind), kinds)
           = IF kind \in kinds THEN Len(events) + 1 ELSE LastOf(events, kinds)
<1> DEFINE more == Append(events, kind)
<1>1. /\ more \in Seq(Kinds) /\ Len(more) = Len(events) + 1 /\ Len(events) \in Nat
      /\ \A i \in 1..Len(events) : more[i] = events[i]
      /\ more[Len(events) + 1] = kind
  BY AppendProperties
<1> HIDE DEF more
<1>2. LastOf(more, kinds) \in 0..(Len(events) + 1) /\ LastOf(events, kinds) \in 0..Len(events)
  BY <1>1, LastRange
<1>3. CASE kind \in kinds
  <2>1. Len(events) + 1 \in 1..Len(more) /\ more[Len(events) + 1] \in kinds
    BY <1>1, <1>3
  <2>2. Len(events) + 1 <= LastOf(more, kinds)
    BY <1>1, <2>1, LastIsGreatest
  <2>3. LastOf(more, kinds) = Len(events) + 1
    BY <1>1, <1>2, <2>2
  <2> QED
    BY <1>3, <2>3 DEF more
<1>4. CASE kind \notin kinds
  <2>1. LastOf(more, kinds) # 0 =>
          LastOf(more, kinds) \in 1..Len(events) /\ events[LastOf(more, kinds)] \in kinds
    <3>1. HAVE LastOf(more, kinds) # 0
    <3>2. LastOf(more, kinds) \in 1..Len(more) /\ more[LastOf(more, kinds)] \in kinds
      BY <1>1, <3>1, LastIsAny
    <3>3. LastOf(more, kinds) # Len(events) + 1
      BY <1>1, <1>4, <3>2
    <3> QED
      BY <1>1, <3>2, <3>3
  <2>2. LastOf(events, kinds) # 0 =>
          LastOf(events, kinds) \in 1..Len(more) /\ more[LastOf(events, kinds)] \in kinds
    <3>1. HAVE LastOf(events, kinds) # 0
    <3>2. /\ LastOf(events, kinds) \in 1..Len(events)
          /\ events[LastOf(events, kinds)] \in kinds
      BY <3>1, LastIsAny
    <3> QED
      BY <1>1, <3>2
  <2>3. LastOf(more, kinds) <= LastOf(events, kinds)
    BY <1>2, <2>1, LastIsGreatest
  <2>4. LastOf(events, kinds) <= LastOf(more, kinds)
    BY <1>1, <1>2, <2>2, LastIsGreatest
  <2>5. LastOf(more, kinds) = LastOf(events, kinds)
    BY <1>1, <1>2, <2>3, <2>4
  <2> QED
    BY <1>4, <2>5 DEF more
<1> QED
  BY <1>3, <1>4

LEMMA NothingOpen ==
  /\ ~TurnOpen(<<>>) /\ ~StepOpen(<<>>) /\ ~CallPending(<<>>) /\ ~CallStarted(<<>>)
  /\ Boundary(<<>>) = "end"
<1>1. \A kinds : LastOf(<<>>, kinds) = 0
  BY DEF LastOf
<1> QED
  BY <1>1 DEF TurnOpen, StepOpen, CallPending, CallStarted, Boundary

(* What an event opens and closes.                                         *)
LEMMA Opens ==
  ASSUME NEW events \in Seq(Kinds), NEW kind \in Kinds
  PROVE  /\ TurnOpen(Append(events, kind))
              <=> (kind \in Opening \/ (kind \notin Ending /\ TurnOpen(events)))
         /\ StepOpen(Append(events, kind))
              <=> \/ kind = "step"
                  \/ kind \notin {"stepEnd"} \cup Opening \cup Ending /\ StepOpen(events)
         /\ CallPending(Append(events, kind))
              <=> \/ kind = "assistant"
                  \/ kind \notin {"stepEnd"} \cup Opening \cup Ending \cup Answers
                       /\ CallPending(events)
         /\ CallStarted(Append(events, kind))
              <=> (kind = "call" \/ (kind # "assistant" /\ CallStarted(events)))
<1>1. Len(events) \in Nat /\ \A kinds : LastOf(events, kinds) \in 0..Len(events)
  BY LastRange
<1>2. \A kinds : LastOf(Append(events, kind), kinds)
                   = IF kind \in kinds THEN Len(events) + 1 ELSE LastOf(events, kinds)
  BY LastAppended
<1>3. TurnOpen(Append(events, kind))
        <=> (kind \in Opening \/ (kind \notin Ending /\ TurnOpen(events)))
  <2>1. ~(kind \in Opening /\ kind \in Ending)
    BY DEF Opening, Ending
  <2> QED
    BY <1>1, <1>2, <2>1 DEF TurnOpen
<1>4. StepOpen(Append(events, kind))
        <=> \/ kind = "step"
            \/ kind \notin {"stepEnd"} \cup Opening \cup Ending /\ StepOpen(events)
  <2> DEFINE closing == {"stepEnd"} \cup Opening \cup Ending
  <2>1. ~(kind \in {"step"} /\ kind \in closing)
    BY DEF Opening, Ending
  <2>2. \A e : StepOpen(e) <=> LastOf(e, {"step"}) > LastOf(e, closing)
    BY DEF StepOpen
  <2> HIDE DEF closing
  <2>3. StepOpen(Append(events, kind))
          <=> (kind \in {"step"} \/ (kind \notin closing /\ StepOpen(events)))
    BY <1>1, <1>2, <2>1, <2>2
  <2> QED
    BY <2>3 DEF closing
<1>5. CallPending(Append(events, kind))
        <=> \/ kind = "assistant"
            \/ kind \notin {"stepEnd"} \cup Opening \cup Ending \cup Answers
                 /\ CallPending(events)
  <2> DEFINE closing == {"stepEnd"} \cup Opening \cup Ending \cup Answers
  <2>1. ~(kind \in {"assistant"} /\ kind \in closing)
    BY DEF Opening, Ending, Answers
  <2>2. \A e : CallPending(e) <=> LastOf(e, {"assistant"}) > LastOf(e, closing)
    BY DEF CallPending
  <2> HIDE DEF closing
  <2>3. CallPending(Append(events, kind))
          <=> (kind \in {"assistant"} \/ (kind \notin closing /\ CallPending(events)))
    BY <1>1, <1>2, <2>1, <2>2
  <2> QED
    BY <2>3 DEF closing
<1>6. CallStarted(Append(events, kind))
        <=> (kind = "call" \/ (kind # "assistant" /\ CallStarted(events)))
  BY <1>1, <1>2 DEF CallStarted
<1> QED
  BY <1>3, <1>4, <1>5, <1>6

LEMMA BoundaryMoves ==
  ASSUME NEW events \in Seq(Kinds), NEW kind \in Kinds
  PROVE  Boundary(Append(events, kind)) = IF kind = "note" THEN Boundary(events) ELSE kind
<1> DEFINE telling == Kinds \ {"note"}
           more == Append(events, kind)
<1>1. /\ more \in Seq(Kinds) /\ Len(events) \in Nat
      /\ \A i \in 1..Len(events) : more[i] = events[i]
      /\ more[Len(events) + 1] = kind
  BY AppendProperties
<1>2. LastOf(more, telling)
        = IF kind \in telling THEN Len(events) + 1 ELSE LastOf(events, telling)
  BY LastAppended
<1>3. LastOf(events, telling) \in 0..Len(events)
  BY LastRange
<1>4. \A e : Boundary(e) = IF LastOf(e, telling) = 0 THEN "end" ELSE e[LastOf(e, telling)]
  BY DEF Boundary
<1>5. kind \in telling <=> kind # "note"
  OBVIOUS
<1> HIDE DEF telling, more
<1>6. Boundary(more) = IF kind = "note" THEN Boundary(events) ELSE kind
  <2>1. CASE kind = "note"
    BY <1>1, <1>2, <1>3, <1>4, <1>5, <2>1
  <2>2. CASE kind # "note"
    BY <1>1, <1>2, <1>3, <1>4, <1>5, <2>2
  <2> QED
    BY <2>1, <2>2
<1> QED
  BY <1>6 DEF more

-----------------------------------------------------------------------------
(* What is open fits with the last event that tells, at every point of a   *)
(* log in order.                                                           *)

Shape(events) ==
  /\ StepOpen(events) => TurnOpen(events)
  /\ CallPending(events) => StepOpen(events)
  /\ Boundary(events) \in Ending => ~TurnOpen(events)
  /\ Boundary(events) \in {"start", "stepEnd"} => TurnOpen(events) /\ ~StepOpen(events)
  /\ Boundary(events) \in {"step"} \cup Answers => StepOpen(events)
  /\ Boundary(events) = "assistant" => CallPending(events) /\ ~CallStarted(events)
  /\ Boundary(events) = "call" => CallPending(events) /\ CallStarted(events)

LEMMA ShapeExtends ==
  ASSUME NEW events \in Seq(Kinds), NEW kind \in Kinds, Shape(events), Fits(kind, events)
  PROVE  Shape(Append(events, kind))
<1> USE DEF Opening, Ending, Answers
<1>1. kind \in {"note", "step", "assistant", "call", "stepEnd", "start", "end",
                "interrupted", "result", "unknown", "notStarted"}
  BY DEF Kinds
<1>2. CASE kind = "note"
  BY <1>2, Opens, BoundaryMoves DEF Shape
<1>3. CASE kind = "start"
  <2>1. ~TurnOpen(events)
    BY <1>3 DEF Fits
  <2> QED
    BY <1>3, <2>1, Opens, BoundaryMoves DEF Shape
<1>4. CASE kind \in {"end", "interrupted"}
  <2>1. TurnOpen(events) /\ ~StepOpen(events)
    BY <1>4 DEF Fits
  <2> QED
    BY <1>4, <2>1, Opens, BoundaryMoves DEF Shape
<1>5. CASE kind = "step"
  <2>1. TurnOpen(events) /\ ~StepOpen(events)
    BY <1>5 DEF Fits
  <2> QED
    BY <1>5, <2>1, Opens, BoundaryMoves DEF Shape
<1>6. CASE kind \in {"stepEnd", "assistant"}
  <2>1. StepOpen(events)
    BY <1>6 DEF Fits
  <2> QED
    BY <1>6, <2>1, Opens, BoundaryMoves DEF Shape
<1>7. CASE kind \in {"call", "notStarted"}
  <2>1. CallPending(events) /\ ~CallStarted(events)
    BY <1>7 DEF Fits
  <2> QED
    BY <1>7, <2>1, Opens, BoundaryMoves DEF Shape
<1>8. CASE kind \in {"result", "unknown"}
  <2>1. CallPending(events) /\ CallStarted(events)
    BY <1>8 DEF Fits
  <2> QED
    BY <1>8, <2>1, Opens, BoundaryMoves DEF Shape
<1> QED
  BY <1>1, <1>2, <1>3, <1>4, <1>5, <1>6, <1>7, <1>8

(* A prefix of a log in order is in order, and an event that fits keeps it *)
(* so.                                                                     *)
LEMMA PrefixInOrder ==
  ASSUME NEW events \in Seq(Kinds), WellFormed(events), NEW part \in Seq(Kinds),
         Len(part) <= Len(events), \A i \in 1..Len(part) : part[i] = events[i]
  PROVE  WellFormed(part)
<1>1. ASSUME NEW i \in DOMAIN part PROVE Fits(part[i], SubSeq(part, 1, i - 1))
  <2>1. /\ i \in 1..Len(part) /\ i \in 1..Len(events) /\ i - 1 \in 0..Len(part)
        /\ i - 1 \in 0..Len(events) /\ Len(part) \in Nat /\ Len(events) \in Nat
    OBVIOUS
  <2>2. Fits(events[i], SubSeq(events, 1, i - 1))
    BY <2>1 DEF WellFormed
  <2>3. SubSeq(part, 1, i - 1) = [j \in 1..(i - 1) |-> part[j]]
    BY <2>1
  <2>4. SubSeq(events, 1, i - 1) = [j \in 1..(i - 1) |-> events[j]]
    BY <2>1
  <2>5. \A j \in 1..(i - 1) : part[j] = events[j]
    BY <2>1
  <2>6. SubSeq(part, 1, i - 1) = SubSeq(events, 1, i - 1)
    BY <2>3, <2>4, <2>5
  <2>7. part[i] = events[i]
    BY <2>1
  <2> QED
    BY <2>2, <2>6, <2>7
<1> QED
  BY <1>1 DEF WellFormed

LEMMA OrderExtends ==
  ASSUME NEW events \in Seq(Kinds), WellFormed(events), NEW kind \in Kinds,
         Fits(kind, events)
  PROVE  WellFormed(Append(events, kind))
<1> DEFINE more == Append(events, kind)
<1>1. /\ more \in Seq(Kinds) /\ Len(more) = Len(events) + 1 /\ Len(events) \in Nat
      /\ \A i \in 1..Len(events) : more[i] = events[i]
      /\ more[Len(events) + 1] = kind
  BY AppendProperties
<1> HIDE DEF more
<1>2. ASSUME NEW i \in DOMAIN more PROVE Fits(more[i], SubSeq(more, 1, i - 1))
  <2>1. i \in 1..(Len(events) + 1) /\ i - 1 \in 0..Len(events)
    BY <1>1
  <2>2. SubSeq(more, 1, i - 1) = [j \in 1..(i - 1) |-> more[j]]
    BY <1>1, <2>1
  <2>3. SubSeq(events, 1, i - 1) = [j \in 1..(i - 1) |-> events[j]]
    BY <1>1, <2>1
  <2>4. \A j \in 1..(i - 1) : more[j] = events[j]
    BY <1>1, <2>1
  <2>5. SubSeq(more, 1, i - 1) = SubSeq(events, 1, i - 1)
    BY <2>2, <2>3, <2>4
  <2>6. CASE i \in 1..Len(events)
    <3>1. Fits(events[i], SubSeq(events, 1, i - 1)) /\ more[i] = events[i]
      BY <1>1, <2>6 DEF WellFormed
    <3> QED
      BY <2>5, <3>1
  <2>7. CASE i = Len(events) + 1
    <3>1. SubSeq(events, 1, Len(events)) = events
      BY SubSeqFull
    <3>2. i - 1 = Len(events) /\ more[i] = kind
      BY <1>1, <2>7
    <3> QED
      BY <2>5, <3>1, <3>2
  <2> QED
    BY <1>1, <2>1, <2>6, <2>7
<1>3. WellFormed(more)
  BY <1>2 DEF WellFormed
<1> QED
  BY <1>3 DEF more

LEMMA InOrderHasShape ==
  ASSUME NEW events \in Seq(Kinds), WellFormed(events) PROVE Shape(events)
<1> DEFINE T == {n \in 0..Len(events) : ~Shape(SubSeq(events, 1, n))}
<1>1. Len(events) \in Nat /\ SubSeq(events, 1, Len(events)) = events
  BY SubSeqFull
<1>2. SUFFICES ASSUME ~Shape(events) PROVE FALSE
  OBVIOUS
<1>3. T \subseteq Nat /\ T # {}
  <2>1. Len(events) \in 0..Len(events)
    BY <1>1
  <2>2. ~Shape(SubSeq(events, 1, Len(events)))
    BY <1>1, <1>2, Zenon
  <2>3. Len(events) \in T
    BY <2>1, <2>2
  <2> QED
    BY <2>3
<1>4. PICK n \in T : \A m \in T : n <= m
  BY <1>3, LeastNumber
<1>5. n \in 0..Len(events) /\ ~Shape(SubSeq(events, 1, n))
  BY <1>4
<1>6. n # 0
  <2>1. SubSeq(events, 1, 0) = <<>>
    OBVIOUS
  <2>2. Shape(<<>>)
    BY NothingOpen DEF Shape, Ending, Answers
  <2> QED
    BY <1>5, <2>1, <2>2
<1> DEFINE before == SubSeq(events, 1, n - 1)
           whole == SubSeq(events, 1, n)
<1>7. n \in 1..Len(events) /\ n - 1 \in 0..Len(events) /\ ~(n <= n - 1)
  BY <1>1, <1>5, <1>6
<1>8. Shape(before)
  BY <1>4, <1>7
<1>9. Fits(events[n], before) /\ events[n] \in Kinds
  BY <1>7 DEF WellFormed
<1>10. before \in Seq(Kinds)
  BY <1>7, SubSeqProperties
<1>11. whole = Append(before, events[n])
  BY <1>7
<1> HIDE DEF before, whole
<1>12. Shape(whole)
  BY <1>8, <1>9, <1>10, <1>11, ShapeExtends
<1> QED
  BY <1>5, <1>12 DEF whole

-----------------------------------------------------------------------------
(* What the loop, a repair and a resume add to a log in order.             *)

(* The loop's next event fits: what is open follows from the last event    *)
(* that tells.                                                             *)
LEMMA LegalFits ==
  ASSUME SessionInv, WellFormed(log), NEW kind \in Kinds, Legal(kind)
  PROVE  Fits(kind, log)
<1>1. Shape(log)
  BY InOrderHasShape DEF SessionInv, TypeOK
<1> DEFINE last == Boundary(log)
<1>2. kind \in {"note", "step", "assistant", "call", "stepEnd", "start", "end", "result"}
  BY DEF Legal, Kinds, Opening, Ending, Answers
<1>3. CASE kind = "note"
  BY <1>3 DEF Fits, Opening, Ending
<1>4. CASE kind = "start"
  <2>1. last \in Ending
    BY <1>4 DEF Legal
  <2> QED
    BY <1>1, <1>4, <2>1 DEF Shape, Fits, Opening, Ending
<1>5. CASE kind \in {"step", "end"}
  <2>1. last \in {"start", "stepEnd"}
    BY <1>5 DEF Legal
  <2> QED
    BY <1>1, <1>5, <2>1 DEF Shape, Fits, Opening, Ending
<1>6. CASE kind = "assistant"
  <2>1. last = "step"
    BY <1>6 DEF Legal
  <2> QED
    BY <1>1, <1>6, <2>1 DEF Shape, Fits, Opening, Ending
<1>7. CASE kind = "call"
  <2>1. last = "assistant"
    BY <1>7 DEF Legal
  <2> QED
    BY <1>1, <1>7, <2>1 DEF Shape, Fits, Opening, Ending
<1>8. CASE kind = "result"
  <2>1. last = "call"
    BY <1>8 DEF Legal
  <2> QED
    BY <1>1, <1>8, <2>1 DEF Shape, Fits, Opening, Ending
<1>9. CASE kind = "stepEnd"
  <2>1. last \in {"step", "assistant", "call"} \cup Answers
    BY <1>9 DEF Legal
  <2> QED
    BY <1>1, <1>9, <2>1 DEF Shape, Fits, Opening, Ending
<1> QED
  BY <1>2, <1>3, <1>4, <1>5, <1>6, <1>7, <1>8, <1>9

(* The closers of an interrupted turn.                                     *)
LEMMA CloseInOrder ==
  ASSUME NEW events \in Seq(Kinds), WellFormed(events)
  PROVE  WellFormed(events \o Closers(events))
<1> USE DEF Opening, Ending, Answers
<1> DEFINE answer == IF ~CallPending(events) THEN <<>>
                     ELSE IF CallStarted(events) THEN <<"unknown">> ELSE <<"notStarted">>
           ending == IF StepOpen(events) THEN <<"stepEnd">> ELSE <<>>
           answered == events \o answer
           ended == answered \o ending
<1>1. {"unknown", "notStarted", "stepEnd", "interrupted"} \subseteq Kinds
  BY DEF Kinds
<1>2. \A e \in Seq(Kinds), k \in Kinds : e \o <<k>> = Append(e, k) /\ e \o <<>> = e
  OBVIOUS
<1>3. CASE ~TurnOpen(events)
  <2>1. Closers(events) = <<>>
    BY <1>3 DEF Closers
  <2> QED
    BY <1>1, <1>2, <2>1
<1>4. CASE TurnOpen(events)
  <2>1. /\ answered \in Seq(Kinds) /\ WellFormed(answered)
        /\ TurnOpen(answered) /\ (StepOpen(answered) <=> StepOpen(events))
    <3>1. CASE ~CallPending(events)
      <4>1. answered = events
        BY <1>1, <1>2, <3>1
      <4> HIDE DEF answered
      <4> QED
        BY <1>4, <4>1
    <3>2. CASE CallPending(events) /\ CallStarted(events)
      <4>1. answered = Append(events, "unknown")
        BY <1>1, <1>2, <3>2
      <4>2. Fits("unknown", events)
        BY <3>2 DEF Fits
      <4> HIDE DEF answered
      <4> QED
        BY <1>1, <1>4, <4>1, <4>2, Opens, OrderExtends
    <3>3. CASE CallPending(events) /\ ~CallStarted(events)
      <4>1. answered = Append(events, "notStarted")
        BY <1>1, <1>2, <3>3
      <4>2. Fits("notStarted", events)
        BY <3>3 DEF Fits
      <4> HIDE DEF answered
      <4> QED
        BY <1>1, <1>4, <4>1, <4>2, Opens, OrderExtends
    <3> QED
      BY <3>1, <3>2, <3>3
  <2>2. answer \in Seq(Kinds) /\ ending \in Seq(Kinds)
    BY <1>1
  <2>3. Closers(events) = answer \o ending \o <<"interrupted">>
    BY <1>4 DEF Closers
  <2> HIDE DEF answer
  <2>4. answered = events \o answer
    OBVIOUS
  <2> HIDE DEF answered
  <2>5. /\ ended \in Seq(Kinds) /\ WellFormed(ended)
        /\ TurnOpen(ended) /\ ~StepOpen(ended)
    <3>1. CASE ~StepOpen(events)
      <4>1. ended = answered
        BY <1>1, <1>2, <2>1, <3>1
      <4> HIDE DEF ended
      <4> QED
        BY <2>1, <3>1, <4>1
    <3>2. CASE StepOpen(events)
      <4>1. ended = Append(answered, "stepEnd")
        BY <1>1, <1>2, <2>1, <3>2
      <4>2. Fits("stepEnd", answered)
        BY <2>1, <3>2 DEF Fits
      <4> HIDE DEF ended
      <4> QED
        BY <1>1, <2>1, <4>1, <4>2, Opens, OrderExtends
    <3> QED
      BY <3>1, <3>2
  <2> HIDE DEF ending
  <2>6. ended = answered \o ending
    OBVIOUS
  <2> HIDE DEF ended
  <2>7. WellFormed(Append(ended, "interrupted"))
    <3>1. Fits("interrupted", ended)
      BY <2>5 DEF Fits
    <3> QED
      BY <1>1, <2>5, <3>1, OrderExtends
  <2>8. <<"interrupted">> \in Seq(Kinds)
    BY <1>1
  <2>9. events \o (answer \o ending \o <<"interrupted">>) = ended \o <<"interrupted">>
    BY <2>2, <2>4, <2>6, <2>8, ConcatAssociative, ConcatProperties
  <2> QED
    BY <1>1, <1>2, <2>3, <2>5, <2>7, <2>9
<1> QED
  BY <1>3, <1>4

(* Events that belong to no turn.                                          *)
LEMMA NotesInOrder ==
  ASSUME NEW events \in Seq(Kinds), WellFormed(events), NEW notes \in Seq({"note"})
  PROVE  WellFormed(events \o notes)
<1> DEFINE more == events \o notes
<1>1. "note" \in Kinds /\ notes \in Seq(Kinds)
  BY DEF Kinds
<1>2. /\ more \in Seq(Kinds) /\ Len(more) = Len(events) + Len(notes)
      /\ Len(events) \in Nat /\ Len(notes) \in Nat
      /\ \A i \in 1..Len(events) : more[i] = events[i]
      /\ \A i \in 1..Len(more) : i > Len(events) => more[i] = notes[i - Len(events)]
  BY <1>1, ConcatEvents
<1>3. \A i \in 1..Len(more) : i > Len(events) => more[i] = "note"
  BY <1>2
<1> HIDE DEF more
<1>4. ASSUME NEW i \in DOMAIN more PROVE Fits(more[i], SubSeq(more, 1, i - 1))
  <2>1. i \in 1..Len(more) /\ i - 1 \in 0..Len(more)
    BY <1>2
  <2>2. CASE i \in 1..Len(events)
    <3>1. i - 1 \in 0..Len(events)
      BY <1>2, <2>2
    <3>2. SubSeq(more, 1, i - 1) = [j \in 1..(i - 1) |-> more[j]]
      BY <1>2, <2>1
    <3>3. SubSeq(events, 1, i - 1) = [j \in 1..(i - 1) |-> events[j]]
      BY <3>1
    <3>4. \A j \in 1..(i - 1) : more[j] = events[j]
      BY <1>2, <3>1
    <3>5. SubSeq(more, 1, i - 1) = SubSeq(events, 1, i - 1)
      BY <3>2, <3>3, <3>4
    <3>6. Fits(events[i], SubSeq(events, 1, i - 1)) /\ more[i] = events[i]
      BY <1>2, <2>2 DEF WellFormed
    <3> QED
      BY <3>5, <3>6
  <2>3. CASE i > Len(events)
    <3>1. more[i] = "note"
      BY <1>3, <2>1, <2>3
    <3> QED
      BY <3>1 DEF Fits, Opening, Ending
  <2> QED
    BY <1>2, <2>1, <2>2, <2>3
<1>5. WellFormed(more)
  BY <1>4 DEF WellFormed
<1> QED
  BY <1>5 DEF more

-----------------------------------------------------------------------------
(* Every step keeps the order of the log and of the file.                  *)

LEMMA EmptyInOrder == WellFormed(<<>>)
BY DEF WellFormed

(* The file of a session that is up is the start of its log.               *)
LEMMA UpInOrder ==
  ASSUME SessionInv', Up', WellFormed(log')
  PROVE  OrderInv'
<1>1. /\ log' \in Seq(Kinds) /\ lines' \in Seq(Kinds) /\ Len(lines') <= Len(log')
      /\ tail' = <<>> /\ repair' = "none"
      /\ \A i \in 1..Len(lines') : lines'[i] = log'[i]
  BY DEF SessionInv, TypeOK, FileInv, RepairInv
<1>2. WellFormed(lines')
  BY <1>1, PrefixInOrder
<1>3. Recovered' = lines'
  BY <1>1, ConcatEmptySeq DEF Recovered
<1>4. WellFormed(Recovered')
  BY <1>2, <1>3
<1> QED
  BY <1>1, <1>4 DEF OrderInv

LEMMA CreateInOrder ==
  ASSUME SessionInv', NEW seed \in Seeds, Create(seed) PROVE OrderInv'
<1>1. WellFormed(log') /\ Up'
  BY OriginsAssumption DEF OriginsAssumption, Create, Up
<1> QED
  BY <1>1, UpInOrder

LEMMA ResumeInOrder ==
  ASSUME SessionInv, SessionInv', OrderInv, NEW setup \in Setups, Resume(setup)
  PROVE  OrderInv'
<1>1. ~torn /\ log' = lines \o setup /\ Up'
  BY DEF Resume, Damaged, Up
<1>2. Recovered = lines /\ lines \in Seq(Kinds)
  BY <1>1, ColdFacts, RecoveredIs
<1>3. WellFormed(lines) /\ setup \in Seq({"note"})
  BY <1>2, OriginsAssumption DEF OriginsAssumption, OrderInv
<1>4. WellFormed(log')
  BY <1>1, <1>2, <1>3, NotesInOrder
<1> QED
  BY <1>1, <1>4, UpInOrder

LEMMA EmitInOrder ==
  ASSUME SessionInv, SessionInv', OrderInv, NEW kind \in Kinds, Emit(kind)
  PROVE  OrderInv'
<1>1. Legal(kind) /\ log' = log \o <<kind>> /\ Up'
  BY DEF Emit, Up
<1>2. log \in Seq(Kinds) /\ WellFormed(log)
  BY DEF SessionInv, TypeOK, OrderInv
<1>3. Fits(kind, log)
  BY <1>1, <1>2, LegalFits
<1>4. log' = Append(log, kind)
  BY <1>1, <1>2
<1>5. WellFormed(log')
  BY <1>2, <1>3, <1>4, OrderExtends
<1> QED
  BY <1>1, <1>5, UpInOrder

(* A session that stays up with the log it had.                            *)
LEMMA SameLogInOrder ==
  ASSUME SessionInv', OrderInv, Up', log' = log PROVE OrderInv'
<1>1. WellFormed(log')
  BY DEF OrderInv
<1> QED
  BY <1>1, UpInOrder

(* A session whose process, or whose life, is over has left its file.      *)
LEMMA LeaveInOrder ==
  ASSUME SessionInv, OrderInv, Retired \/ Closed \/ Boot PROVE OrderInv'
<1>1. file' = file /\ repairing' = repairing /\ log' = <<>>
  <2>1. Boot => ~Up /\ log' = log /\ file' = file /\ repairing' = repairing
    BY DEF Boot, Up
  <2>2. ~Up => log = <<>>
    BY DEF SessionInv, RestInv
  <2> QED
    BY <2>1, <2>2 DEF Retired, Closed, Forget
<1>2. Recovered' = Recovered /\ lines' = lines /\ rest' = rest /\ repair' = repair
  BY <1>1 DEF file, repairing, Recovered
<1>3. WellFormed(log')
  BY <1>1, EmptyInOrder
<1> QED
  BY <1>2, <1>3 DEF OrderInv

LEMMA BeginInOrder ==
  ASSUME SessionInv, OrderInv, BeginRepair PROVE OrderInv'
<1>1. file' = file /\ log' = log /\ rest' = tail \o Closers(Recovered)
  BY DEF BeginRepair, memory
<1>2. Recovered' = Recovered /\ lines' = lines
  BY <1>1 DEF file, Recovered
<1>3. WellFormed(Recovered \o Closers(Recovered))
  BY RecoveredIs, CloseInOrder DEF OrderInv
<1>4. lines \o (tail \o Closers(Recovered)) = Recovered \o Closers(Recovered)
  <2>1. lines \in Seq(Kinds) /\ tail \in Seq(Kinds) /\ Closers(Recovered) \in Seq(Kinds)
    BY ColdFacts, ClosersAre
  <2> QED
    BY <2>1, ConcatAssociative DEF Recovered
<1>5. WellFormed(lines' \o rest')
  BY <1>1, <1>2, <1>3, <1>4
<1> QED
  BY <1>1, <1>2, <1>5 DEF OrderInv

LEMMA TruncateInOrder ==
  ASSUME SessionInv, OrderInv, Truncate PROVE OrderInv'
<1>1. /\ repair # "none" /\ tail' = <<>> /\ lines' = lines /\ rest' = rest /\ log' = log
  BY DEF Truncate, memory
<1>2. /\ lines \in Seq(Kinds) /\ tail \in Seq(Kinds)
  BY ColdFacts
<1>3. WellFormed(lines)
  <2>1. /\ Recovered \in Seq(Kinds) /\ Len(lines) <= Len(Recovered)
        /\ \A i \in 1..Len(lines) : Recovered[i] = lines[i]
    BY <1>2, RecoveredIs, ConcatEvents DEF Recovered
  <2> QED
    BY <1>2, <2>1, PrefixInOrder DEF OrderInv
<1>4. Recovered' = lines
  BY <1>1, <1>2, ConcatEmptySeq DEF Recovered
<1> QED
  BY <1>1, <1>3, <1>4 DEF OrderInv

LEMMA AppendRestInOrder ==
  ASSUME SessionInv, OrderInv, AppendRest PROVE OrderInv'
<1>1. /\ repair = "append" /\ repair' = "none" /\ lines' = lines \o rest
      /\ tail' = tail /\ log' = log
  BY DEF AppendRest, memory
<1>2. lines \in Seq(Kinds) /\ rest \in Seq(Kinds) /\ tail = <<>>
  BY <1>1, ColdFacts
<1>3. lines' \in Seq(Kinds)
  BY <1>1, <1>2, ConcatProperties
<1>4. Recovered' = lines \o rest
  BY <1>1, <1>2, <1>3, ConcatEmptySeq DEF Recovered
<1> QED
  BY <1>1, <1>4 DEF OrderInv

LEMMA RepairFailsInOrder ==
  ASSUME SessionInv, OrderInv, RepairFails PROVE OrderInv'
<1>1. repair' = "none" /\ Recovered' = Recovered /\ log' = log
  BY DEF RepairFails, file, memory, Recovered
<1> QED
  BY <1>1 DEF OrderInv

(* What an interrupted append may leave behind is the start of a log in    *)
(* order: the live one, or the one a repair was completing.                *)
LEMMA RunningInOrder ==
  ASSUME SessionInv, OrderInv, tail = <<>>
  PROVE  WellFormed(lines \o Running) \/ (~materialized /\ lines # <<>>)
<1> USE DEF OrderInv
<1>1. CASE repair = "append"
  BY <1>1 DEF Running
<1>2. CASE ~Up /\ repair # "append"
  <2>1. Running = <<>> /\ lines \in Seq(Kinds)
    BY <1>2, RunningIs, ColdFacts
  <2>2. lines \o Running = Recovered
    BY <2>1, RecoveredIs, ConcatEmptySeq
  <2> QED
    BY <2>2
<1>3. CASE Up /\ init \notin {"pending", "done"}
  <2>1. repair = "none"
    BY <1>3, UpFacts
  <2>2. Running = <<>> /\ lines \in Seq(Kinds)
    BY <1>3, <2>1, ColdFacts DEF Running
  <2>3. lines \o Running = Recovered
    BY <2>2, RecoveredIs, ConcatEmptySeq
  <2> QED
    BY <2>3
<1>4. CASE Up /\ init \in {"pending", "done"} /\ (materialized \/ lines = <<>>)
  <2>1. /\ cursor = Len(lines) /\ lines \in Seq(Kinds) /\ log \in Seq(Kinds)
        /\ \A i \in 1..Len(lines) : lines[i] = log[i]
        /\ repair = "none" /\ cursor \in Nat /\ Len(log) \in Nat
    BY <1>4, UpFacts DEF SessionInv, FileInv
  <2>2. PICK batch \in Seq(Nat) :
          /\ Running = Events(batch) /\ Continues(batch, cursor)
          /\ cursor + Len(batch) <= Len(log)
    <3>1. CASE init = "pending"
      <4>1. /\ SeedBatch \in Seq(Nat) /\ Continues(SeedBatch, cursor)
            /\ cursor + Len(SeedBatch) <= Len(log)
        BY <1>4, <3>1, SeedsAre
      <4>2. Running = Events(SeedBatch)
        BY <2>1, <3>1 DEF Running
      <4> QED
        BY <4>1, <4>2
    <3>2. CASE init = "done"
      <4>1. /\ w.active \in Seq(Nat) /\ Continues(w.active, cursor)
            /\ cursor + Len(w.active) <= Len(log) /\ Fresh(w.active) = w.active
        BY <1>4, <3>2, ActiveIsNext, FreshIsAll
      <4>2. Running = Events(w.active)
        BY <2>1, <3>2, <4>1 DEF Running
      <4> QED
        BY <4>1, <4>2
    <3> QED
      BY <1>4, <3>1, <3>2
  <2>3. /\ Running \in Seq(Kinds) /\ Len(Running) = Len(batch) /\ Len(batch) \in Nat
        /\ \A i \in 1..Len(batch) : Running[i] = log[cursor + i]
    BY <1>4, <2>2, EventsAre
  <2> DEFINE whole == lines \o Running
  <2>4. /\ whole \in Seq(Kinds) /\ Len(whole) = cursor + Len(batch)
        /\ \A i \in 1..Len(lines) : whole[i] = lines[i]
        /\ \A i \in 1..(cursor + Len(batch)) :
             i > cursor => whole[i] = Running[i - cursor]
    <3>1. /\ whole \in Seq(Kinds) /\ Len(whole) = Len(lines) + Len(Running)
          /\ \A i \in 1..Len(lines) : whole[i] = lines[i]
          /\ \A i \in 1..Len(lines) + Len(Running) :
               i > Len(lines) => whole[i] = Running[i - Len(lines)]
      BY <2>1, <2>3, ConcatEvents
    <3> HIDE DEF whole
    <3> QED
      BY <2>1, <2>3, <3>1
  <2> HIDE DEF whole
  <2>5. ASSUME NEW i \in 1..Len(whole) PROVE whole[i] = log[i]
    <3>1. CASE i <= cursor
      BY <2>1, <2>4, <3>1
    <3>2. CASE i > cursor
      <4>1. i - cursor \in 1..Len(batch) /\ cursor + (i - cursor) = i
        BY <2>1, <2>3, <2>4, <3>2
      <4> QED
        BY <2>3, <2>4, <3>2, <4>1
    <3> QED
      BY <2>1, <2>4, <3>1, <3>2
  <2>6. WellFormed(whole)
    BY <2>1, <2>2, <2>4, <2>5, PrefixInOrder
  <2> QED
    BY <2>6 DEF whole
<1> QED
  BY <1>1, <1>2, <1>3, <1>4

LEMMA InterruptedInOrder ==
  ASSUME SessionInv, OrderInv, Interrupted PROVE WellFormed(Recovered')
<1>1. /\ lines \in Seq(Kinds) /\ tail \in Seq(Kinds) /\ Running \in Seq(Kinds)
      /\ Len(lines) \in Nat /\ Len(Running) \in Nat
  BY ColdFacts, RunningIs
<1>2. CASE tail # <<>>
  <2>1. Recovered' = Recovered
    BY <1>2, InterruptedExtends DEF Recovered
  <2> QED
    BY <2>1 DEF OrderInv
<1>3. CASE UNCHANGED file
  <2>1. Recovered' = Recovered
    BY <1>3 DEF file, Recovered
  <2> QED
    BY <2>1 DEF OrderInv
<1>4. CASE /\ tail = <<>>
           /\ lines = <<>> \/ materialized \/ repair = "append"
           /\ lines' = lines \o Running /\ UNCHANGED <<tail, torn>>
  <2>1. WellFormed(lines \o Running)
    BY <1>4, RunningInOrder DEF OrderInv, Running
  <2>2. lines' \in Seq(Kinds)
    BY <1>1, <1>4, ConcatProperties
  <2>3. Recovered' = lines \o Running
    BY <1>4, <2>2, ConcatEmptySeq DEF Recovered
  <2> QED
    BY <2>1, <2>3
<1>5. CASE /\ tail = <<>>
           /\ materialized \/ repair = "append"
           /\ \E n \in 0..Len(Running) :
                IF Compressed
                THEN tail' = SubSeq(Running, 1, n) /\ UNCHANGED lines
                ELSE lines' = lines \o SubSeq(Running, 1, n) /\ UNCHANGED tail
  <2>1. PICK n \in 0..Len(Running) :
          IF Compressed
          THEN tail' = SubSeq(Running, 1, n) /\ UNCHANGED lines
          ELSE lines' = lines \o SubSeq(Running, 1, n) /\ UNCHANGED tail
    BY <1>5
  <2> DEFINE part == SubSeq(Running, 1, n)
  <2>2. /\ part \in Seq(Kinds) /\ Len(part) = n /\ n <= Len(Running)
        /\ \A i \in 1..n : part[i] = Running[i]
    BY <1>1, SubSeqProperties
  <2>3. Recovered' = lines \o part
    <3>1. CASE Compressed
      BY <2>1, <3>1 DEF Recovered
    <3>2. CASE ~Compressed
      <4>1. lines' = lines \o part /\ tail' = <<>>
        BY <1>5, <2>1, <3>2
      <4> HIDE DEF part
      <4>2. lines \o part \in Seq(Kinds)
        BY <1>1, <2>2, ConcatProperties
      <4> QED
        BY <4>1, <4>2, ConcatEmptySeq DEF Recovered
    <3> QED
      BY <3>1, <3>2
  <2> HIDE DEF part
  <2>4. WellFormed(lines \o Running)
    BY <1>5, RunningInOrder DEF OrderInv, Running
  <2> DEFINE less == lines \o part
             whole == lines \o Running
  <2>5. /\ less \in Seq(Kinds) /\ Len(less) = Len(lines) + Len(part)
        /\ \A i \in 1..Len(lines) : less[i] = lines[i]
        /\ \A i \in 1..Len(lines) + Len(part) :
             i > Len(lines) => less[i] = part[i - Len(lines)]
    BY <1>1, <2>2, ConcatEvents
  <2>6. /\ whole \in Seq(Kinds) /\ Len(whole) = Len(lines) + Len(Running)
        /\ \A i \in 1..Len(lines) : whole[i] = lines[i]
        /\ \A i \in 1..Len(lines) + Len(Running) :
             i > Len(lines) => whole[i] = Running[i - Len(lines)]
    BY <1>1, ConcatEvents
  <2> HIDE DEF less, whole
  <2>7. n \in Nat /\ Len(less) = Len(lines) + n /\ Len(less) <= Len(whole)
    BY <1>1, <2>1, <2>2, <2>5, <2>6
  <2>8. ASSUME NEW i \in 1..Len(less) PROVE less[i] = whole[i]
    <3>1. CASE i <= Len(lines)
      BY <1>1, <2>5, <2>6, <3>1
    <3>2. CASE i > Len(lines)
      <4>1. i - Len(lines) \in 1..n
        BY <1>1, <2>7, <3>2
      <4>2. i \in 1..Len(lines) + Len(part) /\ i \in 1..Len(lines) + Len(Running)
        BY <1>1, <2>2, <2>6, <2>7
      <4> QED
        BY <2>2, <2>5, <2>6, <3>2, <4>1, <4>2
    <3> QED
      BY <1>1, <2>7, <3>1, <3>2
  <2>9. WellFormed(lines \o part)
    <3>1. WellFormed(whole)
      BY <2>4 DEF whole
    <3>2. WellFormed(less)
      BY <2>5, <2>6, <2>7, <2>8, <3>1, PrefixInOrder
    <3> QED
      BY <3>2 DEF less
  <2> QED
    BY <2>3, <2>9
<1> QED
  BY <1>2, <1>3, <1>4, <1>5 DEF Interrupted

LEMMA CrashInOrder == ASSUME SessionInv, OrderInv, Crash PROVE OrderInv'
<1>1. Interrupted /\ log' = <<>> /\ repair' = "none"
  BY DEF Crash, Forget
<1>2. WellFormed(log') /\ WellFormed(Recovered')
  BY <1>1, EmptyInOrder, InterruptedInOrder
<1> QED
  BY <1>1, <1>2 DEF OrderInv

LEMMA OrderNext ==
  ASSUME SessionInv, SessionInv', OrderInv, [Next]_vars PROVE OrderInv'
<1>1. CASE UNCHANGED vars
  BY <1>1 DEF vars, file, memory, repairing, OrderInv, Recovered
<1>2. ~Up => init = "done" /\ w = Idle /\ \A k \in Callers : call[k] = "idle"
  BY DEF SessionInv, RestInv
<1>3. CASE InitSucceeds \/ InitFails \/ Flushing \/ Writing
  <2>1. Up
    <3>1. Writing \/ DrainStep => w # Idle
      BY DEF Writing, Deadline, WriteStores, WriteIsLost, DrainStep, Idle
    <3> QED
      BY <1>2, <1>3, <3>1 DEF InitSucceeds, InitFails, Flushing, Checkpoint, ReaderFlush,
         JoinFlush, Up
  <2>2. phase' = phase /\ log' = log
    BY <1>3 DEF InitSucceeds, InitFails, Flushing, Checkpoint, ReaderFlush, JoinFlush,
       DrainStep, Writing, Deadline, WriteStores, WriteIsLost, memory
  <2> QED
    BY <2>1, <2>2, SameLogInOrder DEF Up
<1>4. CASE RunTool \/ Retire \/ RetirementFails \/ Close
  <2>1. Up' /\ log' = log
    BY <1>4 DEF RunTool, Retire, RetirementFails, Close, memory, Up
  <2> QED
    BY <2>1, SameLogInOrder
<1>5. CASE Repairing
  BY <1>5, BeginInOrder, TruncateInOrder, AppendRestInOrder, RepairFailsInOrder
     DEF Repairing
<1>6. CASE Retired \/ Closed \/ Boot \/ Crash
  BY <1>6, LeaveInOrder, CrashInOrder
<1>7. CASE \/ \E seed \in Seeds : Create(seed)
           \/ \E setup \in Setups : Resume(setup)
           \/ \E kind \in Kinds : Emit(kind)
  BY <1>7, CreateInOrder, ResumeInOrder, EmitInOrder
<1> QED
  BY <1>1, <1>3, <1>4, <1>5, <1>6, <1>7 DEF Next, Starting, Stopping

LEMMA OrderStarts == Init => OrderInv
<1>1. Init => log = <<>> /\ repair = "none" /\ Recovered = <<>>
  BY DEF Init, Recovered
<1> QED
  BY <1>1, EmptyInOrder DEF OrderInv

(* The stored log, with what a torn end gives back, keeps the order that   *)
(* every resume demands, through failed appends, crashes in the middle of  *)
(* an append and interrupted repairs (session/src/invariant.ts, repair.ts).*)
THEOREM StoredLogIsWellFormed == Spec => []StoredIsWellFormed
<1>1. SessionInv /\ SessionInv' /\ OrderInv /\ [Next]_vars => OrderInv'
  BY OrderNext
<1>2. OrderInv => StoredIsWellFormed
  BY DEF OrderInv, StoredIsWellFormed
<1> QED
  BY <1>1, <1>2, OrderStarts, SessionInvariant, PTL DEF Spec
===============================================================================
