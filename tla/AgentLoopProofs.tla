--------------------------- MODULE AgentLoopProofs ----------------------------
(***************************************************************************)
(* Proofs about one agent's driver and its tool calls, for any messages,   *)
(* any number of calls, any pool and any interference: AgentInv is         *)
(* inductive.                                                              *)
(***************************************************************************)
EXTENDS AgentLoop, SequenceTheorems, FiniteSetTheorems, WellFoundedInduction, TLAPS

-----------------------------------------------------------------------------
(* The scheduler of tool calls.                                            *)

LEMMA FirstIs ==
  ASSUME NEW T, T \subseteq Nat, T # {}
  PROVE  First(T) \in T /\ \A j \in T : First(T) <= j
<1> DEFINE R == OpToRel(<, Nat)
<1>1. IsWellFoundedOn(R, Nat)
  BY NatLessThanWellFounded
<1>2. ASSUME NEW x \in Nat, NEW y \in Nat, y < x PROVE <<y, x>> \in R
  BY <1>2 DEF OpToRel
<1> HIDE DEF R
<1>3. PICK x \in T : \A y \in T : ~(<<y, x>> \in R)
  BY <1>1, WFMin
<1>4. ASSUME NEW y \in T PROVE x <= y
  <2>1. x \in Nat /\ y \in Nat /\ ~(<<y, x>> \in R)
    BY <1>3
  <2>2. ~(y < x)
    BY <2>1, <1>2
  <2> QED
    BY <2>1, <2>2
<1>5. \E i \in T : \A j \in T : i <= j
  BY <1>4
<1> QED
  BY <1>5 DEF First

LEMMA FlightIsFinite ==
  ASSUME NEW n \in Nat, NEW T \in SUBSET (1..n)
  PROVE  IsFiniteSet(T) /\ Cardinality(T) \in Nat
<1>1. IsFiniteSet(1..n)
  BY FS_Interval
<1> QED
  BY <1>1, FS_Subset, FS_CardinalityType

(* Nothing of a batch is being prepared or has been skipped.               *)
Between(b) == InState(b, {"preparing", "skipped"}) = {}
(* Each call has its result, or was never started.                         *)
Whole(b) == \A i \in DOMAIN b.call : b.call[i] \in {"waiting", "done"}

LEMMA StartsCall ==
  ASSUME NEW n \in 0..MaxCalls, NEW b \in Batches(n), Orderly(b), Between(b),
         NEW i \in 1..n, b.call[i] = "waiting",
         \A j \in 1..n : j < i => b.call[j] # "waiting",
         \A j \in 1..n : j < i /\ b.as[j] = "exclusive" => b.call[j] \notin Active,
         b.mode[i] = "exclusive" =>
           b.last <= i /\ \A j \in 1..n : j < i => b.call[j] = "done",
         Cardinality(b.inFlight) < MaxParallel
  PROVE  BatchInv(StartCall(b, i))
<1> DEFINE c == StartCall(b, i)
<1>1. /\ c \in Batches(n) /\ c.at = "prepare"
      /\ c.call = [b.call EXCEPT ![i] = "preparing"]
      /\ c.as = [b.as EXCEPT ![i] = b.mode[i]]
      /\ c.last = b.last /\ c.inFlight = b.inFlight /\ c.failed = b.failed
  BY DEF StartCall, Batches, CallStates
<1>2. /\ b.call \in [1..n -> CallStates] /\ b.as \in [1..n -> Modes]
      /\ DOMAIN b.call = 1..n /\ DOMAIN c.call = 1..n /\ n \in Nat
  BY <1>1, PoolAssumption DEF Batches
<1> HIDE DEF c
<1>3. \A k \in 1..n : /\ c.call[k] = IF k = i THEN "preparing" ELSE b.call[k]
                      /\ c.as[k] = IF k = i THEN b.mode[i] ELSE b.as[k]
  BY <1>1, <1>2
<1>4. \A k \in 1..n : b.call[k] \notin {"preparing", "skipped"}
  BY <1>2 DEF Between, InState
<1>5. Orderly(c)
  <2>1. ASSUME NEW j \in 1..n, NEW k \in 1..n, j < k
        PROVE  /\ c.call[j] = "waiting" => c.call[k] = "waiting"
               /\ c.call[k] \in Answered => c.call[j] \in Answered
               /\ c.as[k] = "exclusive" /\ c.call[k] \notin {"waiting", "skipped"}
                     => c.call[j] = "done"
               /\ c.as[j] = "exclusive" /\ c.call[j] \in Active => c.call[k] = "waiting"
    <3>1. /\ b.call[j] = "waiting" => b.call[k] = "waiting"
          /\ b.call[k] \in Answered => b.call[j] \in Answered
          /\ b.as[k] = "exclusive" /\ b.call[k] \notin {"waiting", "skipped"}
                => b.call[j] = "done"
          /\ b.as[j] = "exclusive" /\ b.call[j] \in Active => b.call[k] = "waiting"
      BY <1>2, <2>1 DEF Orderly
    <3> QED
      BY <1>2, <1>3, <2>1, <3>1 DEF Answered, Active
  <2>2. \A j \in 1..n : c.as[j] = "exclusive" /\ c.call[j] \in Active => c.last <= j
    BY <1>1, <1>2, <1>3 DEF Orderly
  <2>3. /\ InState(c, {"running"}) \subseteq c.inFlight
        /\ ~c.failed => InState(c, {"lost"}) = {}
    BY <1>1, <1>2, <1>3 DEF Orderly, InState
  <2> QED
    BY <1>1, <1>2, <2>1, <2>2, <2>3 DEF Orderly
<1>6. InState(c, {"preparing"}) = {i} /\ InState(c, {"skipped"}) = {}
  BY <1>2, <1>3, <1>4 DEF InState
<1>7. IsBatch(c)
  BY <1>1 DEF IsBatch
<1> QED
  BY <1>1, <1>2, <1>5, <1>6, <1>7 DEF BatchInv, c

LEMMA SkipsCalls ==
  ASSUME NEW n \in 0..MaxCalls, NEW b \in Batches(n), Orderly(b), Whole(b)
  PROVE  BatchInv(SkipCalls(b))
<1> DEFINE c == SkipCalls(b)
<1>1. /\ b.call \in [1..n -> CallStates] /\ DOMAIN b.call = 1..n /\ n \in Nat
  BY PoolAssumption DEF Batches
<1>2. /\ c \in Batches(n) /\ c.at = "over" /\ DOMAIN c.call = 1..n
      /\ \A i \in 1..n : c.call[i] = IF b.call[i] = "waiting" THEN "skipped" ELSE b.call[i]
      /\ c.as = b.as /\ c.inFlight = b.inFlight /\ c.failed = b.failed
  BY <1>1 DEF SkipCalls, Batches, CallStates, Answered
<1> HIDE DEF c
<1>3. \A i \in 1..n : c.call[i] \in Answered
  BY <1>1, <1>2 DEF Whole, Answered
<1>4. Orderly(c)
  <2>1. ASSUME NEW i \in 1..n, NEW j \in 1..n, i < j
        PROVE  c.as[j] = "exclusive" /\ c.call[j] \notin {"waiting", "skipped"}
                 => c.call[i] = "done"
    BY <1>1, <1>2, <2>1 DEF Orderly, Whole
  <2>2. \A i \in 1..n : c.call[i] \notin Active \cup {"waiting", "running", "lost"}
    BY <1>3 DEF Answered, Active
  <2>3. InState(c, {"running"}) = {} /\ InState(c, {"lost"}) = {}
    BY <1>2, <2>2 DEF InState
  <2> QED
    BY <1>2, <1>3, <2>1, <2>2, <2>3 DEF Orderly
<1>5. InState(c, {"preparing"}) = {} /\ InState(c, Answered) = DOMAIN c.call
  BY <1>2, <1>3 DEF InState, Answered
<1>6. IsBatch(c)
  BY <1>2 DEF IsBatch
<1> QED
  BY <1>2, <1>4, <1>5, <1>6 DEF BatchInv, c

LEMMA StartsGroup ==
  ASSUME NEW n \in 0..MaxCalls, NEW b \in Batches(n), Orderly(b), Whole(b),
         b.inFlight = {}, InState(b, {"waiting"}) # {}, NEW aborted \in BOOLEAN
  PROVE  BatchInv(StartGroup(b, aborted))
<1> DEFINE i == First(InState(b, {"waiting"}))
           end == IF b.mode[i] = "parallel" THEN Len(b.call) ELSE i
           group == [b EXCEPT !.aborted = aborted, !.last = end]
<1>1. /\ b.call \in [1..n -> CallStates] /\ b.as \in [1..n -> Modes] /\ n \in Nat
      /\ DOMAIN b.call = 1..n /\ Len(b.call) = n /\ b.mode \in [1..n -> Modes]
  BY PoolAssumption DEF Batches
<1>2. InState(b, {"waiting"}) \subseteq 1..n /\ InState(b, {"waiting"}) \subseteq Nat
  BY <1>1 DEF InState
<1>3. /\ i \in InState(b, {"waiting"})
      /\ \A j \in InState(b, {"waiting"}) : i <= j
  BY <1>2, FirstIs
<1>4. StartGroup(b, aborted) = IF aborted THEN SkipCalls(group) ELSE StartCall(group, i)
  BY DEF StartGroup
<1> HIDE DEF i
<1>5. i \in 1..n /\ b.call[i] = "waiting" /\ \A j \in 1..n : j < i => b.call[j] = "done"
  BY <1>1, <1>2, <1>3 DEF InState, Whole
<1>6. /\ group \in Batches(n) /\ group.call = b.call /\ group.as = b.as
      /\ group.mode = b.mode /\ group.inFlight = b.inFlight /\ group.failed = b.failed
      /\ group.last = IF b.mode[i] = "parallel" THEN n ELSE i
  <2>1. end \in 0..n /\ end = IF b.mode[i] = "parallel" THEN n ELSE i
    BY <1>1, <1>5
  <2> HIDE DEF end
  <2> QED
    BY <2>1 DEF Batches
<1> HIDE DEF group
<1>7. \A j \in 1..n : b.call[j] \notin Active \cup {"preparing", "skipped"}
  BY <1>1 DEF Whole, Active
<1>8. Orderly(group) /\ Whole(group) /\ Between(group)
  BY <1>1, <1>6, <1>7 DEF Orderly, Whole, Between, InState
<1>9. CASE aborted
  BY <1>4, <1>6, <1>8, <1>9, SkipsCalls
<1>10. CASE ~aborted
  <2>1. Cardinality(group.inFlight) < MaxParallel
    BY <1>6, FS_EmptySet, PoolAssumption
  <2>2. group.mode[i] = "exclusive" =>
          group.last <= i /\ \A j \in 1..n : j < i => group.call[j] = "done"
    BY <1>5, <1>6
  <2>3. BatchInv(StartCall(group, i))
    BY <1>5, <1>6, <1>7, <1>8, <2>1, <2>2, StartsCall
  <2> QED
    BY <1>4, <1>10, <2>3
<1> QED
  BY <1>9, <1>10

LEMMA GroupsOver ==
  ASSUME NEW n \in 0..MaxCalls, NEW b \in Batches(n), Orderly(b), Whole(b),
         b.inFlight = {}, NEW aborted \in BOOLEAN
  PROVE  BatchInv(GroupOver(b, aborted))
<1>1. CASE b.aborted
  BY <1>1, SkipsCalls DEF GroupOver
<1>2. CASE ~b.aborted /\ InState(b, {"waiting"}) = {}
  <2> DEFINE c == [b EXCEPT !.at = "over"]
  <2>1. /\ c \in Batches(n) /\ c.at = "over" /\ c.call = b.call /\ c.as = b.as
        /\ c.inFlight = b.inFlight /\ c.failed = b.failed /\ c.last = b.last
    BY DEF Batches
  <2>2. GroupOver(b, aborted) = c
    BY <1>2 DEF GroupOver
  <2> HIDE DEF c
  <2>3. \A i \in DOMAIN b.call : b.call[i] = "done"
    BY <1>2 DEF Whole, InState
  <2>4. Orderly(c)
    BY <2>1 DEF Orderly, InState
  <2>5. InState(c, {"preparing"}) = {} /\ InState(c, Answered) = DOMAIN c.call
    BY <2>1, <2>3 DEF InState, Answered
  <2>6. IsBatch(c)
    BY <2>1 DEF IsBatch
  <2> QED
    BY <2>1, <2>2, <2>4, <2>5, <2>6 DEF BatchInv
<1>3. CASE ~b.aborted /\ InState(b, {"waiting"}) # {}
  BY <1>3, StartsGroup DEF GroupOver
<1> QED
  BY <1>1, <1>2, <1>3

(* With nothing in flight, prepared or to be committed, each call that was *)
(* started has its result.                                                 *)
LEMMA NothingIsLeft ==
  ASSUME NEW n \in 0..MaxCalls, NEW b \in Batches(n), Orderly(b), Between(b),
         Committable(b) = {}, ~b.failed, b.inFlight = {}
  PROVE  Whole(b)
<1> DEFINE T == {i \in 1..n : b.call[i] \notin {"waiting", "done"}}
<1>1. /\ b.call \in [1..n -> CallStates] /\ DOMAIN b.call = 1..n /\ n \in Nat
  BY PoolAssumption DEF Batches
<1>2. \A i \in 1..n : b.call[i] \in {"waiting", "done", "settled"}
  <2>1. \A i \in 1..n : b.call[i] \notin {"preparing", "skipped", "running", "lost"}
    BY <1>1 DEF Orderly, Between, InState
  <2> QED
    BY <1>1, <2>1 DEF CallStates, Answered
<1>3. ASSUME T # {} PROVE FALSE
  <2> DEFINE i == First(T)
  <2>1. T \subseteq Nat
    OBVIOUS
  <2>2. i \in T /\ \A j \in T : i <= j
    BY <1>3, <2>1, FirstIs
  <2> HIDE DEF i
  <2>3. i \in 1..n /\ b.call[i] = "settled"
    BY <1>2, <2>2
  <2>4. \A j \in 1..(i - 1) : j \in 1..n /\ j < i /\ j \notin T
    BY <1>1, <2>2, <2>3
  <2>5. \A j \in 1..(i - 1) : b.call[j] \in {"waiting", "done"}
    BY <2>4
  <2>6. \A j \in 1..(i - 1) : b.call[j] # "waiting"
    BY <1>1, <2>3, <2>4 DEF Orderly
  <2>7. i \in Committable(b)
    BY <1>1, <2>3, <2>5, <2>6 DEF Committable, InState, Answered
  <2> QED
    BY <2>7
<1> QED
  BY <1>1, <1>3 DEF Whole

LEMMA FillsPool ==
  ASSUME NEW n \in 0..MaxCalls, NEW b \in Batches(n), Orderly(b), Between(b),
         Committable(b) = {}, ~b.failed, NEW aborted \in BOOLEAN
  PROVE  BatchInv(FillPool(b, aborted))
<1>1. /\ b.call \in [1..n -> CallStates] /\ DOMAIN b.call = 1..n /\ n \in Nat
      /\ b.last \in 0..n /\ b.mode \in [1..n -> Modes]
  BY PoolAssumption DEF Batches
<1>2. CASE MayJoin(b)
  <2> DEFINE i == First(InState(b, {"waiting"}))
  <2>1. /\ i \in InState(b, {"waiting"}) /\ i <= b.last
        /\ Cardinality(b.inFlight) < MaxParallel /\ b.mode[i] = "parallel"
    <3>1. PICK k \in InState(b, {"waiting"}) :
            /\ k = i /\ k <= b.last
            /\ Cardinality(b.inFlight) < MaxParallel /\ b.mode[k] = "parallel"
      BY <1>2 DEF MayJoin
    <3> HIDE DEF i
    <3> QED
      BY <3>1
  <2>2. InState(b, {"waiting"}) \subseteq Nat /\ InState(b, {"waiting"}) # {}
    <3>1. InState(b, {"waiting"}) \subseteq Nat
      BY <1>1 DEF InState
    <3>2. InState(b, {"waiting"}) # {}
      BY <2>1
    <3> QED
      BY <3>1, <3>2
  <2>3. \A j \in InState(b, {"waiting"}) : i <= j
    BY <2>2, FirstIs
  <2>4. FillPool(b, aborted) = StartCall(b, i)
    BY <1>2 DEF FillPool
  <2> HIDE DEF i
  <2>5. i \in 1..n /\ b.call[i] = "waiting" /\ \A j \in 1..n : j < i => b.call[j] # "waiting"
    BY <1>1, <2>1, <2>3 DEF InState
  <2>6. \A j \in 1..n : j < i /\ b.as[j] = "exclusive" => b.call[j] \notin Active
    <3> SUFFICES ASSUME NEW j \in 1..n, j < i, b.as[j] = "exclusive", b.call[j] \in Active
                 PROVE  FALSE
      OBVIOUS
    <3>1. b.last <= j
      BY <1>1 DEF Orderly
    <3> QED
      BY <1>1, <2>1, <2>5, <3>1
  <2>7. b.mode[i] # "exclusive"
    BY <2>1
  <2> QED
    BY <2>1, <2>4, <2>5, <2>6, <2>7, StartsCall
<1>3. CASE ~MayJoin(b) /\ b.inFlight # {}
  <2> DEFINE c == [b EXCEPT !.at = "race"]
  <2>1. /\ c \in Batches(n) /\ c.at = "race" /\ c.call = b.call /\ c.as = b.as
        /\ c.inFlight = b.inFlight /\ c.failed = b.failed /\ c.last = b.last
    BY DEF Batches
  <2>2. FillPool(b, aborted) = c
    BY <1>3 DEF FillPool
  <2> HIDE DEF c
  <2>3. Orderly(c)
    BY <2>1 DEF Orderly, InState
  <2>4. InState(c, {"preparing"}) = {} /\ InState(c, {"skipped"}) = {}
    BY <2>1 DEF InState, Between
  <2>5. IsBatch(c)
    BY <2>1 DEF IsBatch
  <2> QED
    BY <2>1, <2>2, <2>3, <2>4, <2>5 DEF BatchInv
<1>4. CASE ~MayJoin(b) /\ b.inFlight = {}
  <2>1. FillPool(b, aborted) = GroupOver(b, aborted)
    BY <1>4 DEF FillPool
  <2> QED
    BY <1>4, <2>1, NothingIsLeft, GroupsOver
<1> QED
  BY <1>2, <1>3, <1>4

LEMMA Drains ==
  ASSUME NEW n \in 0..MaxCalls, NEW b \in Batches(n), Between(b),
         Orderly([b EXCEPT !.failed = TRUE])
  PROVE  BatchInv(Drain(b))
<1> DEFINE f == [b EXCEPT !.failed = TRUE]
           c == Drain(b)
<1>1. /\ c \in Batches(n) /\ c.call = b.call /\ c.as = b.as
      /\ c.inFlight = b.inFlight /\ c.failed = TRUE /\ c.last = b.last
      /\ c.at = IF InState(b, {"running"}) = {} THEN "failed" ELSE "drain"
  BY DEF Batches, Drain
<1>2. /\ f.call = b.call /\ f.as = b.as /\ f.inFlight = b.inFlight
      /\ f.failed = TRUE /\ f.last = b.last
  BY DEF Batches
<1>3. Orderly(f)
  OBVIOUS
<1> HIDE DEF c, f
<1>4. Orderly(c)
  BY <1>1, <1>2, <1>3 DEF Orderly, InState
<1>5. InState(c, {"preparing"}) = {} /\ InState(c, {"skipped"}) = {}
  BY <1>1 DEF InState, Between
<1>6. IsBatch(c)
  BY <1>1 DEF IsBatch
<1>7. InState(c, {"running"}) = InState(b, {"running"})
  BY <1>1 DEF InState
<1> QED
  BY <1>1, <1>4, <1>5, <1>6, <1>7 DEF BatchInv, c

LEMMA Continues ==
  ASSUME NEW n \in 0..MaxCalls, NEW b \in Batches(n), Orderly(b), Between(b),
         Committable(b) = {}, NEW aborted \in BOOLEAN
  PROVE  BatchInv(Continue(b, aborted))
<1>1. CASE b.failed
  <2> DEFINE f == [b EXCEPT !.failed = TRUE]
  <2>1. /\ f.call = b.call /\ f.as = b.as /\ f.inFlight = b.inFlight
        /\ f.failed = TRUE /\ f.last = b.last
    BY DEF Batches
  <2> HIDE DEF f
  <2>2. Orderly(f)
    BY <2>1 DEF Orderly, InState
  <2>3. BatchInv(Drain(b))
    BY <2>2, Drains DEF f
  <2> QED
    BY <1>1, <2>3 DEF Continue
<1>2. CASE ~b.failed
  <2> DEFINE c == [b EXCEPT !.aborted = @ \/ aborted]
  <2>1. b.aborted \/ aborted \in BOOLEAN
    BY DEF Batches
  <2>2. /\ c \in Batches(n) /\ c.call = b.call /\ c.as = b.as
        /\ c.inFlight = b.inFlight /\ c.failed = b.failed /\ c.last = b.last
    BY <2>1 DEF Batches
  <2>3. Continue(b, aborted) = FillPool(c, aborted)
    BY <1>2 DEF Continue
  <2> HIDE DEF c
  <2>4. Orderly(c) /\ Between(c) /\ Committable(c) = {}
    BY <2>2 DEF Orderly, Between, Committable, InState
  <2> QED
    BY <1>2, <2>2, <2>3, <2>4, FillsPool
<1> QED
  BY <1>1, <1>2

LEMMA CommitsReady ==
  ASSUME NEW n \in 0..MaxCalls, NEW b \in Batches(n), Orderly(b), Between(b),
         NEW aborted \in BOOLEAN
  PROVE  BatchInv(CommitReady(b, aborted))
<1>1. CASE Committable(b) = {}
  BY <1>1, Continues DEF CommitReady
<1>2. CASE Committable(b) # {}
  <2> DEFINE c == [b EXCEPT !.at = "commit"]
  <2>1. /\ c \in Batches(n) /\ c.at = "commit" /\ c.call = b.call /\ c.as = b.as
        /\ c.inFlight = b.inFlight /\ c.failed = b.failed /\ c.last = b.last
    BY DEF Batches
  <2>2. CommitReady(b, aborted) = c
    BY <1>2 DEF CommitReady
  <2> HIDE DEF c
  <2>3. Orderly(c) /\ Committable(c) # {}
    BY <1>2, <2>1 DEF Orderly, InState, Committable
  <2>4. InState(c, {"preparing"}) = {} /\ InState(c, {"skipped"}) = {}
    BY <2>1 DEF InState, Between
  <2>5. IsBatch(c)
    BY <2>1 DEF IsBatch
  <2> QED
    BY <2>1, <2>2, <2>3, <2>4, <2>5 DEF BatchInv
<1> QED
  BY <1>1, <1>2

LEMMA MessageIs ==
  ASSUME NEW n \in Nat, NEW modes \in [1..n -> Modes]
  PROVE  /\ Message(modes) \in Batches(n) /\ Message(modes).inFlight = {}
         /\ DOMAIN Message(modes).call = 1..n
         /\ \A i \in 1..n : Message(modes).call[i] = "waiting"
<1> DEFINE calls == [i \in DOMAIN modes |-> "waiting"]
<1>1. DOMAIN modes = 1..n /\ calls \in [1..n -> CallStates]
  BY DEF CallStates
<1>2. \A i \in 1..n : calls[i] = "waiting"
  BY <1>1
<1>3. Message(modes) = [mode |-> modes, as |-> modes, call |-> calls,
                        last |-> 0, at |-> "off", inFlight |-> {}, aborted |-> FALSE,
                        failed |-> FALSE, concluded |-> FALSE]
  BY DEF Message
<1> HIDE DEF calls
<1> QED
  BY <1>1, <1>2, <1>3 DEF Batches

LEMMA Starts ==
  ASSUME NEW n \in 1..MaxCalls, NEW modes \in [1..n -> Modes], NEW aborted \in BOOLEAN
  PROVE  BatchInv(Start(modes, aborted))
<1> DEFINE b == Message(modes)
<1>1. n \in Nat /\ n \in 0..MaxCalls
  BY PoolAssumption
<1>2. Start(modes, aborted) = StartGroup(b, aborted)
  BY DEF Start
<1>3. b \in Batches(n) /\ DOMAIN b.call = 1..n /\ b.inFlight = {}
  BY <1>1, MessageIs
<1>4. \A i \in 1..n : b.call[i] = "waiting"
  BY <1>1, MessageIs
<1> HIDE DEF b
<1>5. Orderly(b) /\ Whole(b)
  <2>1. Cardinality(b.inFlight) <= MaxParallel
    BY <1>3, FS_EmptySet, PoolAssumption
  <2> QED
    BY <1>3, <1>4, <2>1 DEF Orderly, Whole, InState, Active, Answered
<1>6. InState(b, {"waiting"}) # {}
  <2>1. 1 \in 1..n
    BY <1>1
  <2> QED
    BY <1>3, <1>4, <2>1 DEF InState
<1> QED
  BY <1>1, <1>2, <1>3, <1>5, <1>6, StartsGroup

(* A call that was started moves on.                                       *)
LEMMA CallMoves ==
  ASSUME NEW n \in 0..MaxCalls, NEW b \in Batches(n), Orderly(b), NEW i \in 1..n,
         b.call[i] \in {"preparing", "running"},
         NEW new \in {"running", "settled", "lost"},
         NEW c \in Batches(n), c.call = [b.call EXCEPT ![i] = new],
         c.as = b.as, c.last = b.last,
         b.inFlight \subseteq c.inFlight, new = "running" => i \in c.inFlight,
         Cardinality(c.inFlight) <= MaxParallel,
         c.failed \/ (~b.failed /\ new # "lost")
  PROVE  Orderly(c)
<1>1. /\ b.call \in [1..n -> CallStates] /\ b.as \in [1..n -> Modes]
      /\ DOMAIN b.call = 1..n /\ DOMAIN c.call = 1..n
  BY DEF Batches
<1>2. \A k \in 1..n : c.call[k] = IF k = i THEN new ELSE b.call[k]
  BY <1>1
<1>3. ASSUME NEW j \in 1..n, NEW k \in 1..n, j < k
      PROVE  /\ c.call[j] = "waiting" => c.call[k] = "waiting"
             /\ c.call[k] \in Answered => c.call[j] \in Answered
             /\ c.as[k] = "exclusive" /\ c.call[k] \notin {"waiting", "skipped"}
                   => c.call[j] = "done"
             /\ c.as[j] = "exclusive" /\ c.call[j] \in Active => c.call[k] = "waiting"
  <2>1. /\ b.call[j] = "waiting" => b.call[k] = "waiting"
        /\ b.call[k] \in Answered => b.call[j] \in Answered
        /\ b.as[k] = "exclusive" /\ b.call[k] \notin {"waiting", "skipped"}
              => b.call[j] = "done"
        /\ b.as[j] = "exclusive" /\ b.call[j] \in Active => b.call[k] = "waiting"
    BY <1>1, <1>3 DEF Orderly
  <2> QED
    BY <1>2, <2>1 DEF Answered, Active
<1>4. \A j \in 1..n : c.as[j] = "exclusive" /\ c.call[j] \in Active => c.last <= j
  BY <1>1, <1>2 DEF Orderly, Active
<1>5. /\ InState(c, {"running"}) \subseteq c.inFlight
      /\ ~c.failed => InState(c, {"lost"}) = {}
  BY <1>1, <1>2 DEF Orderly, InState
<1> QED
  BY <1>1, <1>3, <1>4, <1>5 DEF Orderly

LEMMA PreparedKeeps ==
  ASSUME NEW n \in 0..MaxCalls, NEW b \in Batches(n), BatchInv(b), b.at = "prepare",
         NEW answer \in {"dispatch", "result", "fails"}, NEW aborted \in BOOLEAN
  PROVE  BatchInv(Prepared(b, answer, aborted))
<1> DEFINE i == First(InState(b, {"preparing"}))
<1>1. /\ b.call \in [1..n -> CallStates] /\ DOMAIN b.call = 1..n /\ n \in Nat
      /\ b.inFlight \in SUBSET (1..n)
  BY PoolAssumption DEF Batches
<1>2. /\ Orderly(b) /\ Cardinality(b.inFlight) < MaxParallel
      /\ Cardinality(b.inFlight) <= MaxParallel
      /\ Cardinality(b.inFlight) \in Nat /\ IsFiniteSet(b.inFlight)
  <2>1. Orderly(b) /\ Cardinality(b.inFlight) < MaxParallel
    BY DEF BatchInv
  <2>2. Cardinality(b.inFlight) \in Nat /\ IsFiniteSet(b.inFlight)
    BY <1>1, FlightIsFinite
  <2> QED
    BY <2>1, <2>2, PoolAssumption
<1>3. PICK k \in 1..n : InState(b, {"preparing"}) = {k}
  BY <1>1 DEF BatchInv
<1>4. i = k
  BY <1>3, FirstIs
<1>5. Prepared(b, answer, aborted) =
        IF b.failed \/ answer = "fails" THEN Drain([b EXCEPT !.call[i] = "lost"])
        ELSE IF answer = "result" THEN CommitReady([b EXCEPT !.call[i] = "settled"], aborted)
        ELSE CommitReady([b EXCEPT !.call[i] = "running", !.inFlight = @ \cup {i}], aborted)
  BY DEF Prepared
<1> HIDE DEF i
<1>6. /\ i \in 1..n /\ b.call[i] = "preparing"
      /\ \A j \in 1..n : j # i => b.call[j] \notin {"preparing", "skipped"}
  BY <1>1, <1>3, <1>4 DEF InState, BatchInv
<1>7. CASE b.failed \/ answer = "fails"
  <2> DEFINE c == [b EXCEPT !.call[i] = "lost"]
             f == [c EXCEPT !.failed = TRUE]
  <2>1. /\ c \in Batches(n) /\ c.call = [b.call EXCEPT ![i] = "lost"]
        /\ c.as = b.as /\ c.inFlight = b.inFlight /\ c.last = b.last
    BY <1>1, <1>6 DEF Batches, CallStates
  <2>2. Prepared(b, answer, aborted) = Drain(c)
    BY <1>5, <1>7
  <2> HIDE DEF c
  <2>3. /\ f \in Batches(n) /\ f.call = c.call /\ f.as = c.as
        /\ f.inFlight = c.inFlight /\ f.last = c.last /\ f.failed = TRUE
    BY <2>1 DEF Batches
  <2> HIDE DEF f
  <2>4. Orderly(f)
    BY <1>2, <1>6, <2>1, <2>3, CallMoves
  <2>5. Between(c)
    BY <1>1, <1>6, <2>1 DEF Between, InState
  <2> QED
    BY <2>1, <2>2, <2>4, <2>5, Drains DEF f
<1>8. CASE ~b.failed /\ answer = "result"
  <2> DEFINE c == [b EXCEPT !.call[i] = "settled"]
  <2>1. /\ c \in Batches(n) /\ c.call = [b.call EXCEPT ![i] = "settled"]
        /\ c.as = b.as /\ c.inFlight = b.inFlight /\ c.last = b.last /\ c.failed = b.failed
    BY <1>1, <1>6 DEF Batches, CallStates
  <2>2. Prepared(b, answer, aborted) = CommitReady(c, aborted)
    BY <1>5, <1>8
  <2> HIDE DEF c
  <2>3. Orderly(c)
    BY <1>2, <1>6, <1>8, <2>1, CallMoves
  <2>4. Between(c)
    BY <1>1, <1>6, <2>1 DEF Between, InState
  <2> QED
    BY <2>1, <2>2, <2>3, <2>4, CommitsReady
<1>9. CASE ~b.failed /\ answer = "dispatch"
  <2> DEFINE c == [b EXCEPT !.call[i] = "running", !.inFlight = @ \cup {i}]
  <2>1. /\ c \in Batches(n) /\ c.call = [b.call EXCEPT ![i] = "running"]
        /\ c.as = b.as /\ c.inFlight = b.inFlight \cup {i}
        /\ c.last = b.last /\ c.failed = b.failed
    BY <1>1, <1>6 DEF Batches, CallStates
  <2>2. Prepared(b, answer, aborted) = CommitReady(c, aborted)
    BY <1>5, <1>9
  <2> HIDE DEF c
  <2>3. Cardinality(c.inFlight) <= MaxParallel
    <3>1. Cardinality(b.inFlight \cup {i}) =
            IF i \in b.inFlight THEN Cardinality(b.inFlight) ELSE Cardinality(b.inFlight) + 1
      BY <1>2, FS_AddElement
    <3> QED
      BY <1>2, <2>1, <3>1, PoolAssumption
  <2>4. Orderly(c)
    BY <1>2, <1>6, <1>9, <2>1, <2>3, CallMoves
  <2>5. Between(c)
    BY <1>1, <1>6, <2>1 DEF Between, InState
  <2> QED
    BY <2>1, <2>2, <2>4, <2>5, CommitsReady
<1> QED
  BY <1>7, <1>8, <1>9

LEMMA SettledKeeps ==
  ASSUME NEW n \in 0..MaxCalls, NEW b \in Batches(n), BatchInv(b),
         NEW i \in 1..n, b.call[i] = "running", NEW fails \in BOOLEAN
  PROVE  /\ b.at # "drain" => BatchInv(Settled(b, i, fails))
         /\ b.at = "drain" => BatchInv(Drain(Settled(b, i, fails)))
<1> DEFINE new == IF fails THEN "lost" ELSE "settled"
           gone == b.failed \/ fails
           c == [b EXCEPT !.call[i] = new, !.failed = gone]
<1>1. /\ b.call \in [1..n -> CallStates] /\ DOMAIN b.call = 1..n /\ n \in Nat
      /\ b.inFlight \in SUBSET (1..n) /\ Orderly(b)
  BY PoolAssumption DEF Batches, BatchInv
<1>2. Settled(b, i, fails) = c
  BY DEF Settled
<1>3. /\ new \in {"settled", "lost"} /\ gone \in BOOLEAN
      /\ gone \/ (~b.failed /\ new # "lost")
  BY DEF Batches
<1> HIDE DEF new, gone
<1>4. /\ c \in Batches(n) /\ c.call = [b.call EXCEPT ![i] = new]
      /\ c.as = b.as /\ c.inFlight = b.inFlight /\ c.last = b.last /\ c.failed = gone
      /\ c.at = b.at
  BY <1>1, <1>3 DEF Batches, CallStates
<1> HIDE DEF c
<1>5. Cardinality(b.inFlight) <= MaxParallel
  BY <1>1 DEF Orderly
<1>6. Orderly(c)
  <2>1. c.failed \/ (~b.failed /\ new # "lost")
    BY <1>3, <1>4
  <2>2. /\ b.call[i] \in {"preparing", "running"}
        /\ new \in {"running", "settled", "lost"} /\ new # "running"
        /\ b.inFlight \subseteq c.inFlight /\ Cardinality(c.inFlight) <= MaxParallel
    BY <1>3, <1>4, <1>5
  <2> QED
    BY <1>1, <1>4, <2>1, <2>2, CallMoves
<1>7. /\ DOMAIN c.call = 1..n
      /\ \A k \in 1..n : c.call[k] = IF k = i THEN new ELSE b.call[k]
  BY <1>1, <1>4
<1>8. /\ InState(c, {"preparing"}) = InState(b, {"preparing"})
      /\ InState(c, {"skipped"}) = InState(b, {"skipped"})
  BY <1>1, <1>3, <1>7 DEF InState
<1>9. b.at \notin {"over", "failed", "off"}
  <2>1. i \in InState(b, {"running"}) /\ i \notin InState(b, Answered)
    BY <1>1 DEF InState, Answered
  <2>2. b.at = "off" => DOMAIN b.call = {}
    BY DEF BatchInv, NoBatch, Message
  <2> QED
    BY <1>1, <2>1, <2>2 DEF BatchInv
<1>10. Committable(b) # {} => Committable(c) # {}
  <2> SUFFICES ASSUME NEW k \in Committable(b) PROVE k \in Committable(c)
    OBVIOUS
  <2>1. /\ k \in 1..n /\ b.call[k] = "settled"
        /\ \A j \in 1..(k - 1) : b.call[j] \in Answered /\ j \in 1..n
    BY <1>1 DEF Committable, InState
  <2>2. \A j \in 1..(k - 1) : c.call[j] \in Answered
    BY <1>7, <2>1 DEF Answered
  <2> QED
    BY <1>7, <2>1, <2>2 DEF Committable, InState
<1>11. IsBatch(c)
  BY <1>4 DEF IsBatch
<1>12. CASE b.at # "drain"
  BY <1>1, <1>2, <1>4, <1>6, <1>7, <1>8, <1>9, <1>10, <1>11, <1>12 DEF BatchInv
<1>13. CASE b.at = "drain"
  <2> DEFINE f == [c EXCEPT !.failed = TRUE]
  <2>1. /\ f.call = c.call /\ f.as = c.as /\ f.inFlight = c.inFlight
        /\ f.last = c.last /\ f.failed = TRUE
    BY <1>4 DEF Batches
  <2> HIDE DEF f
  <2>2. Orderly(f)
    BY <1>6, <2>1 DEF Orderly, InState
  <2>3. Between(c)
    BY <1>8, <1>13 DEF Between, BatchInv, InState
  <2> QED
    BY <1>2, <1>4, <1>13, <2>2, <2>3, Drains DEF f
<1> QED
  BY <1>12, <1>13

(* One call fewer is in flight.                                            *)
LEMMA RacedKeeps ==
  ASSUME NEW n \in 0..MaxCalls, NEW b \in Batches(n), BatchInv(b), b.at = "race",
         NEW i \in b.inFlight \ InState(b, {"running"}), NEW aborted \in BOOLEAN
  PROVE  BatchInv(Raced(b, i, aborted))
<1> DEFINE c == [b EXCEPT !.inFlight = @ \ {i}]
<1>1. /\ b.inFlight \in SUBSET (1..n) /\ Orderly(b) /\ n \in Nat
      /\ InState(b, {"preparing"}) = {} /\ InState(b, {"skipped"}) = {}
  BY PoolAssumption DEF Batches, BatchInv
<1>2. /\ c \in Batches(n) /\ c.call = b.call /\ c.as = b.as
      /\ c.inFlight = b.inFlight \ {i} /\ c.last = b.last /\ c.failed = b.failed
  BY DEF Batches
<1>3. Raced(b, i, aborted) = IF b.failed THEN Drain(c) ELSE CommitReady(c, aborted)
  BY DEF Raced
<1> HIDE DEF c
<1>4. Cardinality(c.inFlight) <= MaxParallel
  <2>1. IsFiniteSet(b.inFlight) /\ Cardinality(b.inFlight) \in Nat
    BY <1>1, FlightIsFinite
  <2>2. c.inFlight \in SUBSET b.inFlight
    BY <1>2
  <2>3. Cardinality(c.inFlight) <= Cardinality(b.inFlight)
    BY <2>1, <2>2, FS_Subset
  <2>4. Cardinality(c.inFlight) \in Nat
    BY <1>1, <1>2, FlightIsFinite
  <2>5. Cardinality(b.inFlight) <= MaxParallel
    BY <1>1 DEF Orderly
  <2> QED
    BY <2>1, <2>3, <2>4, <2>5, PoolAssumption
<1>5. Orderly(c)
  <2>1. InState(c, {"running"}) \subseteq c.inFlight
    BY <1>1, <1>2 DEF Orderly, InState
  <2> QED
    BY <1>1, <1>2, <1>4, <2>1 DEF Orderly, InState
<1>6. Between(c)
  BY <1>1, <1>2 DEF Between, InState
<1>7. CASE b.failed
  <2> DEFINE f == [c EXCEPT !.failed = TRUE]
  <2>1. /\ f.call = c.call /\ f.as = c.as /\ f.inFlight = c.inFlight
        /\ f.last = c.last /\ f.failed = TRUE
    BY <1>2 DEF Batches
  <2> HIDE DEF f
  <2>2. Orderly(f)
    BY <1>5, <2>1 DEF Orderly, InState
  <2> QED
    BY <1>2, <1>3, <1>6, <1>7, <2>2, Drains DEF f
<1>8. CASE ~b.failed
  BY <1>2, <1>3, <1>5, <1>6, <1>8, CommitsReady
<1> QED
  BY <1>7, <1>8

(* The first result that nothing is waited for before is recorded.         *)
LEMMA CommittedKeeps ==
  ASSUME NEW n \in 0..MaxCalls, NEW b \in Batches(n), BatchInv(b), b.at = "commit",
         NEW fails \in BOOLEAN, NEW concludes \in BOOLEAN, NEW aborted \in BOOLEAN
  PROVE  BatchInv(Committed(b, fails, concludes, aborted))
<1> DEFINE i == First(Committable(b))
<1>1. /\ b.call \in [1..n -> CallStates] /\ b.as \in [1..n -> Modes]
      /\ DOMAIN b.call = 1..n /\ n \in Nat /\ b.concluded \in BOOLEAN
      /\ Orderly(b) /\ Committable(b) # {}
      /\ InState(b, {"preparing"}) = {} /\ InState(b, {"skipped"}) = {}
  BY PoolAssumption DEF Batches, BatchInv
<1>2. Committable(b) \subseteq Nat
  BY <1>1 DEF Committable, InState
<1>3. i \in Committable(b)
  BY <1>1, <1>2, FirstIs
<1>4. Committed(b, fails, concludes, aborted) =
        IF fails THEN Drain([b EXCEPT !.call[i] = "lost"])
        ELSE CommitReady([b EXCEPT !.call[i] = "done", !.concluded = @ \/ concludes], aborted)
  BY DEF Committed
<1> HIDE DEF i
<1>5. /\ i \in 1..n /\ b.call[i] = "settled"
      /\ \A j \in 1..n : j < i => b.call[j] \in Answered
  BY <1>1, <1>3 DEF Committable, InState
(* Whichever way it ends, the others keep their order.                     *)
<1>6. ASSUME NEW c \in Batches(n), NEW new \in {"done", "lost"},
             c.call = [b.call EXCEPT ![i] = new], c.as = b.as, c.last = b.last,
             c.inFlight = b.inFlight, c.failed \/ (~b.failed /\ new # "lost")
      PROVE  Orderly(c)
  <2>1. /\ DOMAIN c.call = 1..n
        /\ \A k \in 1..n : c.call[k] = IF k = i THEN new ELSE b.call[k]
    BY <1>1, <1>6
  <2>2. ASSUME NEW j \in 1..n, NEW k \in 1..n, j < k
        PROVE  /\ c.call[j] = "waiting" => c.call[k] = "waiting"
               /\ c.call[k] \in Answered => c.call[j] \in Answered
               /\ c.as[k] = "exclusive" /\ c.call[k] \notin {"waiting", "skipped"}
                     => c.call[j] = "done"
               /\ c.as[j] = "exclusive" /\ c.call[j] \in Active => c.call[k] = "waiting"
    <3>1. /\ b.call[j] = "waiting" => b.call[k] = "waiting"
          /\ b.call[k] \in Answered => b.call[j] \in Answered
          /\ b.as[k] = "exclusive" /\ b.call[k] \notin {"waiting", "skipped"}
                => b.call[j] = "done"
          /\ b.as[j] = "exclusive" /\ b.call[j] \in Active => b.call[k] = "waiting"
      BY <1>1, <2>2 DEF Orderly
    <3>2. k = i => b.call[j] \in Answered
      BY <1>5, <2>2
    <3> QED
      BY <1>5, <1>6, <2>1, <2>2, <3>1, <3>2 DEF Answered, Active
  <2>3. \A j \in 1..n : c.as[j] = "exclusive" /\ c.call[j] \in Active => c.last <= j
    BY <1>1, <1>6, <2>1 DEF Orderly, Active
  <2>4. /\ InState(c, {"running"}) \subseteq c.inFlight
        /\ ~c.failed => InState(c, {"lost"}) = {}
    BY <1>1, <1>6, <2>1 DEF Orderly, InState
  <2>5. Cardinality(c.inFlight) <= MaxParallel
    BY <1>1, <1>6 DEF Orderly
  <2> QED
    BY <2>1, <2>2, <2>3, <2>4, <2>5 DEF Orderly
<1>7. CASE fails
  <2> DEFINE c == [b EXCEPT !.call[i] = "lost"]
             f == [c EXCEPT !.failed = TRUE]
  <2>1. /\ c \in Batches(n) /\ c.call = [b.call EXCEPT ![i] = "lost"]
        /\ c.as = b.as /\ c.inFlight = b.inFlight /\ c.last = b.last
    BY <1>1, <1>5 DEF Batches, CallStates
  <2>2. Committed(b, fails, concludes, aborted) = Drain(c)
    BY <1>4, <1>7
  <2> HIDE DEF c
  <2>3. /\ f \in Batches(n) /\ f.call = c.call /\ f.as = c.as
        /\ f.inFlight = c.inFlight /\ f.last = c.last /\ f.failed = TRUE
    BY <2>1 DEF Batches
  <2> HIDE DEF f
  <2>4. Orderly(f)
    BY <1>6, <2>1, <2>3
  <2>5. Between(c)
    BY <1>1, <1>5, <2>1 DEF Between, InState
  <2> QED
    BY <2>1, <2>2, <2>4, <2>5, Drains DEF f
<1>8. CASE ~fails
  <2> DEFINE over == b.concluded \/ concludes
             c == [b EXCEPT !.call[i] = "done", !.concluded = over]
  <2>1. over \in BOOLEAN
    BY <1>1
  <2>2. Committed(b, fails, concludes, aborted) = CommitReady(c, aborted)
    BY <1>4, <1>8
  <2> HIDE DEF over
  <2>3. /\ c \in Batches(n) /\ c.call = [b.call EXCEPT ![i] = "done"]
        /\ c.as = b.as /\ c.inFlight = b.inFlight /\ c.last = b.last
        /\ c.failed = b.failed
    BY <1>1, <1>5, <2>1 DEF Batches, CallStates, Answered
  <2> HIDE DEF c
  <2>4. Orderly(c)
    BY <1>6, <2>3
  <2>5. Between(c)
    BY <1>1, <1>5, <2>3 DEF Between, InState
  <2> QED
    BY <2>2, <2>3, <2>4, <2>5, CommitsReady
<1> QED
  BY <1>7, <1>8

(* The registry reclassifies a call that has not been started.             *)
LEMMA ReclassifyKeeps ==
  ASSUME NEW b, BatchInv(b), NEW i \in InState(b, {"waiting"}), NEW mode \in Modes
  PROVE  BatchInv([b EXCEPT !.mode[i] = mode])
<1> DEFINE c == [b EXCEPT !.mode[i] = mode]
<1>1. PICK n \in 0..MaxCalls : b \in Batches(n)
  BY DEF BatchInv, IsBatch
<1>2. /\ b.mode \in [1..n -> Modes] /\ DOMAIN b.call = 1..n
  BY <1>1 DEF Batches
<1>3. i \in 1..n /\ b.call[i] = "waiting"
  BY <1>2 DEF InState
<1>4. [b.mode EXCEPT ![i] = mode] \in [1..n -> Modes]
  BY <1>2
<1>5. /\ c \in Batches(n) /\ c.call = b.call /\ c.as = b.as /\ c.last = b.last
      /\ c.inFlight = b.inFlight /\ c.failed = b.failed /\ c.at = b.at
  BY <1>1, <1>4 DEF Batches
<1>6. b.at # "off"
  <2>1. b = NoBatch => DOMAIN b.call = {}
    BY DEF NoBatch, Message
  <2> QED
    BY <1>2, <1>3, <2>1 DEF BatchInv
<1> HIDE DEF c
<1>7. Orderly(c)
  BY <1>5 DEF Orderly, InState, BatchInv
<1>8. IsBatch(c)
  BY <1>5 DEF IsBatch
<1>9. InState(c, {"preparing"}) = InState(b, {"preparing"})
      /\ InState(c, {"skipped"}) = InState(b, {"skipped"})
      /\ InState(c, {"running"}) = InState(b, {"running"})
      /\ InState(c, Answered) = InState(b, Answered)
      /\ Committable(c) = Committable(b)
  BY <1>5 DEF InState, Committable
<1>10. BatchInv(c)
  BY <1>5, <1>6, <1>7, <1>8, <1>9 DEF BatchInv
<1> QED
  BY <1>10 DEF c

LEMMA NoBatchIs == BatchInv(NoBatch) /\ NoBatch.call = <<>>
<1> DEFINE b == NoBatch
<1>1. <<>> \in [1..0 -> Modes] /\ 0 \in 0..MaxCalls /\ 0 \in Nat /\ 1..0 = {}
  BY PoolAssumption
<1>2. b \in Batches(0) /\ DOMAIN b.call = 1..0 /\ b.inFlight = {}
  BY <1>1, MessageIs DEF NoBatch
<1>3. b.at = "off"
  BY DEF NoBatch, Message
<1>4. b = NoBatch
  OBVIOUS
<1>5. NoBatch.call = <<>>
  <2>1. NoBatch.call = [i \in DOMAIN <<>> |-> "waiting"]
    BY DEF NoBatch, Message
  <2>2. DOMAIN <<>> = {}
    BY <1>1
  <2>3. \A i \in {} : [j \in DOMAIN <<>> |-> "waiting"][i] = <<>>[i]
    OBVIOUS
  <2> QED
    BY <2>1, <2>2
<1> HIDE DEF b
<1>6. Cardinality(b.inFlight) <= MaxParallel
  BY <1>2, FS_EmptySet, PoolAssumption
<1>7. \A states : InState(b, states) = {}
  BY <1>1, <1>2 DEF InState
<1>8. Orderly(b)
  BY <1>1, <1>2, <1>6, <1>7 DEF Orderly
<1>9. IsBatch(b)
  BY <1>1, <1>2 DEF IsBatch
<1>10. BatchInv(b)
  BY <1>3, <1>4, <1>7, <1>8, <1>9 DEF BatchInv
<1> QED
  BY <1>4, <1>5, <1>10

-----------------------------------------------------------------------------
(* The inbox.                                                              *)
Inboxes == [Targets -> Seq(Messages)]
Inside(q) == UNION {Range(q[target]) : target \in Targets}

LEMMA InsideIs ==
  ASSUME NEW q \in Inboxes, NEW m
  PROVE  /\ m \in Inside(q) <=> m \in Range(q["turn"]) \/ m \in Range(q["step"])
         /\ Range(q["turn"]) \subseteq Messages /\ Range(q["step"]) \subseteq Messages
<1>1. q["turn"] \in Seq(Messages) /\ q["step"] \in Seq(Messages)
  BY DEF Inboxes, Targets
<1>2. Range(q["turn"]) \subseteq Messages
  BY <1>1 DEF Range
<1>3. Range(q["step"]) \subseteq Messages
  BY <1>1 DEF Range
<1>4. m \in Inside(q) <=> \E target \in Targets : m \in Range(q[target])
  BY DEF Inside
<1>5. (\E target \in Targets : m \in Range(q[target]))
        <=> m \in Range(q["turn"]) \/ m \in Range(q["step"])
  BY DEF Targets
<1> QED
  BY <1>2, <1>3, <1>4, <1>5

LEMMA NothingInside == Nothing \in Inboxes /\ Inside(Nothing) = {}
<1>1. <<>> \in Seq(Messages)
  OBVIOUS
<1>2. Nothing \in Inboxes
  BY <1>1 DEF Nothing, Inboxes
<1>3. Nothing["turn"] = <<>> /\ Nothing["step"] = <<>>
  BY DEF Nothing, Targets
<1>4. Range(<<>>) = {}
  BY DEF Range
<1>5. \A m : m \notin Inside(Nothing)
  BY <1>2, <1>3, <1>4, InsideIs
<1> QED
  BY <1>2, <1>5

LEMMA AppendedInside ==
  ASSUME NEW q \in Inboxes, NEW target \in Targets, NEW m \in Messages
  PROVE  /\ [q EXCEPT ![target] = Append(@, m)] \in Inboxes
         /\ Inside([q EXCEPT ![target] = Append(@, m)]) = Inside(q) \cup {m}
<1> DEFINE a == Append(q[target], m)
           r == [q EXCEPT ![target] = a]
<1>1. q[target] \in Seq(Messages)
  BY DEF Inboxes
<1>2. a \in Seq(Messages) /\ Len(a) = Len(q[target]) + 1
      /\ \A i \in 1..Len(a) : a[i] = IF i <= Len(q[target]) THEN q[target][i] ELSE m
  BY <1>1, AppendProperties
<1>3. Range(a) = Range(q[target]) \cup {m}
  <2>1. DOMAIN a = 1..Len(a) /\ DOMAIN q[target] = 1..Len(q[target])
        /\ Len(q[target]) \in Nat
    BY <1>1, <1>2
  <2> HIDE DEF a
  <2>2. \A x : x \in Range(a) <=> \E i \in 1..Len(a) : a[i] = x
    BY <2>1 DEF Range
  <2>3. \A x : x \in Range(q[target]) <=> \E i \in 1..Len(q[target]) : q[target][i] = x
    BY <2>1 DEF Range
  <2>4. a[Len(q[target]) + 1] = m /\ Len(q[target]) + 1 \in 1..Len(a)
    BY <1>2, <2>1
  <2>5. \A i \in 1..Len(q[target]) : i \in 1..Len(a) /\ a[i] = q[target][i]
    BY <1>2, <2>1
  <2>6. \A i \in 1..Len(a) : i \in 1..Len(q[target]) \/ a[i] = m
    BY <1>2, <2>1
  <2>7. \A x \in Range(a) : x \in Range(q[target]) \cup {m}
    BY <2>2, <2>3, <2>5, <2>6
  <2>8. \A x \in Range(q[target]) \cup {m} : x \in Range(a)
    BY <2>2, <2>3, <2>4, <2>5
  <2> QED
    BY <2>7, <2>8
<1> HIDE DEF a
<1>4. r \in Inboxes /\ r[target] = a /\ \A other \in Targets \ {target} : r[other] = q[other]
  BY <1>2 DEF Inboxes
<1> HIDE DEF r
<1>5. \A x : x \in Inside(r) <=> x \in Inside(q) \cup {m}
  BY <1>3, <1>4, InsideIs DEF Targets
<1>6. Inside(r) = Inside(q) \cup {m}
  BY <1>5
<1> QED
  BY <1>4, <1>6 DEF r, a

(* Whatever shortens the lists leaves no message that was not there.       *)
LEMMA ShortenedInside ==
  ASSUME NEW q \in Inboxes, NEW r \in Inboxes,
         \A target \in Targets : Range(r[target]) \subseteq Range(q[target])
  PROVE  Inside(r) \subseteq Inside(q)
BY DEF Inside

LEMMA RemovedAre ==
  ASSUME NEW S, NEW s \in Seq(S), NEW i \in 1..Len(s)
  PROVE  Lists!RemoveAt(s, i) \in Seq(S) /\ Range(Lists!RemoveAt(s, i)) \subseteq Range(s)
<1> DEFINE front == SubSeq(s, 1, i - 1)
           back == SubSeq(s, i + 1, Len(s))
<1>1. Len(s) \in Nat /\ i \in Int /\ i - 1 \in Int /\ i + 1 \in Int /\ Len(s) \in Int
  OBVIOUS
<1>2. \A j \in 1..Len(s) : s[j] \in S /\ s[j] \in Range(s)
  BY DEF Range
<1>3. \A j \in 1..(i - 1) : s[j] \in Range(s)
  BY <1>1, <1>2
<1>4. \A j \in (i + 1)..Len(s) : s[j] \in Range(s)
  BY <1>1, <1>2
<1>5. front \in Seq(Range(s))
  BY <1>1, <1>3, SubSeqProperties
<1>6. back \in Seq(Range(s))
  BY <1>1, <1>4, SubSeqProperties
<1> HIDE DEF front, back
<1>7. front \o back \in Seq(Range(s))
  BY <1>5, <1>6, ConcatProperties
<1>8. Range(s) \subseteq S
  BY <1>2 DEF Range
<1>9. Range(front \o back) \subseteq Range(s)
  BY <1>7 DEF Range
<1>10. front \o back \in Seq(S)
  <2> DEFINE t == front \o back
  <2>1. t \in Seq(Range(s))
    BY <1>7
  <2> HIDE DEF t
  <2>2. t \in Seq(S)
    BY <1>8, <2>1
  <2> QED
    BY <2>2 DEF t
<1>11. Lists!RemoveAt(s, i) = front \o back
  BY DEF Lists!RemoveAt, front, back
<1> QED
  BY <1>9, <1>10, <1>11

LEMMA ClaimsInside ==
  ASSUME NEW waiting \in Inboxes, NEW target \in Targets, PreStep(waiting, target)
  PROVE  queue' \in Inboxes /\ Inside(queue') \subseteq Inside(waiting)
<1> DEFINE t == IF target = "turn" /\ waiting["turn"] # <<>>
                THEN Tail(waiting["turn"]) ELSE waiting["turn"]
<1>1. waiting["turn"] \in Seq(Messages) /\ waiting["step"] \in Seq(Messages)
  BY DEF Inboxes, Targets
<1>2. t \in Seq(Messages) /\ Range(t) \subseteq Range(waiting["turn"])
  <2>1. CASE target = "turn" /\ waiting["turn"] # <<>>
    <3>1. Tail(waiting["turn"]) \in Seq(Messages)
          /\ Len(Tail(waiting["turn"])) = Len(waiting["turn"]) - 1
          /\ \A i \in 1..Len(Tail(waiting["turn"])) :
               Tail(waiting["turn"])[i] = waiting["turn"][i + 1]
      BY <1>1, <2>1, HeadTailProperties
    <3>2. t = Tail(waiting["turn"])
      BY <2>1
    <3> HIDE DEF t
    <3>3. DOMAIN t = 1..Len(t) /\ Len(t) \in Nat
          /\ DOMAIN waiting["turn"] = 1..Len(waiting["turn"]) /\ Len(waiting["turn"]) \in Nat
      BY <1>1, <3>1, <3>2
    <3>4. \A i \in 1..Len(t) : t[i] = waiting["turn"][i + 1] /\ i + 1 \in 1..Len(waiting["turn"])
      BY <3>1, <3>2, <3>3
    <3> QED
      BY <3>1, <3>2, <3>3, <3>4 DEF Range
  <2>2. CASE ~(target = "turn" /\ waiting["turn"] # <<>>)
    BY <1>1, <2>2
  <2> QED
    BY <2>1, <2>2
<1>3. queue' = [waiting EXCEPT !["step"] = <<>>, !["turn"] = t]
  BY DEF PreStep, Inboxes, Targets
<1> HIDE DEF t
<1>4. queue' \in Inboxes /\ queue'["turn"] = t /\ queue'["step"] = <<>>
  <2>1. <<>> \in Seq(Messages)
    OBVIOUS
  <2> QED
    BY <1>2, <1>3, <2>1 DEF Inboxes, Targets
<1>5. Range(queue'["step"]) = {}
  BY <1>4 DEF Range
<1>6. \A k \in Targets : Range(queue'[k]) \subseteq Range(waiting[k])
  BY <1>2, <1>4, <1>5 DEF Targets
<1> QED
  BY <1>4, <1>6, ShortenedInside

-----------------------------------------------------------------------------
(* The driver.                                                             *)

(* The invariant in the parts that the steps disturb.                      *)
Kinds == {"cancel", "maintenance", "change"}
Causes == {"user", "disposed"}
Endings == {"none", "completed", "maxTokens", "blocked", "aborted", "error"}
Places == {"off", "preStep", "model", "tools", "stopping", "next", "exit"}

ActivityOK ==
  /\ phase \in {"idle", "maintenance", "running"}
  /\ signal \in {"live"} \cup Causes
  /\ latch \in BOOLEAN
  /\ phase = "idle" => signal = "live" /\ ~latch
  /\ phase = "running" /\ ~Aborted => ~latch
  /\ signal = "disposed" => ~latch
TurnOK ==
  /\ at \in Places /\ stepped \in BOOLEAN
  /\ ends \in {"none", "completed", "maxTokens"}
  /\ BatchInv(batch)
  /\ at # "tools" => batch = NoBatch
  /\ open = OpenAt(at) /\ outcome \in Endings
QueueOK ==
  /\ queue \in Inboxes /\ sent \subseteq Messages
  /\ owed \subseteq sent /\ Inside(queue) \subseteq sent
OwedOK == owed \cap Inside(queue) # {} => latch
RunningOK == phase = "running" <=> at # "off"
CountsOK == disposing \in BOOLEAN /\ spent \in [Kinds -> Nat]

LEMMA AgentParts ==
  AgentInv <=> ActivityOK /\ TurnOK /\ QueueOK /\ OwedOK /\ RunningOK /\ CountsOK
<1>1. Queued = Inside(queue)
  BY DEF Queued, Inside
<1>2. OpenAt(at) \in {"nothing", "turn", "step"}
  BY DEF OpenAt
<1>3. BatchInv(batch) => IsBatch(batch)
  BY DEF BatchInv
<1>4. AgentInv => ActivityOK /\ TurnOK
  BY DEF AgentInv, TypeOK, WakeInv, ActivityOK, TurnOK, Causes, Endings, Places
<1>5. AgentInv => QueueOK /\ OwedOK /\ RunningOK /\ CountsOK
  BY <1>1 DEF AgentInv, TypeOK, WakeInv, QueueOK, OwedOK, RunningOK, CountsOK, Inboxes, Kinds
<1>6. ASSUME ActivityOK, TurnOK, QueueOK, OwedOK, RunningOK, CountsOK PROVE AgentInv
  <2>1. TypeOK
    <3>1. queue \in [Targets -> Seq(Messages)]
      BY <1>6 DEF QueueOK, Inboxes
    <3>2. sent \subseteq Messages /\ owed \subseteq Messages
      BY <1>6 DEF QueueOK
    <3> QED
      BY <1>2, <1>3, <1>6, <3>1, <3>2
         DEF TypeOK, ActivityOK, TurnOK, CountsOK, Causes, Endings, Places, Kinds
  <2>2. WakeInv
    BY <1>1, <1>6 DEF WakeInv, ActivityOK, QueueOK, OwedOK
  <2> QED
    BY <1>6, <2>1, <2>2 DEF AgentInv, TurnOK, RunningOK
<1> QED
  BY <1>4, <1>5, <1>6

LEMMA AgentPartsNext ==
  ActivityOK' /\ TurnOK' /\ QueueOK' /\ OwedOK' /\ RunningOK' /\ CountsOK' => AgentInv'
BY AgentParts, PTL

LEMMA AgentInit == Init => AgentInv
<1> SUFFICES ASSUME Init PROVE AgentInv
  OBVIOUS
<1>1. ActivityOK
  BY DEF Init, ActivityOK, Causes, Aborted
<1>2. TurnOK
  BY NoBatchIs DEF Init, TurnOK, OpenAt, Endings, Places
<1>3. QueueOK /\ OwedOK
  BY NothingInside DEF Init, QueueOK, OwedOK
<1>4. RunningOK /\ CountsOK
  <2>1. spent = [kind \in Kinds |-> 0]
    BY DEF Init, Kinds
  <2>2. spent \in [Kinds -> Nat]
    BY <2>1
  <2> QED
    BY <2>2 DEF Init, RunningOK, CountsOK
<1> QED
  BY <1>1, <1>2, <1>3, <1>4, AgentParts

(* A turn begins on what waits.                                            *)
LEMMA TurnBeginsKeeps ==
  ASSUME AgentInv, at \in {"off", "next", "exit"}, phase' = "running",
         NEW waiting \in Inboxes, TurnBegins(waiting)
  PROVE  /\ TurnOK' /\ RunningOK'
         /\ queue' \in Inboxes /\ Inside(queue') \subseteq Inside(waiting)
<1>1. TurnOK
  BY AgentParts
<1>2. /\ at' = "preStep" /\ stepped' = FALSE /\ ends' = "none" /\ batch' = NoBatch
      /\ open' = Logged(open, "turn/start") /\ outcome' = "none" /\ PreStep(waiting, "turn")
  BY DEF TurnBegins, PreStep
<1>3. open = "nothing"
  BY <1>1 DEF TurnOK, OpenAt
<1>4. open' = "turn"
  BY <1>2, <1>3 DEF Logged
<1>5. OpenAt(at)' = "turn"
  BY <1>2 DEF OpenAt
<1>6. BatchInv(batch)'
  BY <1>2, NoBatchIs
<1>7. TurnOK'
  BY <1>2, <1>4, <1>5, <1>6 DEF TurnOK, Endings, Places
<1>8. RunningOK'
  BY <1>2 DEF RunningOK
<1> QED
  BY <1>2, <1>7, <1>8, ClaimsInside DEF Targets

LEMMA ConvergeKeeps ==
  ASSUME AgentInv, Converge, at \in {"off", "exit"}, UNCHANGED world
  PROVE  AgentInv'
<1>1. /\ ActivityOK /\ TurnOK /\ QueueOK /\ OwedOK /\ CountsOK
  BY AgentParts
<1>2. CountsOK' /\ sent' = sent
  BY <1>1 DEF world, CountsOK
<1>3. latch' = FALSE /\ signal' = "live"
  BY DEF Converge
<1>4. CASE phase' = "running" /\ owed' = {} /\ TurnBegins(queue)
  <2>1. /\ TurnOK' /\ RunningOK'
        /\ queue' \in Inboxes /\ Inside(queue') \subseteq Inside(queue)
    BY <1>1, <1>4, TurnBeginsKeeps DEF QueueOK
  <2>2. ActivityOK'
    BY <1>3, <1>4 DEF ActivityOK, Causes, Aborted
  <2>3. QueueOK' /\ OwedOK'
    BY <1>1, <1>2, <1>4, <2>1 DEF QueueOK, OwedOK
  <2> QED
    BY <1>2, <2>1, <2>2, <2>3, AgentPartsNext
<1>5. CASE ~(latch /\ Pending) /\ NothingBegins
  <2>1. /\ phase' = "idle" /\ at' = "off" /\ owed' = owed /\ queue' = queue
        /\ stepped' = stepped /\ ends' = ends /\ batch' = batch
        /\ open' = open /\ outcome' = outcome
    BY <1>5 DEF NothingBegins, log
  <2>2. ActivityOK' /\ RunningOK'
    BY <1>3, <2>1 DEF ActivityOK, Causes, Aborted, RunningOK
  <2>3. TurnOK'
    <3>1. open = "nothing" /\ batch = NoBatch
      BY <1>1 DEF TurnOK, OpenAt
    <3>2. OpenAt(at)' = "nothing"
      BY <2>1 DEF OpenAt
    <3> QED
      BY <1>1, <2>1, <3>1, <3>2, NoBatchIs DEF TurnOK, Places
  <2>4. QueueOK'
    BY <1>1, <1>2, <2>1 DEF QueueOK
  <2>5. owed \cap Inside(queue) = {}
    BY <1>1, <1>5, NothingInside DEF OwedOK, Pending
  <2>6. OwedOK'
    BY <2>1, <2>5 DEF OwedOK
  <2> QED
    BY <1>2, <2>2, <2>3, <2>4, <2>6, AgentPartsNext
<1> QED
  BY <1>4, <1>5 DEF Converge

LEMMA ClosesKeeps ==
  ASSUME AgentInv, NEW reason \in Endings, TurnCloses(reason, "turn"),
         phase = "running", at' \in {"next", "exit"}, ActivityOK', UNCHANGED world,
         latch' \/ ~latch
  PROVE  AgentInv'
<1>1. TurnOK /\ QueueOK /\ OwedOK /\ CountsOK
  BY AgentParts
<1>2. /\ outcome' = reason /\ open' = Logged("turn", "turn/end") /\ stepped' = FALSE
      /\ ends' = "none" /\ batch' = NoBatch /\ phase' = phase /\ queue' = queue
      /\ owed' = owed /\ sent' = sent
  BY DEF TurnCloses, world
<1>3. open' = "nothing" /\ OpenAt(at)' = "nothing"
  BY <1>2 DEF Logged, OpenAt
<1>4. TurnOK'
  BY <1>2, <1>3, NoBatchIs DEF TurnOK, Places
<1>5. QueueOK' /\ OwedOK' /\ CountsOK' /\ RunningOK'
  BY <1>1, <1>2 DEF QueueOK, OwedOK, CountsOK, RunningOK, world
<1> QED
  BY <1>4, <1>5, AgentPartsNext

LEMMA StopsKeeps ==
  ASSUME AgentInv, NEW reason \in Endings, TurnStops(reason, "turn"),
         phase = "running", UNCHANGED world
  PROVE  AgentInv'
<1> DEFINE cause == IF Aborted THEN "aborted" ELSE reason
<1>1. cause \in Endings
  BY DEF Endings
<1>2. TurnCloses(cause, "turn") /\ at' = "exit" /\ signal' = signal /\ latch' = latch
  BY DEF TurnStops
<1> HIDE DEF cause
<1>3. phase' = phase
  BY <1>2 DEF TurnCloses
<1>4. ActivityOK /\ latch \in BOOLEAN
  BY AgentParts DEF ActivityOK
<1>5. ActivityOK'
  BY <1>2, <1>3, <1>4 DEF ActivityOK, Aborted
<1>6. latch' \/ ~latch
  BY <1>2, <1>4
<1> QED
  BY <1>1, <1>2, <1>5, <1>6, ClosesKeeps

LEMMA CompletesKeeps ==
  ASSUME AgentInv, open = "turn", ~Aborted, TurnCompletes, phase = "running",
         UNCHANGED world
  PROVE  AgentInv'
<1>1. ActivityOK /\ TurnOK /\ latch \in BOOLEAN
  BY AgentParts DEF ActivityOK
<1>2. ~latch /\ signal = "live"
  BY <1>1 DEF ActivityOK, Aborted
<1>3. TurnCloses(ends, "turn") /\ ends \in Endings
  BY <1>1 DEF TurnCompletes, TurnOK, Endings
<1>4. /\ at' \in {"next", "exit"} /\ signal' = "live" /\ ~latch'
  BY <1>2 DEF TurnCompletes
<1>5. latch' \in BOOLEAN
  BY <1>1 DEF TurnCompletes
<1>6. ActivityOK'
  BY <1>3, <1>4, <1>5 DEF ActivityOK, TurnCloses, Aborted
<1>7. latch' \/ ~latch
  BY <1>2
<1> QED
  BY <1>3, <1>4, <1>6, <1>7, ClosesKeeps

(* The driver goes on to the next step of its turn.                        *)
LEMMA ProposesKeeps ==
  ASSUME AgentInv, phase = "running", PreStep(queue, "step"), open' = "turn",
         ends' \in {"none", "completed", "maxTokens"}, batch' = NoBatch,
         UNCHANGED <<activity, stepped, outcome, owed, world>>
  PROVE  AgentInv'
<1>1. ActivityOK /\ TurnOK /\ QueueOK /\ OwedOK /\ CountsOK
  BY AgentParts
<1>2. /\ at' = "preStep" /\ phase' = phase /\ signal' = signal /\ latch' = latch
      /\ stepped' = stepped /\ outcome' = outcome /\ owed' = owed /\ sent' = sent
  BY DEF PreStep, activity, world
<1>3. queue' \in Inboxes /\ Inside(queue') \subseteq Inside(queue)
  BY <1>1, ClaimsInside DEF QueueOK, Targets
<1>4. OpenAt(at)' = "turn"
  BY <1>2 DEF OpenAt
<1>5. TurnOK'
  BY <1>1, <1>2, <1>4, NoBatchIs DEF TurnOK, Places
<1>6. ActivityOK'
  BY <1>1, <1>2 DEF ActivityOK, Aborted
<1>7. QueueOK' /\ RunningOK' /\ CountsOK'
  BY <1>1, <1>2, <1>3 DEF QueueOK, RunningOK, CountsOK, world
<1>8. OwedOK'
  BY <1>1, <1>2, <1>3 DEF OwedOK
<1> QED
  BY <1>5, <1>6, <1>7, <1>8, AgentPartsNext

(* Only where the driver is, within one turn, changes.                     *)
LEMMA MovesKeeps ==
  ASSUME AgentInv, at # "off", TurnOK', at' # "off",
         UNCHANGED <<activity, queue, owed, world>>
  PROVE  AgentInv'
<1>1. ActivityOK /\ QueueOK /\ OwedOK /\ RunningOK /\ CountsOK
  BY AgentParts
<1>2. /\ phase' = phase /\ signal' = signal /\ latch' = latch /\ queue' = queue
      /\ owed' = owed /\ sent' = sent /\ disposing' = disposing /\ spent' = spent
  BY DEF activity, world
<1>3. ActivityOK' /\ QueueOK' /\ OwedOK' /\ RunningOK' /\ CountsOK'
  BY <1>1, <1>2 DEF ActivityOK, Aborted, QueueOK, OwedOK, RunningOK, CountsOK
<1> QED
  BY <1>3, AgentPartsNext

LEMMA StepEndsKeeps ==
  ASSUME AgentInv, at \in {"model", "tools"}, ~Aborted \/ at = "tools",
         NEW result \in {"none", "completed", "maxTokens"}, StepEnds(result),
         UNCHANGED world
  PROVE  AgentInv'
<1> DEFINE sticky == IF ends = "maxTokens" THEN ends ELSE result
           after == Logged(open, "step/end")
           stops == sticky # "none" /\ queue["step"] = <<>>
<1>1. /\ TurnOK /\ RunningOK /\ phase = "running"
  BY AgentParts DEF RunningOK
<1>2. after = "turn"
  BY <1>1 DEF TurnOK, OpenAt, Logged
<1>3. sticky \in {"none", "completed", "maxTokens"}
  BY <1>1 DEF TurnOK
<1>4. \/ Aborted /\ TurnStops("aborted", after)
      \/ /\ ~Aborted
         /\ ends' = sticky /\ open' = after /\ batch' = NoBatch
         /\ \/ stops /\ at' = "stopping" /\ queue' = queue
            \/ ~stops /\ PreStep(queue, "step")
         /\ UNCHANGED <<activity, stepped, outcome, owed>>
  BY DEF StepEnds
<1> HIDE DEF sticky, after, stops
<1>5. CASE TurnStops("aborted", after)
  BY <1>1, <1>2, <1>5, StopsKeeps DEF Endings
<1>6. CASE /\ ends' = sticky /\ open' = after /\ batch' = NoBatch
           /\ at' = "stopping" /\ queue' = queue
           /\ UNCHANGED <<activity, stepped, outcome, owed>>
  <2>1. OpenAt(at)' = "turn"
    BY <1>6 DEF OpenAt
  <2>2. TurnOK'
    BY <1>1, <1>2, <1>3, <1>6, <2>1, NoBatchIs DEF TurnOK, Places
  <2> QED
    BY <1>1, <1>6, <2>2, MovesKeeps
<1>7. CASE /\ ends' = sticky /\ open' = after /\ batch' = NoBatch
           /\ PreStep(queue, "step")
           /\ UNCHANGED <<activity, stepped, outcome, owed>>
  BY <1>1, <1>2, <1>3, <1>7, ProposesKeeps
<1> QED
  BY <1>4, <1>5, <1>6, <1>7

LEMMA StepFailsKeeps ==
  ASSUME AgentInv, at \in {"model", "tools"}, NEW reason \in Endings, StepFails(reason),
         UNCHANGED world
  PROVE  AgentInv'
<1>1. /\ TurnOK /\ RunningOK /\ phase = "running"
  BY AgentParts DEF RunningOK
<1>2. Logged(open, "step/end") = "turn"
  BY <1>1 DEF TurnOK, OpenAt, Logged
<1>3. TurnStops(reason, "turn")
  BY <1>2 DEF StepFails
<1> QED
  BY <1>1, <1>3, StopsKeeps

-----------------------------------------------------------------------------
(* Callers.                                                                *)

LEMMA SendKeeps ==
  ASSUME AgentInv, NEW m \in Messages, NEW target \in Targets, NEW wakeup \in BOOLEAN,
         Send(m, target, wakeup)
  PROVE  AgentInv'
<1> DEFINE list == IF Late(wakeup) THEN "turn" ELSE target
           waiting == [queue EXCEPT ![list] = Append(@, m)]
<1>1. ActivityOK /\ TurnOK /\ QueueOK /\ OwedOK /\ RunningOK /\ CountsOK
  BY AgentParts
<1>2. /\ m \notin sent /\ sent' = sent \cup {m}
      /\ disposing' = disposing /\ spent' = spent
      /\ \/ /\ wakeup /\ phase = "idle"
            /\ phase' = "running" /\ signal' = "live" /\ latch' = FALSE
            /\ TurnBegins(waiting) /\ owed' = owed
         \/ /\ ~(wakeup /\ phase = "idle")
            /\ queue' = waiting
            /\ latch' = (latch \/ Latches(wakeup))
            /\ owed' = IF Latches(wakeup) THEN owed \cup {m} ELSE owed
            /\ UNCHANGED <<phase, signal, turn, log>>
  BY DEF Send
<1>3. list \in Targets
  BY DEF Targets
<1> HIDE DEF list
<1>4. waiting \in Inboxes /\ Inside(waiting) = Inside(queue) \cup {m}
  BY <1>1, <1>3, AppendedInside DEF QueueOK
<1> HIDE DEF waiting
<1>5. CountsOK'
  BY <1>1, <1>2 DEF CountsOK
<1>6. CASE /\ phase = "idle" /\ phase' = "running" /\ signal' = "live" /\ latch' = FALSE
           /\ TurnBegins(waiting) /\ owed' = owed
  <2>1. at = "off" /\ ~latch
    BY <1>1, <1>6 DEF RunningOK, ActivityOK, TurnOK
  <2>2. /\ TurnOK' /\ RunningOK'
        /\ queue' \in Inboxes /\ Inside(queue') \subseteq Inside(waiting)
    BY <1>4, <1>6, <2>1, TurnBeginsKeeps
  <2>3. ActivityOK'
    BY <1>6 DEF ActivityOK, Aborted
  <2>4. QueueOK'
    BY <1>1, <1>2, <1>4, <1>6, <2>2 DEF QueueOK
  <2>5. OwedOK'
    BY <1>1, <1>2, <1>4, <1>6, <2>1, <2>2 DEF QueueOK, OwedOK
  <2> QED
    BY <1>5, <2>2, <2>3, <2>4, <2>5, AgentPartsNext
<1>7. CASE /\ queue' = waiting
           /\ latch' = (latch \/ Latches(wakeup))
           /\ owed' = IF Latches(wakeup) THEN owed \cup {m} ELSE owed
           /\ UNCHANGED <<phase, signal, turn, log>>
  <2>1. /\ phase' = phase /\ signal' = signal /\ at' = at /\ stepped' = stepped
        /\ ends' = ends /\ batch' = batch /\ open' = open /\ outcome' = outcome
    BY <1>7 DEF turn, log
  <2>2. Latches(wakeup) =>
          signal # "disposed" /\ phase # "idle" /\ ~(phase = "running" /\ ~Aborted)
    BY DEF Latches, Late
  <2>3. latch' \in BOOLEAN
    BY <1>7
  <2>4. latch' => latch \/ Latches(wakeup)
    BY <1>7
  <2>5. (latch \/ Latches(wakeup)) => latch'
    BY <1>7
  <2>6. ActivityOK'
    BY <1>1, <2>1, <2>2, <2>3, <2>4 DEF ActivityOK, Aborted
  <2>7. TurnOK' /\ RunningOK'
    BY <1>1, <2>1 DEF TurnOK, OpenAt, RunningOK
  <2>8. QueueOK'
    BY <1>1, <1>2, <1>4, <1>7 DEF QueueOK
  <2>9. OwedOK'
    <3>1. CASE Latches(wakeup)
      BY <2>5, <3>1 DEF OwedOK
    <3>2. CASE ~Latches(wakeup)
      <4>1. owed' = owed
        BY <1>7, <3>2
      <4>2. owed \cap Inside(queue)' = owed \cap Inside(queue)
        BY <1>1, <1>2, <1>4, <1>7 DEF QueueOK
      <4>3. owed' \cap Inside(queue)' # {} => latch
        BY <1>1, <4>1, <4>2 DEF OwedOK
      <4> QED
        BY <2>5, <4>3 DEF OwedOK
    <3> QED
      BY <3>1, <3>2
  <2> QED
    BY <1>5, <2>6, <2>7, <2>8, <2>9, AgentPartsNext
<1> QED
  BY <1>2, <1>6, <1>7

LEMMA RemoveKeeps ==
  ASSUME AgentInv, NEW m \in Messages, Remove(m)
  PROVE  AgentInv'
<1>1. ActivityOK /\ TurnOK /\ QueueOK /\ OwedOK /\ RunningOK /\ CountsOK
  BY AgentParts
<1>2. PICK target \in Targets : \E i \in DOMAIN queue[target] :
        queue' = [queue EXCEPT ![target] = Lists!RemoveAt(@, i)]
  BY DEF Remove
<1>3. PICK i \in DOMAIN queue[target] :
        queue' = [queue EXCEPT ![target] = Lists!RemoveAt(queue[target], i)]
  BY <1>2
<1>4. queue \in Inboxes /\ queue[target] \in Seq(Messages) /\ i \in 1..Len(queue[target])
  BY <1>1, <1>3 DEF QueueOK, Inboxes
<1>5. /\ Lists!RemoveAt(queue[target], i) \in Seq(Messages)
      /\ Range(Lists!RemoveAt(queue[target], i)) \subseteq Range(queue[target])
  BY <1>4, RemovedAre
<1>6. /\ queue' \in Inboxes
      /\ \A other \in Targets : Range(queue'[other]) \subseteq Range(queue[other])
  BY <1>3, <1>4, <1>5 DEF Inboxes
<1>7. Inside(queue') \subseteq Inside(queue)
  BY <1>4, <1>6, ShortenedInside
<1>8. /\ UNCHANGED <<activity, turn, log, owed, disposing, sent>>
      /\ spent["change"] < MaxChanges
      /\ spent' = [spent EXCEPT !["change"] = spent["change"] + 1]
  BY DEF Remove, Spend
<1>9. spent' \in [Kinds -> Nat]
  BY <1>1, <1>8 DEF CountsOK, Kinds
<1>10. ActivityOK' /\ TurnOK' /\ RunningOK' /\ CountsOK'
  BY <1>1, <1>8, <1>9
     DEF activity, turn, log, ActivityOK, Aborted, TurnOK, OpenAt, RunningOK, CountsOK
<1>11. QueueOK' /\ OwedOK'
  BY <1>1, <1>6, <1>7, <1>8 DEF activity, QueueOK, OwedOK
<1> QED
  BY <1>10, <1>11, AgentPartsNext

LEMMA CancelWithKeeps ==
  ASSUME AgentInv, NEW cause \in Causes, NEW keepInbox \in BOOLEAN,
         cause = "disposed" => ~keepInbox, CancelWith(cause, keepInbox),
         UNCHANGED <<phase, sent>>, CountsOK', TurnOK', RunningOK'
  PROVE  AgentInv'
<1>1. ActivityOK /\ QueueOK /\ OwedOK
  BY AgentParts
<1>2. /\ signal' = IF phase # "idle" /\ ~Aborted THEN cause ELSE signal
      /\ latch' = (latch /\ keepInbox)
      /\ queue' = IF keepInbox THEN queue ELSE Nothing
      /\ owed' = IF keepInbox THEN owed ELSE {}
  BY DEF CancelWith
<1>3. latch' \in BOOLEAN
  BY <1>2
<1>4. latch' => latch /\ keepInbox
  BY <1>2
<1>5. latch /\ keepInbox => latch'
  BY <1>2
<1>6. ActivityOK'
  BY <1>1, <1>2, <1>3, <1>4 DEF ActivityOK, Aborted, Causes
<1>7. QueueOK'
  BY <1>1, <1>2, NothingInside DEF QueueOK
<1>8. OwedOK'
  BY <1>1, <1>2, <1>5, NothingInside DEF OwedOK
<1> QED
  BY <1>6, <1>7, <1>8, AgentPartsNext

(* Wherever a caller or the owner cancels.                                 *)
LEMMA CancelsKeep ==
  ASSUME AgentInv, Cancels, UNCHANGED <<phase, sent>>, TurnOK', RunningOK'
  PROVE  AgentInv'
<1>1. CountsOK
  BY AgentParts
<1>2. CASE /\ Spend("cancel", MaxCancels) /\ UNCHANGED disposing
           /\ \E keepInbox \in BOOLEAN : CancelWith("user", keepInbox)
  <2>1. CountsOK'
    BY <1>1, <1>2 DEF Spend, CountsOK, Kinds
  <2> QED
    BY <1>2, <2>1, CancelWithKeeps DEF Causes
<1>3. CASE /\ ~disposing /\ disposing' = TRUE /\ UNCHANGED spent
           /\ CancelWith("disposed", FALSE)
  <2>1. CountsOK'
    BY <1>1, <1>3 DEF CountsOK
  <2> QED
    BY <1>3, <2>1, CancelWithKeeps DEF Causes
<1> QED
  BY <1>2, <1>3 DEF Cancels

LEMMA CallersKeep ==
  ASSUME AgentInv, Callers
  PROVE  AgentInv'
<1>1. ActivityOK /\ TurnOK /\ QueueOK /\ OwedOK /\ RunningOK /\ CountsOK
  BY AgentParts
<1>2. CASE \E m \in Messages, target \in Targets, wakeup \in BOOLEAN : Send(m, target, wakeup)
  BY <1>2, SendKeeps
<1>3. CASE \E m \in Messages : Remove(m)
  BY <1>3, RemoveKeeps
<1>4. CASE Cancel
  <2>1. TurnOK' /\ RunningOK'
    BY <1>1, <1>4 DEF Cancel, turn, log, TurnOK, OpenAt, RunningOK
  <2> QED
    BY <1>4, <2>1, CancelsKeep DEF Cancel
<1>6. CASE RunMaintenance
  <2>1. CountsOK'
    BY <1>1, <1>6 DEF RunMaintenance, Spend, CountsOK, Kinds
  <2>2. /\ phase = "idle" /\ phase' = "maintenance" /\ signal' = "live" /\ latch' = FALSE
        /\ UNCHANGED <<turn, queue, log, owed, disposing, sent>>
    BY <1>6 DEF RunMaintenance
  <2>3. ~latch /\ at = "off"
    BY <1>1, <2>2 DEF ActivityOK, RunningOK, TurnOK
  <2>4. ActivityOK' /\ TurnOK' /\ RunningOK'
    BY <1>1, <2>2, <2>3 DEF turn, log, ActivityOK, TurnOK, OpenAt, RunningOK
  <2>5. QueueOK' /\ OwedOK'
    BY <1>1, <2>2, <2>3 DEF QueueOK, OwedOK
  <2> QED
    BY <2>1, <2>4, <2>5, AgentPartsNext
<1>7. ASSUME NEW i \in 1..MaxCalls, Reclassify(i) PROVE AgentInv'
  <2>1. CountsOK'
    BY <1>1, <1>7 DEF Reclassify, Spend, CountsOK, Kinds
  <2>2. /\ i \in InState(batch, {"waiting"})
        /\ UNCHANGED <<activity, at, stepped, ends, queue, log, owed, disposing, sent>>
    BY <1>7 DEF Reclassify
  <2>3. PICK mode \in Modes : batch' = [batch EXCEPT !.mode[i] = mode]
    BY <1>7 DEF Reclassify
  <2>4. BatchInv(batch')
    BY <1>1, <2>2, <2>3, ReclassifyKeeps DEF TurnOK
  <2>5. at = "tools"
    <3>1. batch = NoBatch => InState(batch, {"waiting"}) = {}
      BY NoBatchIs DEF InState
    <3> QED
      BY <1>1, <2>2, <3>1 DEF TurnOK
  <2>6. TurnOK'
    BY <1>1, <2>2, <2>4, <2>5 DEF log, TurnOK, OpenAt
  <2>7. ActivityOK' /\ QueueOK' /\ OwedOK' /\ RunningOK'
    BY <1>1, <2>2 DEF activity, ActivityOK, Aborted, QueueOK, OwedOK, RunningOK
  <2> QED
    BY <2>1, <2>6, <2>7, AgentPartsNext
<1> QED
  BY <1>2, <1>3, <1>4, <1>6, <1>7 DEF Callers

-----------------------------------------------------------------------------
(* The steps of the driver.                                                *)

LEMMA PreStepAnswersKeeps ==
  ASSUME AgentInv, PreStepAnswers
  PROVE  AgentInv'
<1>1. TurnOK /\ RunningOK
  BY AgentParts
<1>2. at = "preStep" /\ UNCHANGED world /\ open = "turn" /\ phase = "running"
  BY <1>1 DEF PreStepAnswers, TurnOK, OpenAt, RunningOK
<1>3. CASE \E reason \in {"aborted", "blocked", "error", "completed"} : TurnStops(reason, open)
  BY <1>2, <1>3, StopsKeeps DEF Endings
<1>4. CASE ~Aborted /\ TurnCompletes
  BY <1>2, <1>4, CompletesKeeps
<1>5. CASE /\ open' = Logged(open, "step/start") /\ at' = "model" /\ stepped' = TRUE
           /\ UNCHANGED <<activity, ends, batch, queue, outcome, owed>>
  <2>1. open' = "step" /\ OpenAt(at)' = "step"
    BY <1>2, <1>5 DEF Logged, OpenAt
  <2>2. batch = NoBatch
    BY <1>1, <1>2 DEF TurnOK
  <2>3. TurnOK'
    BY <1>1, <1>5, <2>1, <2>2 DEF TurnOK, Places
  <2> QED
    BY <1>2, <1>5, <2>3, MovesKeeps
<1> QED
  BY <1>3, <1>4, <1>5 DEF PreStepAnswers

LEMMA ModelKeeps ==
  ASSUME AgentInv, ModelStops \/ ModelCalls
  PROVE  AgentInv'
<1>1. TurnOK /\ RunningOK
  BY AgentParts
<1>2. CASE ModelStops
  <2>1. at = "model" /\ UNCHANGED world
    BY <1>2 DEF ModelStops
  <2>2. CASE StepFails("error")
    BY <2>1, <2>2, StepFailsKeeps DEF Endings
  <2>3. CASE ~Aborted /\ \E result \in {"completed", "maxTokens"} : StepEnds(result)
    BY <2>1, <2>3, StepEndsKeeps
  <2> QED
    BY <1>2, <2>2, <2>3 DEF ModelStops
<1>3. CASE ModelCalls
  <2>1. PICK n \in 1..MaxCalls :
          \E mode \in [1..n -> Modes] : batch' = Start(mode, Aborted')
    BY <1>3 DEF ModelCalls
  <2>2. PICK mode \in [1..n -> Modes] : batch' = Start(mode, Aborted')
    BY <2>1
  <2>3. /\ at = "model" /\ at' = "tools"
        /\ Cancels \/ UNCHANGED <<signal, latch, queue, owed, disposing, spent>>
        /\ UNCHANGED <<phase, stepped, ends, open, outcome, sent>>
    BY <1>3 DEF ModelCalls
  <2>4. BatchInv(batch')
    <3>1. Aborted' \in BOOLEAN
      BY DEF Aborted
    <3> QED
      BY <2>2, <3>1, Starts
  <2>5. open = "step" /\ OpenAt(at)' = "step"
    BY <1>1, <2>3 DEF TurnOK, OpenAt
  <2>6. TurnOK'
    BY <1>1, <2>3, <2>4, <2>5 DEF TurnOK, Places
  <2>7. RunningOK'
    BY <1>1, <2>3 DEF RunningOK
  <2>8. CASE Cancels
    BY <2>3, <2>6, <2>7, <2>8, CancelsKeep
  <2>9. CASE UNCHANGED <<signal, latch, queue, owed, disposing, spent>>
    BY <2>3, <2>6, <2>9, MovesKeeps DEF activity, world
  <2> QED
    BY <2>3, <2>8, <2>9
<1> QED
  BY <1>2, <1>3

(* A step of the scheduler, which may bring a message for the next step.   *)
LEMMA ToolStepKeeps ==
  ASSUME AgentInv, ToolStep, BatchInv(batch'),
         \/ UNCHANGED <<queue, sent>>
         \/ \E m \in Messages \ sent :
              /\ sent' = sent \cup {m}
              /\ queue' = [queue EXCEPT !["step"] = Append(@, m)]
  PROVE  AgentInv'
<1>1. ActivityOK /\ TurnOK /\ QueueOK /\ OwedOK /\ RunningOK /\ CountsOK
  BY AgentParts
<1>2. /\ at = "tools"
      /\ UNCHANGED <<activity, at, stepped, ends, log, owed, disposing, spent>>
  BY DEF ToolStep
<1>3. ActivityOK' /\ TurnOK' /\ RunningOK' /\ CountsOK'
  BY <1>1, <1>2
     DEF activity, log, ActivityOK, Aborted, TurnOK, OpenAt, RunningOK, CountsOK
<1>4. CASE UNCHANGED <<queue, sent>>
  <2>1. QueueOK' /\ OwedOK'
    BY <1>1, <1>2, <1>4 DEF activity, QueueOK, OwedOK
  <2> QED
    BY <1>3, <2>1, AgentPartsNext
<1>5. ASSUME NEW m \in Messages \ sent, sent' = sent \cup {m},
             queue' = [queue EXCEPT !["step"] = Append(@, m)]
      PROVE  AgentInv'
  <2>1. queue' \in Inboxes /\ Inside(queue') = Inside(queue) \cup {m}
    BY <1>1, <1>5, AppendedInside DEF QueueOK, Targets
  <2>2. QueueOK'
    BY <1>1, <1>2, <1>5, <2>1 DEF QueueOK
  <2>3. OwedOK'
    BY <1>1, <1>2, <1>5, <2>1 DEF activity, QueueOK, OwedOK
  <2> QED
    BY <1>3, <2>2, <2>3, AgentPartsNext
<1> QED
  BY <1>4, <1>5

LEMMA ToolsKeep ==
  ASSUME AgentInv, ToolPrepared \/ ToolSettles \/ ToolRaced \/ ToolCommitted
  PROVE  AgentInv'
<1>1. BatchInv(batch) /\ ToolStep
  BY AgentParts DEF TurnOK, ToolPrepared, ToolSettles, ToolRaced, ToolCommitted
<1>2. PICK n \in 0..MaxCalls : batch \in Batches(n)
  BY <1>1 DEF BatchInv, IsBatch
<1>3. Aborted \in BOOLEAN
  BY DEF Aborted
<1>4. DOMAIN batch.call = 1..n
  BY <1>2 DEF Batches
<1>5. CASE ToolPrepared
  <2>1. PICK answer \in {"dispatch", "result", "fails"} :
          batch' = Prepared(batch, answer, Aborted)
    BY <1>5 DEF ToolPrepared
  <2>2. batch.at = "prepare" /\ UNCHANGED <<queue, sent>>
    BY <1>5 DEF ToolPrepared
  <2>3. BatchInv(batch')
    BY <1>1, <1>2, <1>3, <2>1, <2>2, PreparedKeeps
  <2> QED
    BY <1>1, <2>2, <2>3, ToolStepKeeps
<1>6. CASE ToolSettles
  <2>1. PICK i \in InState(batch, {"running"}), fails \in BOOLEAN :
          batch' = IF batch.at = "drain" THEN Drain(Settled(batch, i, fails))
                   ELSE Settled(batch, i, fails)
    BY <1>6 DEF ToolSettles
  <2>2. UNCHANGED <<queue, sent>>
    BY <1>6 DEF ToolSettles
  <2>3. i \in 1..n /\ batch.call[i] = "running"
    BY <1>4 DEF InState
  <2>4. BatchInv(batch')
    BY <1>1, <1>2, <2>1, <2>3, SettledKeeps
  <2> QED
    BY <1>1, <2>2, <2>4, ToolStepKeeps
<1>7. CASE ToolRaced
  <2>1. PICK i \in batch.inFlight \ InState(batch, {"running"}) :
          batch' = Raced(batch, i, Aborted)
    BY <1>7 DEF ToolRaced
  <2>2. batch.at = "race" /\ UNCHANGED <<queue, sent>>
    BY <1>7 DEF ToolRaced
  <2>3. BatchInv(batch')
    BY <1>1, <1>2, <1>3, <2>1, <2>2, RacedKeeps
  <2> QED
    BY <1>1, <2>2, <2>3, ToolStepKeeps
<1>8. CASE ToolCommitted
  <2>1. batch.at = "commit"
    BY <1>8 DEF ToolCommitted
  <2>2. PICK fails \in BOOLEAN, concludes \in BOOLEAN :
          batch' = Committed(batch, fails, concludes, Aborted)
    BY <1>8 DEF ToolCommitted
  <2>3. BatchInv(batch')
    BY <1>1, <1>2, <1>3, <2>1, <2>2, CommittedKeeps
  <2>4. \/ UNCHANGED <<queue, sent>>
        \/ \E m \in Messages \ sent :
             /\ sent' = sent \cup {m}
             /\ queue' = [queue EXCEPT !["step"] = Append(@, m)]
    BY <1>8 DEF ToolCommitted
  <2> QED
    BY <1>1, <2>3, <2>4, ToolStepKeeps
<1> QED
  BY <1>5, <1>6, <1>7, <1>8

LEMMA DriverKeeps ==
  ASSUME AgentInv, Driver
  PROVE  AgentInv'
<1>1. ActivityOK /\ TurnOK /\ QueueOK /\ OwedOK /\ RunningOK /\ CountsOK
  BY AgentParts
<1>2. CASE MaintenanceEnds
  <2>1. at = "off"
    BY <1>1, <1>2 DEF MaintenanceEnds, RunningOK, TurnOK
  <2> QED
    BY <1>2, <2>1, ConvergeKeeps DEF MaintenanceEnds
<1>3. CASE Exit
  BY <1>3, ConvergeKeeps DEF Exit
<1>4. CASE ToolsOver
  <2>1. at = "tools" /\ UNCHANGED world
    BY <1>4 DEF ToolsOver
  <2>2. CASE StepFails("error")
    BY <2>1, <2>2, StepFailsKeeps DEF Endings
  <2>3. CASE StepEnds(IF batch.concluded THEN "completed" ELSE "none")
    <3> DEFINE result == IF batch.concluded THEN "completed" ELSE "none"
    <3>1. result \in {"none", "completed", "maxTokens"} /\ StepEnds(result)
      BY <2>3
    <3> HIDE DEF result
    <3> QED
      BY <2>1, <3>1, StepEndsKeeps
  <2> QED
    BY <1>4, <2>2, <2>3 DEF ToolsOver
<1>5. CASE StoppingAnswers
  <2>1. at = "stopping" /\ UNCHANGED world /\ open = "turn" /\ phase = "running"
    BY <1>1, <1>5 DEF StoppingAnswers, TurnOK, OpenAt, RunningOK
  <2>2. CASE \E reason \in {"aborted", "error"} : TurnStops(reason, open)
    BY <2>1, <2>2, StopsKeeps DEF Endings
  <2>3. CASE ~Aborted /\ TurnCompletes
    BY <2>1, <2>3, CompletesKeeps
  <2>4. CASE PreStep(queue, "step") /\ UNCHANGED <<activity, stepped, ends, batch, log, owed>>
    <3>1. /\ ends' \in {"none", "completed", "maxTokens"} /\ batch' = NoBatch /\ open' = "turn"
          /\ UNCHANGED <<activity, stepped, outcome, owed, world>>
      BY <1>1, <2>1, <2>4 DEF TurnOK, log
    <3> QED
      BY <2>1, <2>4, <3>1, ProposesKeeps
  <2> QED
    BY <1>5, <2>2, <2>3, <2>4 DEF StoppingAnswers
<1>6. CASE NextTurn
  <2>1. at = "next" /\ UNCHANGED <<activity, owed, world>> /\ phase = "running"
    BY <1>1, <1>6 DEF NextTurn, RunningOK
  <2>2. CASE at' = "exit" /\ UNCHANGED <<stepped, ends, batch, queue, log>>
    <3>1. OpenAt(at)' = "nothing" /\ open = "nothing"
      BY <1>1, <2>1, <2>2 DEF TurnOK, OpenAt
    <3>2. TurnOK'
      BY <1>1, <2>1, <2>2, <3>1 DEF TurnOK, log, Places
    <3> QED
      BY <2>1, <2>2, <3>2, MovesKeeps
  <2>3. CASE TurnBegins(queue)
    <3>1. /\ phase' = "running" /\ queue \in Inboxes
          /\ phase' = phase /\ signal' = signal /\ latch' = latch
      BY <1>1, <2>1 DEF activity, QueueOK
    <3>2. /\ TurnOK' /\ RunningOK'
          /\ queue' \in Inboxes /\ Inside(queue') \subseteq Inside(queue)
      BY <2>1, <2>3, <3>1, TurnBeginsKeeps
    <3>3. ActivityOK' /\ CountsOK'
      BY <1>1, <2>1, <3>1 DEF ActivityOK, Aborted, CountsOK, world
    <3>4. QueueOK' /\ OwedOK'
      BY <1>1, <2>1, <3>1, <3>2 DEF QueueOK, OwedOK, world
    <3> QED
      BY <3>2, <3>3, <3>4, AgentPartsNext
  <2> QED
    BY <1>6, <2>2, <2>3 DEF NextTurn
<1> QED
  BY <1>2, <1>3, <1>4, <1>5, <1>6, PreStepAnswersKeeps, ModelKeeps, ToolsKeep DEF Driver

-----------------------------------------------------------------------------
(* What follows from the invariant.                                        *)

LEMMA AgentStep == AgentInv /\ [Next]_vars => AgentInv'
<1> SUFFICES ASSUME AgentInv, [Next]_vars PROVE AgentInv'
  OBVIOUS
<1>1. CASE Next
  BY <1>1, CallersKeep, DriverKeeps DEF Next
<1>2. CASE UNCHANGED vars
  <2>1. /\ ActivityOK /\ TurnOK /\ QueueOK /\ OwedOK /\ RunningOK /\ CountsOK
    BY AgentParts
  <2>2. /\ UNCHANGED <<phase, signal, latch, at, stepped, ends, batch, queue, open, outcome>>
        /\ UNCHANGED <<owed, disposing, sent, spent>>
    BY <1>2 DEF vars, activity, turn, log, world
  <2>3. ActivityOK' /\ TurnOK' /\ RunningOK' /\ CountsOK'
    BY <2>1, <2>2 DEF ActivityOK, Aborted, TurnOK, OpenAt, RunningOK, CountsOK
  <2>4. QueueOK' /\ OwedOK'
    BY <2>1, <2>2 DEF QueueOK, OwedOK
  <2> QED
    BY <2>3, <2>4, AgentPartsNext
<1> QED
  BY <1>1, <1>2

LEMMA BatchIsScheduled ==
  ASSUME NEW b, BatchInv(b)
  PROVE  CallsInOrder(b) /\ CallsAnswered(b) /\ NothingLeftRunning(b)
<1>1. PICK n \in 0..MaxCalls : b \in Batches(n)
  BY DEF BatchInv, IsBatch
<1>2. /\ DOMAIN b.call = 1..n /\ b.inFlight \in SUBSET (1..n) /\ n \in Nat /\ Orderly(b)
  BY <1>1, PoolAssumption DEF Batches, BatchInv
<1>3. Cardinality(InState(b, {"running"})) <= MaxParallel
  <2>1. InState(b, {"running"}) \subseteq b.inFlight
        /\ Cardinality(b.inFlight) <= MaxParallel
    BY <1>2 DEF Orderly
  <2>2. IsFiniteSet(b.inFlight) /\ Cardinality(b.inFlight) \in Nat
    BY <1>2, FlightIsFinite
  <2>3. Cardinality(InState(b, {"running"})) <= Cardinality(b.inFlight)
    BY <2>1, <2>2, FS_Subset
  <2>4. Cardinality(InState(b, {"running"})) \in Nat
    BY <1>2, <2>1, FlightIsFinite
  <2> QED
    BY <2>1, <2>2, <2>3, <2>4, PoolAssumption
<1>4. CallsInOrder(b)
  BY <1>2, <1>3 DEF CallsInOrder, Orderly, Active
<1>5. CallsAnswered(b)
  BY DEF CallsAnswered, BatchInv
<1>6. NothingLeftRunning(b)
  <2>1. b.at = "off" => DOMAIN b.call = {}
    BY DEF BatchInv, NoBatch, Message
  <2>2. b.at = "over" => InState(b, {"preparing", "running"}) = {}
    <3>1. b.at = "over" => \A i \in 1..n : b.call[i] \in Answered
      BY <1>2 DEF BatchInv, InState
    <3> QED
      BY <1>2, <3>1 DEF InState, Answered
  <2>3. b.at = "failed" => InState(b, {"preparing"}) = {} /\ InState(b, {"running"}) = {}
    BY DEF BatchInv
  <2>4. b.at = "failed" => InState(b, {"preparing", "running"}) = {}
    BY <2>3 DEF InState
  <2> QED
    BY <2>1, <2>2, <2>4 DEF NothingLeftRunning, InState
<1> QED
  BY <1>4, <1>5, <1>6

(* From one state of a batch to the next, a call is opened.                *)
Opens(b, c) ==
  \E i \in DOMAIN c.call :
    c.call[i] = "preparing" /\ (i \in DOMAIN b.call => b.call[i] = "waiting")

LEMMA SkippingOpensNothing ==
  ASSUME NEW b, NEW s, s.call = b.call
  PROVE  ~Opens(b, SkipCalls(s))
<1>1. SkipCalls(s).call =
        [i \in DOMAIN s.call |-> IF s.call[i] = "waiting" THEN "skipped" ELSE s.call[i]]
      \/ SkipCalls(s).call = s.call
  BY DEF SkipCalls
<1> QED
  BY <1>1 DEF Opens

LEMMA AbortedOpensNothing ==
  ASSUME NEW n \in 0..MaxCalls, NEW b \in Batches(n)
  PROVE  ~Opens(b, Continue(b, TRUE)) /\ ~Opens(b, CommitReady(b, TRUE))
<1> DEFINE s == [b EXCEPT !.aborted = TRUE]
<1>1. s \in Batches(n) /\ s.call = b.call /\ s.aborted = TRUE /\ s.inFlight = b.inFlight
  BY DEF Batches
<1>2. ~b.failed => Continue(b, TRUE) = FillPool(s, TRUE)
  <2>1. (b.aborted \/ TRUE) = TRUE
    OBVIOUS
  <2> QED
    BY <2>1 DEF Continue
<1> HIDE DEF s
<1>3. ~MayJoin(s)
  BY <1>1 DEF MayJoin
<1>4. ~Opens(b, FillPool(s, TRUE))
  <2>1. CASE s.inFlight # {}
    <3>1. FillPool(s, TRUE) = [s EXCEPT !.at = "race"]
      BY <1>3, <2>1 DEF FillPool
    <3>2. [s EXCEPT !.at = "race"].call = b.call
      BY <1>1 DEF Batches
    <3> QED
      BY <3>1, <3>2 DEF Opens
  <2>2. CASE s.inFlight = {}
    <3>1. FillPool(s, TRUE) = SkipCalls(s)
      BY <1>1, <1>3, <2>2 DEF FillPool, GroupOver
    <3> QED
      BY <1>1, <3>1, SkippingOpensNothing
  <2> QED
    BY <2>1, <2>2
<1>5. b.failed => Continue(b, TRUE).call = b.call
  <2>1. Drain(b).call = b.call
    BY DEF Drain, Batches
  <2> QED
    BY <2>1 DEF Continue
<1>6. ~Opens(b, Continue(b, TRUE))
  BY <1>2, <1>4, <1>5 DEF Opens
<1>7. Committable(b) # {} => CommitReady(b, TRUE).call = b.call
  <2>1. [b EXCEPT !.at = "commit"].call = b.call
    BY DEF Batches
  <2> QED
    BY <2>1 DEF CommitReady
<1>8. Committable(b) = {} => CommitReady(b, TRUE) = Continue(b, TRUE)
  BY DEF CommitReady
<1> QED
  BY <1>6, <1>7, <1>8 DEF Opens

(* A call that was not waiting moves on, and the others are looked at.     *)
LEMMA MovingOpensNothing ==
  ASSUME NEW n \in 0..MaxCalls, NEW b \in Batches(n), NEW c \in Batches(n),
         \A i \in 1..n : b.call[i] = "waiting" => c.call[i] = "waiting", NEW d
  PROVE  Opens(b, d) => Opens(c, d)
<1>1. DOMAIN b.call = 1..n /\ DOMAIN c.call = 1..n
  BY DEF Batches
<1> QED
  BY <1>1 DEF Opens

LEMMA SameOpensNothing ==
  ASSUME NEW b, NEW c, c = b \/ c = NoBatch \/ c.call = b.call
  PROVE  ~Opens(b, c)
<1>1. DOMAIN NoBatch.call = {}
  BY NoBatchIs
<1> QED
  BY <1>1 DEF Opens

LEMMA DrainOpensNothing ==
  ASSUME NEW n \in 0..MaxCalls, NEW b \in Batches(n)
  PROVE  ~Opens(b, Drain(b))
<1>1. Drain(b).call = b.call
  BY DEF Drain, Batches
<1> QED
  BY <1>1, SameOpensNothing

LEMMA ToolsOpenNothing ==
  ASSUME AgentInv, Aborted, ToolPrepared \/ ToolSettles \/ ToolRaced \/ ToolCommitted
  PROVE  ~Opens(batch, batch')
<1>1. BatchInv(batch)
  BY AgentParts DEF TurnOK
<1>2. PICK n \in 0..MaxCalls : batch \in Batches(n)
  BY <1>1 DEF BatchInv, IsBatch
<1>3. /\ DOMAIN batch.call = 1..n /\ batch.call \in [1..n -> CallStates]
      /\ batch.inFlight \in SUBSET (1..n) /\ n \in Nat
      /\ batch.failed \in BOOLEAN /\ batch.concluded \in BOOLEAN
  BY <1>2, PoolAssumption DEF Batches
<1>4. Aborted = TRUE
  BY DEF Aborted
(* Whatever the call that is not waiting becomes, nothing else is opened.  *)
<1>5. ASSUME NEW c \in Batches(n), NEW k \in 1..n, batch.call[k] # "waiting",
             \A j \in (1..n) \ {k} : c.call[j] = batch.call[j]
      PROVE  ~Opens(batch, Drain(c)) /\ ~Opens(batch, CommitReady(c, TRUE)) /\ ~Opens(batch, c)
  <2>1. \A i \in 1..n : batch.call[i] = "waiting" => c.call[i] = "waiting"
    BY <1>5
  <2>2. ~Opens(c, Drain(c)) /\ ~Opens(c, CommitReady(c, TRUE)) /\ ~Opens(c, c)
    BY <1>5, DrainOpensNothing, AbortedOpensNothing, SameOpensNothing
  <2> QED
    BY <1>2, <1>5, <2>1, <2>2, MovingOpensNothing
<1>6. ASSUME NEW k \in 1..n, NEW new \in CallStates
      PROVE  /\ [batch EXCEPT !.call[k] = new] \in Batches(n)
             /\ \A j \in (1..n) \ {k} :
                  [batch EXCEPT !.call[k] = new].call[j] = batch.call[j]
  BY <1>2, <1>3 DEF Batches
<1>7. CASE ToolPrepared
  <2> DEFINE k == First(InState(batch, {"preparing"}))
  <2>1. PICK answer \in {"dispatch", "result", "fails"} :
          batch' = Prepared(batch, answer, TRUE)
    BY <1>4, <1>7 DEF ToolPrepared
  <2>2. PICK only \in 1..n : InState(batch, {"preparing"}) = {only}
    BY <1>1, <1>3, <1>7 DEF BatchInv, ToolPrepared
  <2>3. k \in InState(batch, {"preparing"})
    BY <2>2, FirstIs
  <2>4. k \in 1..n /\ batch.call[k] # "waiting"
    BY <1>3, <2>3 DEF InState
  <2>5. Prepared(batch, answer, TRUE) =
          IF batch.failed \/ answer = "fails" THEN Drain([batch EXCEPT !.call[k] = "lost"])
          ELSE IF answer = "result" THEN CommitReady([batch EXCEPT !.call[k] = "settled"], TRUE)
          ELSE CommitReady([batch EXCEPT !.call[k] = "running", !.inFlight = @ \cup {k}], TRUE)
    BY DEF Prepared
  <2> HIDE DEF k
  <2>6. ~Opens(batch, Drain([batch EXCEPT !.call[k] = "lost"]))
    BY <1>5, <1>6, <2>4 DEF CallStates
  <2>7. ~Opens(batch, CommitReady([batch EXCEPT !.call[k] = "settled"], TRUE))
    BY <1>5, <1>6, <2>4 DEF CallStates
  <2>8. ~Opens(batch,
               CommitReady([batch EXCEPT !.call[k] = "running", !.inFlight = @ \cup {k}], TRUE))
    <3> DEFINE c == [batch EXCEPT !.call[k] = "running", !.inFlight = @ \cup {k}]
    <3>1. c \in Batches(n) /\ \A j \in (1..n) \ {k} : c.call[j] = batch.call[j]
      BY <1>2, <1>3, <2>4 DEF Batches, CallStates
    <3> HIDE DEF c
    <3>2. ~Opens(batch, CommitReady(c, TRUE))
      BY <1>5, <2>4, <3>1
    <3> QED
      BY <3>2 DEF c
  <2> QED
    BY <2>1, <2>5, <2>6, <2>7, <2>8
<1>8. CASE ToolSettles
  <2>1. PICK i \in InState(batch, {"running"}), fails \in BOOLEAN :
          batch' = IF batch.at = "drain" THEN Drain(Settled(batch, i, fails))
                   ELSE Settled(batch, i, fails)
    BY <1>8 DEF ToolSettles
  <2> DEFINE new == IF fails THEN "lost" ELSE "settled"
             gone == batch.failed \/ fails
             c == [batch EXCEPT !.call[i] = new, !.failed = gone]
  <2>2. i \in 1..n /\ batch.call[i] # "waiting"
    BY <1>3 DEF InState
  <2>3. Settled(batch, i, fails) = c
    BY DEF Settled
  <2>4. new \in CallStates /\ gone \in BOOLEAN
    BY DEF CallStates
  <2> HIDE DEF new, gone
  <2>5. c \in Batches(n) /\ \A j \in (1..n) \ {i} : c.call[j] = batch.call[j]
    BY <1>2, <1>3, <2>2, <2>4 DEF Batches
  <2> HIDE DEF c
  <2>6. ~Opens(batch, Drain(c)) /\ ~Opens(batch, c)
    BY <1>5, <2>2, <2>5
  <2> QED
    BY <2>1, <2>3, <2>6
<1>9. CASE ToolRaced
  <2>1. PICK i \in batch.inFlight \ InState(batch, {"running"}) :
          batch' = Raced(batch, i, TRUE)
    BY <1>4, <1>9 DEF ToolRaced
  <2> DEFINE c == [batch EXCEPT !.inFlight = @ \ {i}]
  <2>2. c \in Batches(n) /\ c.call = batch.call
    BY <1>2 DEF Batches
  <2>3. Raced(batch, i, TRUE) = IF batch.failed THEN Drain(c) ELSE CommitReady(c, TRUE)
    BY DEF Raced
  <2> HIDE DEF c
  <2>4. ~Opens(c, Drain(c)) /\ ~Opens(c, CommitReady(c, TRUE))
    BY <2>2, DrainOpensNothing, AbortedOpensNothing
  <2>5. ~Opens(batch, Drain(c)) /\ ~Opens(batch, CommitReady(c, TRUE))
    BY <1>2, <2>2, <2>4, MovingOpensNothing
  <2> QED
    BY <2>1, <2>3, <2>5
<1>10. CASE ToolCommitted
  <2> DEFINE k == First(Committable(batch))
  <2>1. PICK fails \in BOOLEAN, concludes \in BOOLEAN :
          batch' = Committed(batch, fails, concludes, TRUE)
    BY <1>4, <1>10 DEF ToolCommitted
  <2>2. Committable(batch) # {}
    BY <1>1, <1>10 DEF BatchInv, ToolCommitted
  <2>3. Committable(batch) \subseteq Nat
    BY <1>3 DEF Committable, InState
  <2>4. k \in Committable(batch)
    BY <2>2, <2>3, FirstIs
  <2> DEFINE over == batch.concluded \/ concludes
             c == [batch EXCEPT !.call[k] = "done", !.concluded = over]
  <2>5. Committed(batch, fails, concludes, TRUE) =
          IF fails THEN Drain([batch EXCEPT !.call[k] = "lost"]) ELSE CommitReady(c, TRUE)
    BY DEF Committed
  <2>6. over \in BOOLEAN
    BY <1>3
  <2> HIDE DEF k, over
  <2>7. k \in 1..n /\ batch.call[k] # "waiting"
    BY <1>3, <2>4 DEF Committable, InState
  <2>8. ~Opens(batch, Drain([batch EXCEPT !.call[k] = "lost"]))
    BY <1>5, <1>6, <2>7 DEF CallStates
  <2>9. c \in Batches(n) /\ \A j \in (1..n) \ {k} : c.call[j] = batch.call[j]
    BY <1>2, <1>3, <2>6, <2>7 DEF Batches, CallStates, Answered
  <2> HIDE DEF c
  <2>10. ~Opens(batch, CommitReady(c, TRUE))
    BY <1>5, <2>7, <2>9
  <2> QED
    BY <2>1, <2>5, <2>8, <2>10
<1> QED
  BY <1>7, <1>8, <1>9, <1>10

(* The calls of a message whose observer has cancelled are all skipped.    *)
LEMMA ModelOpensNothing ==
  ASSUME ModelCalls, Aborted' PROVE ~Opens(batch, batch')
<1>1. PICK n \in 1..MaxCalls : \E mode \in [1..n -> Modes] : batch' = Start(mode, Aborted')
  BY DEF ModelCalls
<1>2. PICK mode \in [1..n -> Modes] : batch' = Start(mode, Aborted')
  BY <1>1
<1> DEFINE b == Message(mode)
<1>3. n \in Nat /\ n \in 0..MaxCalls
  BY PoolAssumption
<1>4. b \in Batches(n) /\ DOMAIN b.call = 1..n /\ \A i \in 1..n : b.call[i] = "waiting"
  BY <1>3, MessageIs
<1>5. Aborted' = TRUE
  BY DEF Aborted
<1>6. batch' = Start(mode, TRUE)
  BY <1>2, <1>5
<1> HIDE DEF b
<1>7. PICK s : s.call = b.call /\ batch' = SkipCalls(s)
  <2>1. batch' = StartGroup(b, TRUE)
    BY <1>6 DEF Start, b
  <2> QED
    BY <1>4, <2>1 DEF StartGroup, Batches
<1>8. ~Opens(b, batch')
  BY <1>7, SkippingOpensNothing
<1>9. ~\E i \in DOMAIN batch'.call : batch'.call[i] = "preparing"
  BY <1>4, <1>8 DEF Opens
<1> QED
  BY <1>9 DEF Opens

(* Every other step leaves the calls alone, or drops them.                 *)
LEMMA OthersOpenNothing ==
  ASSUME Callers \/ MaintenanceEnds \/ PreStepAnswers \/ ModelStops
         \/ ToolsOver \/ StoppingAnswers \/ NextTurn \/ Exit
  PROVE  ~Opens(batch, batch')
<1>1. CASE Callers
  <2>1. ASSUME NEW i \in 1..MaxCalls, Reclassify(i) PROVE batch'.call = batch.call
    BY <2>1 DEF Reclassify
  <2>2. ASSUME \/ \E m \in Messages, target \in Targets, wakeup \in BOOLEAN :
                    Send(m, target, wakeup)
               \/ \E m \in Messages : Remove(m)
               \/ Cancel \/ RunMaintenance
        PROVE  batch' = batch \/ batch' = NoBatch
    BY <2>2 DEF Send, Remove, Cancel, RunMaintenance, TurnBegins, turn
  <2> QED
    BY <1>1, <2>1, <2>2, SameOpensNothing DEF Callers
<1>2. CASE MaintenanceEnds \/ Exit \/ NextTurn
  <2>1. batch' = batch \/ batch' = NoBatch
    BY <1>2 DEF MaintenanceEnds, Exit, NextTurn, Converge, TurnBegins, NothingBegins
  <2> QED
    BY <2>1, SameOpensNothing
<1>3. CASE PreStepAnswers \/ StoppingAnswers
  <2>1. batch' = batch \/ batch' = NoBatch
    BY <1>3 DEF PreStepAnswers, StoppingAnswers, TurnStops, TurnCompletes, TurnCloses, PreStep
  <2> QED
    BY <2>1, SameOpensNothing
<1>4. CASE ModelStops \/ ToolsOver
  <2>1. batch' = batch \/ batch' = NoBatch
    BY <1>4 DEF ModelStops, ToolsOver, StepFails, StepEnds, TurnStops, TurnCloses
  <2> QED
    BY <2>1, SameOpensNothing
<1> QED
  BY <1>1, <1>2, <1>3, <1>4

LEMMA StepOpensNothing ==
  AgentInv /\ [Next]_vars =>
    [\A i \in DOMAIN batch'.call :
       /\ batch'.call[i] = "preparing"
       /\ i \in DOMAIN batch.call => batch.call[i] = "waiting"
       => ~Aborted /\ ~Aborted']_vars
<1> SUFFICES ASSUME AgentInv, Next, Aborted \/ Aborted' PROVE ~Opens(batch, batch')
  BY DEF Opens
<1>1. CASE ModelCalls
  BY <1>1, ModelOpensNothing DEF ModelCalls
<1>2. CASE ToolPrepared \/ ToolSettles \/ ToolRaced \/ ToolCommitted
  <2>1. Aborted' = Aborted
    BY <1>2 DEF ToolPrepared, ToolSettles, ToolRaced, ToolCommitted, ToolStep, activity, Aborted
  <2> QED
    BY <1>2, <2>1, ToolsOpenNothing
<1> QED
  BY <1>1, <1>2, OthersOpenNothing DEF Next, Driver

LEMMA DisposalStays ==
  AgentInv /\ [Next]_vars =>
    [signal = "disposed" => signal' = "disposed" \/ phase' = "idle"]_vars
<1> SUFFICES ASSUME AgentInv, Next, signal = "disposed"
             PROVE  signal' = "disposed" \/ phase' = "idle"
  OBVIOUS
<1>1. ~latch /\ phase # "idle" /\ Aborted
  BY AgentParts DEF ActivityOK, Aborted
<1>2. CASE Callers
  BY <1>1, <1>2 DEF Callers, Send, Remove, Cancel, Cancels, CancelWith, RunMaintenance,
                    Reclassify, activity
<1>3. CASE MaintenanceEnds \/ Exit
  BY <1>1, <1>3 DEF MaintenanceEnds, Exit, Converge, NothingBegins
<1>4. CASE PreStepAnswers \/ StoppingAnswers
  BY <1>1, <1>4 DEF PreStepAnswers, StoppingAnswers, TurnStops, activity
<1>5. CASE ModelStops \/ ModelCalls \/ ToolsOver
  BY <1>1, <1>5 DEF ModelStops, ModelCalls, ToolsOver, StepFails, StepEnds, TurnStops, activity
<1>6. CASE NextTurn \/ ToolPrepared \/ ToolSettles \/ ToolRaced \/ ToolCommitted
  BY <1>6 DEF NextTurn, ToolPrepared, ToolSettles, ToolRaced, ToolCommitted, ToolStep, activity
<1> QED
  BY <1>2, <1>3, <1>4, <1>5, <1>6 DEF Next, Driver

-----------------------------------------------------------------------------
(* The agent's invariant holds whatever callers, hooks, the model and the  *)
(* tools do, and however their answers interleave.                         *)
THEOREM AgentInvariant == Spec => []AgentInv
BY AgentInit, AgentStep, PTL DEF Spec

(* The state is typed in every reachable state.                            *)
THEOREM AgentTypes == Spec => []TypeOK
<1>1. AgentInv => TypeOK
  BY DEF AgentInv
<1> QED
  BY <1>1, AgentInvariant, PTL

(* Whatever fails or is cancelled, the agent logs turns and steps that the *)
(* session's validating companion accepts, and closes what it opened.      *)
THEOREM LogIsLegal == Spec => []TurnsAreLegal
<1>1. AgentInv => TurnsAreLegal
  BY DEF AgentInv, TypeOK, TurnsAreLegal, OpenAt
<1> QED
  BY <1>1, AgentInvariant, PTL

(* An idle agent has no message queued whose wake it had put off.          *)
THEOREM NoWakeIsLost == Spec => []WakesArrive
<1>1. AgentInv => WakesArrive
  BY DEF AgentInv, WakeInv, WakesArrive
<1> QED
  BY <1>1, AgentInvariant, PTL

(* For any calls, any pool and any failures, the scheduler records the     *)
(* results in the order of the message, runs exclusive calls alone, never  *)
(* exceeds its pool, and leaves no call unanswered or running behind it.   *)
THEOREM SchedulerKeepsOrder == Spec => []ToolsScheduled
<1>1. AgentInv => ToolsScheduled
  BY BatchIsScheduled DEF AgentInv, ToolsScheduled
<1> QED
  BY <1>1, AgentInvariant, PTL

(* Once the turn's signal has aborted, the scheduler opens no further call *)
(* of the message, at whichever await the abort found it.                  *)
THEOREM AbortOpensNothing == Spec => NoStartAfterAbort
BY AgentInvariant, StepOpensNothing, PTL DEF Spec, NoStartAfterAbort

(* Nothing follows the activity that disposal cancelled.                   *)
THEOREM DisposalIsLast == Spec => DisposalStartsNothing
BY AgentInvariant, DisposalStays, PTL DEF Spec, DisposalStartsNothing
=============================================================================
