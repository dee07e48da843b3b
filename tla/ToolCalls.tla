------------------------------ MODULE ToolCalls -------------------------------
(***************************************************************************)
(* The scheduler of one assistant message's tool calls                     *)
(* (packages/core/agent-loop/src/tool-calls.ts): exclusive calls form      *)
(* barriers, parallel ones share a bounded pool, results are recorded in   *)
(* the order of the message, an abort stops new calls and drains the       *)
(* started ones, and an internal failure drains without results.           *)
(*                                                                         *)
(* A batch is the scheduler's state at an await; the operators say what it *)
(* does from there to the next one.                                        *)
(***************************************************************************)
EXTENDS Naturals, Sequences, FiniteSets

CONSTANTS MaxCalls,   \* bound on the calls of one assistant message
          MaxParallel \* maxParallelToolCalls

ASSUME PoolAssumption == MaxParallel \in Nat \ {0} /\ MaxCalls \in Nat

Modes == {"parallel", "exclusive"}
Answered == {"done", "skipped"}
CallStates == {"waiting", "preparing", "running", "settled", "lost"} \cup Answered

(* mode is what the registry says now, as what it said when the call was   *)
(* started; last ends the group; at is the await.                           *)
Message(modes) ==
  [mode |-> modes, as |-> modes, call |-> [i \in DOMAIN modes |-> "waiting"],
   last |-> 0, at |-> "off", inFlight |-> {}, aborted |-> FALSE, failed |-> FALSE,
   concluded |-> FALSE]
NoBatch == Message(<<>>)

Batches(n) ==
  [mode : [1..n -> Modes], as : [1..n -> Modes], call : [1..n -> CallStates],
   last : 0..n, inFlight : SUBSET (1..n),
   at : {"off", "prepare", "race", "commit", "drain", "over", "failed"},
   aborted : BOOLEAN, failed : BOOLEAN, concluded : BOOLEAN]
IsBatch(b) == \E n \in 0..MaxCalls : b \in Batches(n)

InState(b, states) == {i \in DOMAIN b.call : b.call[i] \in states}
First(indices) == CHOOSE i \in indices : \A j \in indices : i <= j

-----------------------------------------------------------------------------
StartCall(b, i) ==
  [b EXCEPT !.call[i] = "preparing", !.as[i] = b.mode[i], !.at = "prepare"]

(* Every call that will not run is recorded with a result of its own.      *)
SkipCalls(b) ==
  [b EXCEPT !.at = "over",
            !.call = [i \in DOMAIN @ |-> IF @[i] = "waiting" THEN "skipped" ELSE @[i]]]

(* The next barrier or pool begins at the first call not yet started.      *)
StartGroup(b, aborted) ==
  LET i == First(InState(b, {"waiting"}))
      group == [b EXCEPT !.aborted = aborted,
                         !.last = IF b.mode[i] = "parallel" THEN Len(b.call) ELSE i]
  IN IF aborted THEN SkipCalls(group) ELSE StartCall(group, i)

GroupOver(b, aborted) ==
  IF b.aborted THEN SkipCalls(b)
  ELSE IF InState(b, {"waiting"}) = {} THEN [b EXCEPT !.at = "over"]
  ELSE StartGroup(b, aborted)

MayJoin(b) ==
  \E i \in InState(b, {"waiting"}) :
    /\ i = First(InState(b, {"waiting"})) /\ i <= b.last
    /\ ~b.aborted /\ Cardinality(b.inFlight) < MaxParallel
    /\ b.mode[i] = "parallel"

(* Slip: the race is entered with nothing in flight, and never ends.     *)
FillPoolAndRace(b, aborted) ==
  IF MayJoin(b) THEN StartCall(b, First(InState(b, {"waiting"})))
  ELSE [b EXCEPT !.at = "race"]

FillPool(b, aborted) ==
  CASE MayJoin(b) -> StartCall(b, First(InState(b, {"waiting"})))
    [] b.inFlight # {} /\ ~MayJoin(b) -> [b EXCEPT !.at = "race"]
    [] OTHER -> GroupOver(b, aborted)

(* A failure waits for what has been dispatched before it is thrown.       *)
Drain(b) ==
  [b EXCEPT !.failed = TRUE,
            !.at = IF InState(b, {"running"}) = {} THEN "failed" ELSE "drain"]

(* Slip: a signal that aborted during the await is not looked at.        *)
ContinueUnaware(b, aborted) ==
  IF b.failed THEN Drain(b) ELSE FillPool(b, aborted)

Continue(b, aborted) ==
  IF b.failed THEN Drain(b)
  ELSE FillPool([b EXCEPT !.aborted = @ \/ aborted], aborted)

(* Results are committed only across contiguous slots.                     *)
(* Slip: any settled call is committed.                                  *)
CommittableAny(b) == InState(b, {"settled"})

Committable(b) ==
  {i \in InState(b, {"settled"}) : \A j \in 1..(i - 1) : b.call[j] \in Answered}

CommitReady(b, aborted) ==
  IF Committable(b) # {} THEN [b EXCEPT !.at = "commit"] ELSE Continue(b, aborted)

-----------------------------------------------------------------------------
Start(modes, aborted) == StartGroup(Message(modes), aborted)

(* The policy's answer: the call is dispatched, or has its result already, *)
(* or the scheduler fails.                                                 *)
Prepared(b, answer, aborted) ==
  LET i == First(InState(b, {"preparing"}))
  IN IF b.failed \/ answer = "fails" THEN Drain([b EXCEPT !.call[i] = "lost"])
     ELSE IF answer = "result" THEN CommitReady([b EXCEPT !.call[i] = "settled"], aborted)
     ELSE CommitReady([b EXCEPT !.call[i] = "running", !.inFlight = @ \cup {i}], aborted)

Settled(b, i, fails) ==
  [b EXCEPT !.call[i] = IF fails THEN "lost" ELSE "settled", !.failed = @ \/ fails]

Raced(b, i, aborted) ==
  LET taken == [b EXCEPT !.inFlight = @ \ {i}]
  IN IF b.failed THEN Drain(taken) ELSE CommitReady(taken, aborted)

Committed(b, fails, concludes, aborted) ==
  LET i == First(Committable(b))
  IN IF fails THEN Drain([b EXCEPT !.call[i] = "lost"])
     ELSE CommitReady([b EXCEPT !.call[i] = "done", !.concluded = @ \/ concludes], aborted)

-----------------------------------------------------------------------------
(* Results are recorded in the order of the message; an exclusive call has *)
(* its predecessors' results before it and no successor beside it; the     *)
(* pool is never larger than configured.                                   *)
CallsInOrder(b) ==
  /\ \A i, j \in DOMAIN b.call :
       i < j => /\ b.call[j] \in Answered => b.call[i] \in Answered
                /\ b.as[j] = "exclusive" /\ b.call[j] \notin {"waiting", "skipped"}
                     => b.call[i] = "done"
                /\ b.as[i] = "exclusive" /\ b.call[i] \in {"preparing", "running", "settled"}
                     => b.call[j] = "waiting"
  /\ Cardinality(InState(b, {"running"})) <= MaxParallel

(* Unless the scheduler fails, every call of the message gets a result.    *)
CallsAnswered(b) == b.at = "over" => InState(b, Answered) = DOMAIN b.call

(* The scheduler never leaves a call running behind it.                    *)
NothingLeftRunning(b) ==
  b.at \in {"off", "over", "failed"} => InState(b, {"preparing", "running"}) = {}

-----------------------------------------------------------------------------
(* The inductive invariant behind these.                                   *)
Active == {"preparing", "running", "settled"}

Orderly(b) ==
  /\ \A i, j \in DOMAIN b.call :
       i < j => /\ b.call[i] = "waiting" => b.call[j] = "waiting"
                /\ b.call[j] \in Answered => b.call[i] \in Answered
                /\ b.as[j] = "exclusive" /\ b.call[j] \notin {"waiting", "skipped"}
                     => b.call[i] = "done"
                /\ b.as[i] = "exclusive" /\ b.call[i] \in Active
                     => b.call[j] = "waiting"
  /\ \A i \in DOMAIN b.call :
       b.as[i] = "exclusive" /\ b.call[i] \in Active => b.last <= i
  /\ InState(b, {"running"}) \subseteq b.inFlight
  /\ Cardinality(b.inFlight) <= MaxParallel
  /\ ~b.failed => InState(b, {"lost"}) = {}

BatchInv(b) ==
  /\ IsBatch(b) /\ Orderly(b)
  /\ IF b.at = "prepare"
     THEN /\ Cardinality(b.inFlight) < MaxParallel
          /\ \E i \in DOMAIN b.call : InState(b, {"preparing"}) = {i}
     ELSE InState(b, {"preparing"}) = {}
  /\ b.at # "over" => InState(b, {"skipped"}) = {}
  /\ b.at = "over" => InState(b, Answered) = DOMAIN b.call
  /\ b.at = "failed" => InState(b, {"running"}) = {}
  /\ b.at = "commit" => Committable(b) # {}
  /\ b.at = "off" => b = NoBatch
=============================================================================
