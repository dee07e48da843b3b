----------------------------- MODULE AcpAgentInv ------------------------------
(* Why the safety properties of AcpAgent hold: the inductive invariant.     *)
EXTENDS AcpAgent

Owned(c) ==
  /\ \A f \in Flows : c.at[f] \in Owning => c.phase.by = f
  /\ c.at.turn # "none" => c.phase.by = "turn"
  /\ \A f \in {"op", "switch"} : c.phase.by = f => c.at[f] \in Owning \cup {"run"}
  /\ c.phase.by = "idle" => c.phase = Idle

(* A request of a flow is the only one, and its flow awaits it.            *)
SyncsOwned(c) ==
  \A i \in 1..Len(c.syncs) : c.syncs[i].by # "watch" =>
    /\ c.at[c.syncs[i].by] = "sync"
    /\ \A j \in 1..Len(c.syncs) : c.syncs[j].by # "watch" => j = i

(* A flow that awaits whenIdle is in one place.                            *)
In(s, f) == \E i \in 1..Len(s) : s[i] = f
Once(s, f) == \A i, j \in 1..Len(s) : s[i] = f /\ s[j] = f => i = j
Placed(first, second, f) ==
  /\ Once(first, f) /\ Once(second, f)
  /\ ~(In(first, f) /\ In(second, f))
Awaits(c, gone, f) ==
  /\ In(c.waiting, f) \/ In(gone, f) => c.at[f] = "wait"
  /\ Placed(c.waiting, gone, f)

OpsQueued(c, gone) == (c.ops.pending = 0 <=> c.at.op = "none") /\ Awaits(c, gone, "op")
SwitchReserved(c, gone) == (c.held = "no" <=> c.at.switch = "none") /\ Awaits(c, gone, "switch")

TurnIsClear(c) ==
  c.phase.by = "turn" /\ (c.held # "no" \/ closing # "open") => c.phase.aborted

(* No message that asked for a turn is pending without someone to wake it. *)
WakesLatched(c) ==
  closing = "open" =>
    \/ Pending(c) \subseteq kept.caller \cup kept.switch
    \/ c.held = "wake" \/ (c.ops.wake /\ c.ops.pending > 0) \/ c.phase.wake
    \/ (c.phase.by = "turn" /\ ~c.phase.aborted)

(* The Session's log holds what was sent, is not pending and not dropped.  *)
Distinct(c) ==
  /\ \A i, j \in 1..Len(c.inbox.turn) : c.inbox.turn[i] = c.inbox.turn[j] => i = j
  /\ \A i \in 1..Len(c.inbox.turn) : c.inbox.turn[i] \notin c.inbox.step
Recorded(c, made, dropped) ==
  /\ dropped \subseteq made /\ Pending(c) \subseteq made \ dropped
  /\ \A m \in Messages : c.transcript[m] = IF m \in made \ (Pending(c) \cup dropped) THEN 1 ELSE 0
Conserved(c, made, dropped) == Distinct(c) /\ Recorded(c, made, dropped)

(* Disposal: its steps, and what none of them finds again.                 *)
Winding(c, gone, stage) ==
  /\ Placed(c.waiting, gone, "close")
  /\ In(c.waiting, "close") \/ In(gone, "close") => stage \in {"idle", "idle again"}
  /\ In(gone, "close") \/ stage \in {"ops", "idle again", "process", "closed"} =>
       c.phase.by # "turn"
  /\ stage \in {"idle again", "process", "closed"} => c.ops.pending = 0
  /\ stage = "closed" => c.runtime.life \in {"none", "closed"}

(* The last of the mode requests that are on their way leaves a turn that  *)
(* runs no wider than its sandbox; a process that never was is retired.    *)
Narrowed(c) ==
  IF c.syncs = <<>> THEN c.runtime.mode <= c.sandbox
  ELSE c.syncs[Len(c.syncs)].mode <= c.sandbox
Confined(c) ==
  /\ c.runtime.life = "none" => c.runtime.retired
  /\ c.at.turn \in {"sync", "build", "prompt"} =>
       c.phase.aborted \/ c.runtime.retired \/ Narrowed(c)

AgentInv ==
  /\ Owned(Now) /\ SyncsOwned(Now) /\ TurnIsClear(Now) /\ WakesLatched(Now)
  /\ Conserved(Now, sent, discarded)
  /\ OpsQueued(Now, released) /\ SwitchReserved(Now, released) /\ Winding(Now, released, closing)
==============================================================================
