------------------------------ MODULE AgentLoop -------------------------------
(***************************************************************************)
(* The driver of one agent (packages/core/agent-loop/src/agent.ts) with    *)
(* its inbox (packages/core/agent/src/inbox.ts) and its tool calls: turns  *)
(* made of steps, input that may arrive at any time, cancellation,         *)
(* maintenance and disposal.  An action is what runs from one resumed      *)
(* await to the next.                                                      *)
(***************************************************************************)
EXTENDS ToolCalls, Functions

Lists == INSTANCE SequencesExt

CONSTANTS
  Messages, \* what callers and tools may send, each at most once
  MaxCancels, MaxMaintenance, MaxChanges \* bounds on what the world does

VARIABLES
  phase,   \* "idle", "maintenance" or "running"
  signal,  \* the activity's abort signal: "live", or the first cause it got
  latch,   \* the activity's wakeRequested
  at,      \* the await that the driver has reached
  stepped, \* whether the turn has opened a step
  ends,    \* the turnEnds of the turn under way
  queue,   \* the two lists of the inbox
  batch,   \* the tool calls of the step under way
  disposing, \* whether the agent's owner has begun to dispose of it
  open,    \* history: what the event log leaves open
  outcome, \* history: how the last turn ended
  sent,    \* history: the messages sent
  owed,    \* history: those whose wake was put off
  spent    \* how often each bounded thing has happened

activity == <<phase, signal, latch>>
turn == <<at, stepped, ends, batch>>
log == <<open, outcome>>
world == <<disposing, sent, spent>>
vars == <<activity, turn, queue, log, owed, world>>

Targets == {"turn", "step"}
Nothing == [target \in Targets |-> <<>>]
Pending == queue # Nothing
Aborted == signal # "live"
Queued == UNION {Range(queue[target]) : target \in Targets}

-----------------------------------------------------------------------------
(* The event log, as the session's validating companion reads it.          *)
Logged(before, event) ==
  CASE event = "turn/start" /\ before = "nothing" -> "turn"
    [] event = "step/start" /\ before = "turn" -> "step"
    [] event = "step/end" /\ before = "step" -> "turn"
    [] event = "turn/end" /\ before = "turn" -> "nothing"
    [] OTHER -> "broken"

-----------------------------------------------------------------------------
(* What the driver does between two awaits.                                *)

(* Claim the input of the next step and propose it.                        *)
PreStep(waiting, target) ==
  /\ at' = "preStep"
  /\ queue' = [waiting EXCEPT
                 !["step"] = <<>>,
                 !["turn"] = IF target = "turn" /\ @ # <<>> THEN Tail(@) ELSE @]

TurnBegins(waiting) ==
  /\ PreStep(waiting, "turn")
  /\ stepped' = FALSE /\ ends' = "none" /\ batch' = NoBatch
  /\ open' = Logged(open, "turn/start")
  /\ outcome' = "none"

NothingBegins ==
  /\ phase' = "idle" /\ at' = "off" /\ owed' = owed
  /\ UNCHANGED <<stepped, ends, batch, queue, log>>

(* The activity is over; a wake it put off starts the next driver.         *)
(* Slip: the wake is replayed only for queued prompts.                   *)
ConvergeForPrompts ==
  /\ latch' = FALSE /\ signal' = "live"
  /\ \/ /\ latch /\ queue["turn"] # <<>>
        /\ phase' = "running" /\ owed' = {} /\ TurnBegins(queue)
     \/ ~(latch /\ queue["turn"] # <<>>) /\ NothingBegins

Converge ==
  /\ latch' = FALSE /\ signal' = "live"
  /\ \/ /\ latch /\ Pending
        /\ phase' = "running" /\ owed' = {} /\ TurnBegins(queue)
     \/ ~(latch /\ Pending) /\ NothingBegins

TurnCloses(reason, before) ==
  /\ outcome' = reason /\ open' = Logged(before, "turn/end")
  /\ stepped' = FALSE /\ ends' = "none" /\ batch' = NoBatch
  /\ UNCHANGED <<phase, queue, owed>>

(* The turn ends without going on: rejected, aborted, failed or empty.     *)
TurnStops(reason, before) ==
  /\ TurnCloses(IF Aborted THEN "aborted" ELSE reason, before)
  /\ at' = "exit" /\ UNCHANGED <<signal, latch>>

(* The turn ends in order: the driver goes on while there is input.        *)
TurnCompletes ==
  /\ TurnCloses(ends, open)
  /\ \/ Pending /\ at' = "next" /\ signal' = "live" /\ latch' = FALSE
     \/ ~Pending /\ at' = "exit" /\ UNCHANGED <<signal, latch>>

(* A step has ended; max-tokens is sticky.                                 *)
StepEnds(result) ==
  LET sticky == IF ends = "maxTokens" THEN ends ELSE result
      after == Logged(open, "step/end")
      stops == sticky # "none" /\ queue["step"] = <<>>
  IN \/ Aborted /\ TurnStops("aborted", after)
     \/ /\ ~Aborted
        /\ ends' = sticky /\ open' = after /\ batch' = NoBatch
        /\ \/ stops /\ at' = "stopping" /\ queue' = queue
           \/ ~stops /\ PreStep(queue, "step")
        /\ UNCHANGED <<activity, stepped, outcome, owed>>

(* The step throws: it is closed, and so is the turn.                      *)
(* Slip: only the turn is.                                               *)
StepFailsOpen(reason) == TurnStops(reason, open)

StepFails(reason) == TurnStops(reason, Logged(open, "step/end"))

-----------------------------------------------------------------------------
Init ==
  /\ phase = "idle" /\ signal = "live" /\ latch = FALSE
  /\ at = "off" /\ stepped = FALSE /\ ends = "none" /\ batch = NoBatch
  /\ queue = Nothing
  /\ open = "nothing" /\ outcome = "none"
  /\ disposing = FALSE /\ sent = {} /\ owed = {}
  /\ spent = [kind \in {"cancel", "maintenance", "change"} |-> 0]

Spend(kind, limit) ==
  spent[kind] < limit /\ spent' = [spent EXCEPT ![kind] = @ + 1]

-----------------------------------------------------------------------------
(* Callers.                                                                *)

(* followup, steer and inject are sends.  A wake sent while idle opens a   *)
(* turn at once; one that maintenance or an aborted driver cannot deliver  *)
(* is latched; a live driver claims its queue itself.                      *)
Late(wakeup) == wakeup /\ phase # "idle" /\ Aborted

(* Slip: disposal latches like any other cause.                          *)
LatchesAnyway(wakeup) == wakeup /\ (phase = "maintenance" \/ Late(wakeup))

Latches(wakeup) ==
  wakeup /\ signal # "disposed" /\ (phase = "maintenance" \/ Late(wakeup))

Send(m, target, wakeup) ==
  LET waiting == [queue EXCEPT ![IF Late(wakeup) THEN "turn" ELSE target] = Append(@, m)]
  IN /\ m \notin sent /\ sent' = sent \cup {m}
     /\ ~(disposing /\ phase = "idle")
     /\ \/ /\ wakeup /\ phase = "idle"
           /\ phase' = "running" /\ signal' = "live" /\ latch' = FALSE
           /\ TurnBegins(waiting) /\ owed' = owed
        \/ /\ ~(wakeup /\ phase = "idle")
           /\ queue' = waiting
           /\ latch' = (latch \/ Latches(wakeup))
           /\ owed' = IF Latches(wakeup) THEN owed \cup {m} ELSE owed
           /\ UNCHANGED <<phase, signal, turn, log>>
     /\ UNCHANGED <<disposing, spent>>

(* A caller takes a message back.                                          *)
Remove(m) ==
  /\ Spend("change", MaxChanges)
  /\ \E target \in Targets : \E i \in DOMAIN queue[target] :
       /\ queue[target][i] = m
       /\ queue' = [queue EXCEPT ![target] = Lists!RemoveAt(@, i)]
  /\ UNCHANGED <<activity, turn, log, owed, disposing, sent>>

CancelWith(cause, keepInbox) ==
  /\ signal' = IF phase # "idle" /\ ~Aborted THEN cause ELSE signal
  /\ latch' = (latch /\ keepInbox)
  /\ queue' = IF keepInbox THEN queue ELSE Nothing
  /\ owed' = IF keepInbox THEN owed ELSE {}

(* A caller cancels; or the owner does, and then waits until the agent is  *)
(* idle.                                                                   *)
Cancels ==
  \/ /\ Spend("cancel", MaxCancels) /\ UNCHANGED disposing
     /\ \E keepInbox \in BOOLEAN : CancelWith("user", keepInbox)
  \/ /\ ~disposing /\ disposing' = TRUE /\ UNCHANGED spent
     /\ CancelWith("disposed", FALSE)

Cancel == Cancels /\ UNCHANGED <<phase, turn, log, sent>>

RunMaintenance ==
  /\ phase = "idle" /\ ~disposing
  /\ phase' = "maintenance" /\ signal' = "live" /\ latch' = FALSE
  /\ Spend("maintenance", MaxMaintenance)
  /\ UNCHANGED <<turn, queue, log, owed, disposing, sent>>

(* The registry's answer about a call may change before the call starts.   *)
Reclassify(i) ==
  /\ i \in InState(batch, {"waiting"}) /\ Spend("change", MaxChanges)
  /\ \E mode \in Modes \ {batch.mode[i]} : batch' = [batch EXCEPT !.mode[i] = mode]
  /\ UNCHANGED <<activity, at, stepped, ends, queue, log, owed, disposing, sent>>

-----------------------------------------------------------------------------
(* The driver.                                                             *)

MaintenanceEnds == phase = "maintenance" /\ Converge /\ UNCHANGED world

(* Prompt assembly and the pre-step hooks answer: they reject, fail, or    *)
(* enter with what was claimed, with more, or with nothing.                *)
PreStepAnswers ==
  /\ at = "preStep" /\ UNCHANGED world
  /\ \/ Aborted /\ TurnStops("aborted", open)
     \/ ~Aborted /\ \E reason \in {"blocked", "error"} : TurnStops(reason, open)
     \/ ~Aborted /\ ends # "none" /\ TurnCompletes
     \/ ~Aborted /\ ends = "none" /\ ~stepped /\ TurnStops("completed", open)
     \/ /\ ~Aborted
        /\ open' = Logged(open, "step/start") /\ at' = "model" /\ stepped' = TRUE
        /\ UNCHANGED <<activity, ends, batch, queue, outcome, owed>>

(* The model answers; a failed request may be retried, which is no step.   *)
ModelStops ==
  /\ at = "model" /\ UNCHANGED world
  /\ \/ StepFails("error")
     \/ ~Aborted /\ \E result \in {"completed", "maxTokens"} : StepEnds(result)

(* Whoever observes its message may cancel before the first call starts.    *)
ModelCalls ==
  /\ at = "model" /\ ~Aborted
  /\ Cancels \/ UNCHANGED <<signal, latch, queue, owed, disposing, spent>>
  /\ \E n \in 1..MaxCalls : \E mode \in [1..n -> Modes] :
       batch' = Start(mode, Aborted')
  /\ at' = "tools"
  /\ UNCHANGED <<phase, stepped, ends, open, outcome, sent>>

ToolStep == at = "tools" /\ UNCHANGED <<activity, at, stepped, ends, log, owed, disposing, spent>>

ToolPrepared ==
  /\ ToolStep /\ batch.at = "prepare" /\ UNCHANGED <<queue, sent>>
  /\ \E answer \in {"dispatch", "result", "fails"} :
       batch' = Prepared(batch, answer, Aborted)

ToolSettles ==
  /\ ToolStep /\ UNCHANGED <<queue, sent>>
  /\ \E i \in InState(batch, {"running"}), fails \in BOOLEAN :
       batch' = IF batch.at = "drain" THEN Drain(Settled(batch, i, fails))
                ELSE Settled(batch, i, fails)

ToolRaced ==
  /\ ToolStep /\ batch.at = "race" /\ UNCHANGED <<queue, sent>>
  /\ \E i \in batch.inFlight \ InState(batch, {"running"}) :
       batch' = Raced(batch, i, Aborted)

(* A result is recorded; it may bring a message for the next step, and may *)
(* conclude the turn.                                                      *)
ToolCommitted ==
  /\ ToolStep /\ batch.at = "commit"
  /\ \/ batch' = Committed(batch, TRUE, FALSE, Aborted) /\ UNCHANGED <<queue, sent>>
     \/ \E concludes \in BOOLEAN :
          /\ batch' = Committed(batch, FALSE, concludes, Aborted)
          /\ \/ UNCHANGED <<queue, sent>>
             \/ \E m \in Messages \ sent :
                  /\ sent' = sent \cup {m}
                  /\ queue' = [queue EXCEPT !["step"] = Append(@, m)]

ToolsOver ==
  /\ at = "tools" /\ UNCHANGED world
  /\ \/ batch.at = "over" /\ StepEnds(IF batch.concluded THEN "completed" ELSE "none")
     \/ batch.at = "failed" /\ StepFails("error")

(* The hooks of the turn's end answer; one may have sent more input.       *)
StoppingAnswers ==
  /\ at = "stopping" /\ UNCHANGED world
  /\ \/ Aborted /\ TurnStops("aborted", open)
     \/ ~Aborted /\ TurnStops("error", open)
     \/ ~Aborted /\ queue["step"] = <<>> /\ TurnCompletes
     \/ /\ ~Aborted /\ queue["step"] # <<>> /\ PreStep(queue, "step")
        /\ UNCHANGED <<activity, stepped, ends, batch, log, owed>>

NextTurn ==
  /\ at = "next" /\ UNCHANGED <<activity, owed, world>>
  /\ \/ Aborted /\ at' = "exit" /\ UNCHANGED <<stepped, ends, batch, queue, log>>
     \/ ~Aborted /\ TurnBegins(queue)

Exit == at = "exit" /\ Converge /\ UNCHANGED world

-----------------------------------------------------------------------------
Callers ==
  \/ \E m \in Messages, target \in Targets, wakeup \in BOOLEAN : Send(m, target, wakeup)
  \/ \E m \in Messages : Remove(m)
  \/ Cancel
  \/ RunMaintenance
  \/ \E i \in 1..MaxCalls : Reclassify(i)

Driver ==
  \/ MaintenanceEnds \/ PreStepAnswers \/ ModelStops \/ ModelCalls
  \/ ToolPrepared \/ ToolSettles \/ ToolRaced \/ ToolCommitted \/ ToolsOver
  \/ StoppingAnswers \/ NextTurn \/ Exit

Next == Callers \/ Driver
Spec == Init /\ [][Next]_vars

(* What the driver awaits answers in the end.                              *)
FairSpec == Spec /\ WF_vars(Driver)

-----------------------------------------------------------------------------
(* Types.                                                                  *)
TypeOK ==
  /\ phase \in {"idle", "maintenance", "running"}
  /\ signal \in {"live", "user", "disposed"}
  /\ latch \in BOOLEAN /\ stepped \in BOOLEAN
  /\ at \in {"off", "preStep", "model", "tools", "stopping", "next", "exit"}
  /\ ends \in {"none", "completed", "maxTokens"}
  /\ queue \in [Targets -> Seq(Messages)]
  /\ IsBatch(batch)
  /\ disposing \in BOOLEAN
  /\ open \in {"nothing", "turn", "step", "broken"}
  /\ outcome \in {"none", "completed", "maxTokens", "blocked", "aborted", "error"}
  /\ sent \subseteq Messages /\ owed \subseteq Messages
  /\ spent \in [{"cancel", "maintenance", "change"} -> Nat]

-----------------------------------------------------------------------------
(* Whatever fails, is cancelled or arrives, the log is one the validating  *)
(* companion accepts: turns and steps are opened and closed in turn, and   *)
(* an idle agent leaves neither open (the finally blocks of turn).         *)
TurnsAreLegal ==
  /\ open # "broken"
  /\ at \in {"off", "next", "exit"} => open = "nothing"

(* Input whose wake maintenance or an aborted driver could not deliver is  *)
(* not left in the inbox of an idle agent: its latch is replayed when the  *)
(* activity converges, unless the input was taken back or cancelled.       *)
WakesArrive == phase = "idle" => owed \cap Queued = {}

(* The scheduler's promises hold inside the loop, whatever is cancelled,   *)
(* reclassified or failing meanwhile: results are recorded in the order of *)
(* the message, exclusive calls run alone, no more calls run than the pool *)
(* has places, and when the step goes on none is still running and, unless *)
(* the scheduler failed, each has its result.                              *)
ToolsScheduled ==
  CallsInOrder(batch) /\ CallsAnswered(batch) /\ NothingLeftRunning(batch)

(* No tool call is opened once the signal of its turn has aborted, also    *)
(* when whoever observed their message aborted it; one whose preparation   *)
(* the abort finds under way is still dispatched, with that signal.        *)
NoStartAfterAbort ==
  [][\A i \in DOMAIN batch'.call :
       /\ batch'.call[i] = "preparing"
       /\ i \in DOMAIN batch.call => batch.call[i] = "waiting"
       => ~Aborted /\ ~Aborted']_vars

(* An activity that disposal has cancelled is the agent's last: it latches *)
(* nothing, and no turn opens behind it (wakeDriver, agent.ts:174-180).    *)
DisposalStartsNothing ==
  [][signal = "disposed" => signal' = "disposed" \/ phase' = "idle"]_vars

(* The inductive invariant behind these: what the log leaves open is where *)
(* the driver is, a latch is only ever set behind an abort or maintenance, *)
(* and what it is owed to is still queued.                                 *)
OpenAt(await) ==
  CASE await \in {"off", "next", "exit"} -> "nothing"
    [] await \in {"preStep", "stopping"} -> "turn"
    [] OTHER -> "step"

WakeInv ==
  /\ phase = "idle" => signal = "live" /\ ~latch
  /\ phase = "running" /\ ~Aborted => ~latch
  /\ signal = "disposed" => ~latch
  /\ owed \cap Queued # {} => latch
  /\ owed \cup Queued \subseteq sent

AgentInv ==
  /\ TypeOK /\ WakeInv /\ BatchInv(batch)
  /\ phase = "running" <=> at # "off"
  /\ at # "tools" => batch = NoBatch
  /\ open = OpenAt(at)

(* Whatever is cancelled ends: an aborted activity becomes idle, or makes  *)
(* way for a fresh one.                                                    *)
Converges == Aborted ~> ~Aborted
=============================================================================
