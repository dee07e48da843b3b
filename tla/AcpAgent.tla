------------------------------- MODULE AcpAgent --------------------------------
(***************************************************************************)
(* One published ACP conversation: turns, the FIFO of model operations,    *)
(* permission switches and disposal contend for the agent's phase, and     *)
(* whichever owns it may have to replace the provider's process.  All of   *)
(* it runs on one event loop: an action is what runs between two awaits,   *)
(* the promise continuations it releases included.                         *)
(***************************************************************************)
EXTENDS Naturals, Sequences

CONSTANTS
  Messages,  \* the user's inputs
  Modes,     \* sandbox modes: the greater the rank, the wider
  MaxEvents  \* bound on operations, switches, cancellations, mode changes and losses

ASSUME AgentAssumption == Modes \subseteq Nat /\ Modes # {} /\ MaxEvents \in Nat

VARIABLES
  phase,      \* who owns the agent; is its signal aborted; is a wake latched
  at,         \* where each flow awaits
  held,       \* permissionTransition: none, reserved, reserved with a wake deferred
  ops,        \* model operations pending, and whether a wake is deferred to their end
  inbox,      \* input for the next turn and for the next step
  transcript, \* how often the Session's log holds each message
  sandbox,    \* the Session's current mode
  runtime,    \* this.runtime, its generation, and runtimeNeedsRestart
  goal,       \* the mode a replacement or a switch aims for
  syncs,      \* modeSync: the mode requests chained on this generation
  waiting,    \* flows that await whenIdle
  released,   \* flows that whenIdle has let go and that run next
  steering,   \* messages forwarded to the active prompt, unanswered
  closing,    \* how far disposal is
  sent, discarded, \* messages sent, and cancelled with the inbox
  kept,       \* messages pending when a keepInbox cancel met them, by who cancelled
  used        \* events so far

control == <<phase, at, held, ops, inbox, transcript, sandbox, runtime, goal, syncs, waiting>>
input == <<steering, sent, discarded, kept>>
vars == <<control, released, input, closing, used>>

Flows == {"turn", "op", "switch"}
Idle == [by |-> "idle", aborted |-> FALSE, wake |-> FALSE]
Starting == {"start", "load", "mode"}
Owning == {"close", "sync"} \cup Starting
Ended == closing \notin {"open", "session"}

Init ==
  /\ phase = Idle /\ at = [f \in Flows |-> "none"]
  /\ held = "no" /\ ops = [pending |-> 0, wake |-> FALSE]
  /\ inbox = [turn |-> <<>>, step |-> {}] /\ transcript = [m \in Messages |-> 0]
  /\ sandbox \in Modes /\ goal = sandbox
  /\ runtime = [life |-> "up", mode |-> sandbox, retired |-> FALSE, restart |-> FALSE]
  /\ syncs = <<>> /\ waiting = <<>> /\ released = <<>> /\ steering = {}
  /\ closing = "open" /\ sent = {} /\ discarded = {}
  /\ kept = [caller |-> {}, switch |-> {}] /\ used = 0

(***************************************************************************)
(* The synchronous calls, as functions of the control state c.             *)
(***************************************************************************)
Now ==
  [phase |-> phase, at |-> at, held |-> held, ops |-> ops, inbox |-> inbox,
   transcript |-> transcript, sandbox |-> sandbox, runtime |-> runtime,
   goal |-> goal, syncs |-> syncs, waiting |-> waiting]

Become(c) ==
  /\ phase' = c.phase /\ at' = c.at /\ held' = c.held /\ ops' = c.ops
  /\ inbox' = c.inbox /\ transcript' = c.transcript /\ sandbox' = c.sandbox
  /\ runtime' = c.runtime /\ goal' = c.goal /\ syncs' = c.syncs /\ waiting' = c.waiting

Pending(c) == {c.inbox.turn[i] : i \in 1..Len(c.inbox.turn)} \cup c.inbox.step
Connected(c) == c.runtime.life \in {"linked", "up"}
NeedsRestart(c) == c.runtime.restart \/ ~Connected(c)

Queued(c, f, mode) == [c EXCEPT !.syncs = Append(@, [by |-> f, mode |-> mode])]
Synced(c, f, mode) == Queued([c EXCEPT !.at[f] = "sync", !.goal = mode], f, mode)

(* runtimeForSandboxMode, up to its first await. *)
Enter(c, f, mode) ==
  IF NeedsRestart(c) THEN [c EXCEPT !.at[f] = "close", !.goal = mode] ELSE Synced(c, f, mode)

(* One turn claims all the step input and the head of the queue. *)
TurnBegun(c) ==
  LET batch == c.inbox.step \cup {c.inbox.turn[i] : i \in 1..Len(c.inbox.turn) \cap {1}}
      claimed == [c EXCEPT
        !.inbox = [turn |-> IF @.turn = <<>> THEN <<>> ELSE Tail(@.turn), step |-> {}],
        !.transcript = [m \in Messages |-> @[m] + (IF m \in batch THEN 1 ELSE 0)]]
  IN  Enter(claimed, "turn", c.sandbox)

WokenDuringSwitch(c) ==
  IF closing # "open" THEN c
  ELSE IF c.ops.pending > 0 THEN [c EXCEPT !.ops.wake = TRUE]
  ELSE IF c.phase.by # "idle" THEN [c EXCEPT !.phase.wake = TRUE]
  ELSE TurnBegun([c EXCEPT !.phase = [Idle EXCEPT !.by = "turn"]])

Woken(c) ==
  IF closing # "open" THEN c
  ELSE IF c.held # "no" THEN [c EXCEPT !.held = "wake"]
  ELSE IF c.ops.pending > 0 THEN [c EXCEPT !.ops.wake = TRUE]
  ELSE IF c.phase.by # "idle" THEN [c EXCEPT !.phase.wake = TRUE]
  ELSE TurnBegun([c EXCEPT !.phase = [Idle EXCEPT !.by = "turn"]])

WokenIf(c, requested) == IF requested /\ Pending(c) # {} THEN Woken(c) ELSE c

(* The owner f of the phase gives it back. *)
PhaseOver(c, f) ==
  WokenIf([c EXCEPT !.phase = Idle, !.at[f] = "none"], c.phase.wake)

TurnOver(c) ==
  IF Pending(c) = {} \/ c.phase.aborted THEN PhaseOver(c, "turn")
  ELSE IF c.ops.pending > 0 THEN PhaseOver([c EXCEPT !.ops.wake = TRUE], "turn")
  ELSE TurnBegun(c)

WaitsIdle(c, f) == [c EXCEPT !.waiting = Append(@, f)]

(* The head of modelOperationTail runs on the connected runtime or waits.  *)
OpHead(c) ==
  IF NeedsRestart(c) THEN WaitsIdle([c EXCEPT !.at.op = "wait"], "op")
  ELSE [c EXCEPT !.at.op = "run"]

FinishForgetsWake(c) ==
  LET over == [c EXCEPT !.at.op = "none", !.ops.pending = @ - 1]
  IN  IF over.ops.pending > 0 THEN OpHead(over) ELSE [over EXCEPT !.ops.wake = FALSE]

FinishModelOperation(c) ==
  LET over == [c EXCEPT !.at.op = "none", !.ops.pending = @ - 1]
  IN  IF over.ops.pending > 0 THEN OpHead(over)
      ELSE WokenIf([over EXCEPT !.ops.wake = FALSE], c.ops.wake)

OpOver(c) ==
  FinishModelOperation(IF c.phase.by = "op" THEN PhaseOver(c, "op") ELSE c)

SwitchEnded(c) == WokenIf([c EXCEPT !.held = "no", !.at.switch = "none"], c.held = "wake")

Retired(c) == [c EXCEPT !.runtime.retired = TRUE, !.runtime.restart = TRUE]

Cancelled(c) ==
  IF c.phase.by = "idle" THEN c ELSE [Retired(c) EXCEPT !.phase.aborted = TRUE]

(* What f awaited has failed. *)
Failed(c, f) ==
  CASE f = "turn" -> TurnOver(c)
    [] f = "op" -> OpOver(c)
    [] f = "switch" -> SwitchEnded(PhaseOver(Retired(c), "switch"))
    [] OTHER -> IF c.runtime.life = "none" \/ c.runtime.retired \/ Ended THEN c ELSE Retired(c)

(***************************************************************************)
(* Promise continuations run before the next event.                        *)
(***************************************************************************)
IdleReached == waiting # <<>> /\ phase.by = "idle" /\ steering = {}
Quiet == released = <<>> /\ ~IdleReached

Release ==
  /\ released = <<>> /\ IdleReached
  /\ released' = waiting /\ waiting' = <<>>
  /\ UNCHANGED <<phase, at, held, ops, inbox, transcript, sandbox, runtime, goal, syncs,
                 input, closing, used>>

Resumed(f) ==
  /\ released # <<>> /\ Head(released) = f
  /\ released' = Tail(released)

Maintained(c, f, mode) ==
  Enter([c EXCEPT !.phase = [Idle EXCEPT !.by = f]], f, mode)

ResumeOp ==
  /\ Resumed("op")
  /\ Become(IF ~NeedsRestart(Now) THEN [Now EXCEPT !.at.op = "run"]
            ELSE IF phase.by = "idle" THEN Maintained(Now, "op", sandbox)
            ELSE FinishModelOperation(Now))
  /\ UNCHANGED <<input, closing, used>>

ResumeSwitchUnchecked ==
  /\ Resumed("switch")
  /\ Become(Maintained(Now, "switch", goal))
  /\ UNCHANGED <<input, closing, used>>

(* The caller's signal may have been aborted meanwhile. *)
ResumeSwitch ==
  /\ Resumed("switch")
  /\ \/ phase.by = "idle" /\ Become(Maintained(Now, "switch", goal))
     \/ Become(SwitchEnded(Now))
  /\ UNCHANGED <<input, closing, used>>

ResumeClose ==
  /\ Resumed("close")
  /\ closing' = IF closing = "idle" THEN "ops" ELSE "process"
  /\ runtime' = IF closing = "idle" THEN runtime ELSE [runtime EXCEPT !.retired = TRUE]
  /\ UNCHANGED <<phase, at, held, ops, inbox, transcript, sandbox, goal, syncs, waiting,
                 input, used>>

(***************************************************************************)
(* Callers.                                                                *)
(***************************************************************************)
(* The listeners are unwound when the agent's scope is disposed.           *)
Event ==
  /\ Quiet /\ closing # "closed" /\ UNCHANGED released
  /\ used < MaxEvents /\ used' = used + 1

Inserted(m, target) ==
  IF target = "turn" THEN [Now EXCEPT !.inbox.turn = Append(@, m)]
  ELSE [Now EXCEPT !.inbox.step = @ \cup {m}]

Send(m, target) ==
  /\ Quiet /\ m \notin sent /\ sent' = sent \cup {m}
  /\ Become(Woken(Inserted(m, target)))

Followup(m) ==
  /\ Send(m, "turn")
  /\ UNCHANGED <<released, steering, discarded, kept, closing, used>>

(* A steer that meets an active prompt is forwarded to the provider too. *)
Steer(m) ==
  /\ Send(m, "step")
  /\ steering' = IF at.turn = "prompt" THEN steering \cup {m} ELSE steering
  /\ UNCHANGED <<released, discarded, kept, closing, used>>

(* What was forwarded was queued for the next step.                        *)
Injected(m) ==
  [Now EXCEPT !.inbox.step = @ \ {m}, !.transcript[m] = @ + 1]

SteerAnsweredTwice(m) ==
  /\ Quiet /\ m \in steering /\ steering' = steering \ {m}
  /\ Become(Injected(m))
  /\ UNCHANGED <<released, sent, discarded, kept, closing, used>>

(* A turn may have claimed meanwhile what the provider injected.           *)
SteerAnswered(m) ==
  /\ Quiet /\ m \in steering /\ steering' = steering \ {m}
  /\ \/ UNCHANGED control
     \/ m \in inbox.step /\ Become(Injected(m))
  /\ UNCHANGED <<released, sent, discarded, kept, closing, used>>

Cancel(keep) ==
  /\ Event
  /\ IF keep
     THEN /\ Become(Cancelled(Now)) /\ discarded' = discarded
          /\ kept' = IF phase.by = "idle" THEN kept ELSE [kept EXCEPT !.caller = @ \cup Pending(Now)]
     ELSE /\ Become(Cancelled([Now EXCEPT !.inbox = [turn |-> <<>>, step |-> {}]]))
          /\ discarded' = discarded \cup Pending(Now) /\ kept' = kept
  /\ UNCHANGED <<steering, sent, closing>>

(* A sandbox/mode event that no switch wrote. *)
SetSandbox(mode) ==
  /\ Event /\ mode # sandbox
  /\ LET next == [Now EXCEPT !.sandbox = mode]
     IN  IF phase.by = "turn" /\ mode < sandbox
         THEN /\ Become(Cancelled(next))
              /\ kept' = [kept EXCEPT !.caller = @ \cup Pending(Now)]
         ELSE Become(Queued(next, "watch", mode)) /\ kept' = kept
  /\ UNCHANGED <<steering, sent, discarded, closing>>

ModelOperation ==
  /\ Event /\ closing = "open"
  /\ LET next == [Now EXCEPT !.ops.pending = @ + 1]
     IN  Become(IF ops.pending = 0 THEN OpHead(next) ELSE next)
  /\ UNCHANGED <<input, closing>>

(* A switch during a maintenance, or during another switch, fails at once. *)
TransitionSandboxMode(target) ==
  /\ Event /\ held = "no" /\ phase.by \in {"idle", "turn"}
  /\ LET next == [Now EXCEPT !.held = "quiet", !.goal = target]
     IN  IF phase.by = "idle"
         THEN Become(Maintained(next, "switch", target)) /\ kept' = kept
         ELSE /\ Become(WaitsIdle([Cancelled(next) EXCEPT !.at.switch = "wait"], "switch"))
              /\ kept' = [kept EXCEPT !.switch = @ \cup Pending(Now)]
  /\ UNCHANGED <<steering, sent, discarded, closing>>

(***************************************************************************)
(* The provider.                                                           *)
(***************************************************************************)
Answer == Quiet /\ UNCHANGED <<released, input, closing, used>>

ReplaceAfterEnd(f) ==
  /\ Answer /\ at[f] = "close" /\ at.op # "run"
  /\ Become(
       IF phase.aborted
       THEN Failed([Now EXCEPT !.runtime.life = IF @ = "none" THEN "none" ELSE "closed"], f)
       ELSE [Now EXCEPT !.at[f] = "start", !.syncs = <<>>,
               !.runtime = [@ EXCEPT !.life = "spawned", !.retired = FALSE]])

(* A process's end rejects what it was asked: an operation that runs on it *)
(* settles before the process is gone.                                     *)
ReplaceRuntime(f) ==
  /\ Answer /\ at[f] = "close" /\ at.op # "run"
  /\ Become(
       IF phase.aborted
       THEN Failed([Now EXCEPT !.runtime.life = IF @ = "none" THEN "none" ELSE "closed"], f)
       ELSE IF Ended
       THEN Failed([Now EXCEPT !.runtime.life = "none", !.runtime.retired = TRUE, !.syncs = <<>>], f)
       ELSE [Now EXCEPT !.at[f] = "start", !.syncs = <<>>,
               !.runtime = [@ EXCEPT !.life = "spawned", !.retired = FALSE]])

Initialized(f) ==
  /\ Answer /\ at[f] = "start" /\ runtime.life = "spawned"
  /\ Become([Now EXCEPT !.at[f] = "load", !.runtime.life = "linked"])

Loaded(f) ==
  /\ Answer /\ at[f] = "load" /\ runtime.life = "linked"
  /\ \E mode \in Modes :
       Become([Now EXCEPT !.at[f] = "mode", !.runtime.life = "up", !.runtime.mode = mode])

Started(f) ==
  /\ Answer /\ at[f] = "mode" /\ ~phase.aborted /\ ~Ended
  /\ runtime.life = "up" \/ runtime.mode = goal
  /\ Become(Synced([Now EXCEPT !.runtime.mode = goal, !.runtime.restart = FALSE],
                   f, IF f = "switch" THEN goal ELSE sandbox))

StartFails(f) ==
  /\ Answer /\ at[f] \in Starting /\ at.op # "run"
  /\ Become(Failed([Now EXCEPT !.runtime.life = "none", !.runtime.retired = TRUE], f))

(* The watcher of a sync with the owner f and the phase's signal, if f has it. *)
SyncAborted(f) == runtime.retired \/ Ended \/ (f # "watch" /\ phase.aborted)

(* The switch's next: the preset, with its sandbox/mode event, is durable. *)
Committed(c) ==
  SwitchEnded(PhaseOver(Queued([c EXCEPT !.sandbox = c.goal], "watch", c.goal), "switch"))

SyncOk(c, f) ==
  CASE f = "turn" -> [c EXCEPT !.at.turn = "build"]
    [] f = "op" -> [c EXCEPT !.at.op = "run"]
    [] f = "switch" -> Committed(c)
    [] OTHER -> c

SyncAnswered ==
  /\ Answer /\ syncs # <<>>
  /\ LET s == Head(syncs)
         next == [Now EXCEPT !.syncs = Tail(@)]
         same == runtime.life \in {"up", "lost"} /\ runtime.mode = s.mode
     IN  \/ /\ ~SyncAborted(s.by) /\ (same \/ runtime.life = "up")
            /\ Become(SyncOk([next EXCEPT !.runtime.mode = s.mode], s.by))
         \/ /\ SyncAborted(s.by) \/ ~same
            /\ Become(Failed(next, s.by))

ProviderModeUnwatched(mode) ==
  /\ Event /\ runtime.life = "up" /\ mode # runtime.mode
  /\ Become([Now EXCEPT !.runtime.mode = mode])
  /\ UNCHANGED <<input, closing>>

ProviderMode(mode) ==
  /\ Event /\ runtime.life = "up" /\ mode # runtime.mode
  /\ Become(Queued([Now EXCEPT !.runtime.mode = mode], "watch", sandbox))
  /\ UNCHANGED <<input, closing>>

ConnectionLost ==
  /\ Event /\ runtime.life \in {"spawned", "linked", "up"}
  /\ Become([Now EXCEPT !.runtime.life = "lost"])
  /\ UNCHANGED <<input, closing>>

PromptSent ==
  /\ Answer /\ at.turn = "build"
  /\ Become(IF phase.aborted \/ runtime.life # "up" THEN TurnOver(Now)
            ELSE [Now EXCEPT !.at.turn = "prompt"])

PromptAnswered ==
  /\ Answer /\ at.turn = "prompt"
  /\ Become(TurnOver(Now))

OperationAnsweredUncounted ==
  /\ Answer /\ at.op = "run"
  /\ \/ Become(OpOver(Now))
     \/ Become([(IF phase.by = "op" THEN PhaseOver(Now, "op") ELSE Now) EXCEPT
                !.at.op = "none", !.runtime.restart = TRUE])

(* An operation that fails half-way marks the runtime. *)
OperationAnswered ==
  /\ Answer /\ at.op = "run"
  /\ \/ Become(OpOver(Now))
     \/ Become(OpOver([Now EXCEPT !.runtime.restart = TRUE]))

(***************************************************************************)
(* Disposal.                                                               *)
(***************************************************************************)
Disposed(c) == Cancelled([c EXCEPT !.inbox = [turn |-> <<>>, step |-> {}]])

CloseProviderSession ==
  /\ Quiet /\ closing = "open" /\ closing' = "session"
  /\ Become(Disposed(Now)) /\ discarded' = discarded \cup Pending(Now)
  /\ UNCHANGED <<released, steering, sent, kept, used>>

Close ==
  /\ Quiet /\ closing = "session" /\ closing' = "idle"
  /\ Become(WaitsIdle(Disposed(Now), "close")) /\ discarded' = discarded \cup Pending(Now)
  /\ UNCHANGED <<released, steering, sent, kept, used>>

OperationsDrained ==
  /\ Quiet /\ closing = "ops" /\ ops.pending = 0 /\ closing' = "idle again"
  /\ Become(WaitsIdle(Now, "close"))
  /\ UNCHANGED <<released, input, used>>

ProcessClosed ==
  /\ Quiet /\ closing = "process" /\ syncs = <<>> /\ closing' = "closed"
  /\ Become([Now EXCEPT !.runtime.life = IF @ = "none" THEN "none" ELSE "closed"])
  /\ UNCHANGED <<released, input, used>>

Call ==
  \/ \E m \in Messages : Followup(m) \/ Steer(m)
  \/ \E keep \in BOOLEAN : Cancel(keep)
  \/ \E mode \in Modes : SetSandbox(mode) \/ TransitionSandboxMode(mode) \/ ProviderMode(mode)
  \/ ModelOperation \/ ConnectionLost \/ CloseProviderSession

Proceed ==
  \/ Release \/ ResumeOp \/ ResumeSwitch \/ ResumeClose
  \/ \E m \in Messages : SteerAnswered(m)
  \/ \E f \in Flows : ReplaceRuntime(f) \/ Initialized(f) \/ Loaded(f) \/ Started(f) \/ StartFails(f)
  \/ SyncAnswered \/ PromptSent \/ PromptAnswered \/ OperationAnswered
  \/ Close \/ OperationsDrained \/ ProcessClosed

Next == Call \/ Proceed

Spec == Init /\ [][Next]_vars

(***************************************************************************)
(* Properties.                                                             *)
(***************************************************************************)
Callers == Flows \cup {"close"}
Phases == [by : Flows \cup {"idle"}, aborted : BOOLEAN, wake : BOOLEAN]
Places == Owning \cup {"none", "wait", "build", "prompt", "run"}
Counts == [pending : Nat, wake : BOOLEAN]
Inboxes == [turn : Seq(Messages), step : SUBSET Messages]
Runtimes ==
  [life : {"none", "spawned", "linked", "up", "lost", "closed"}, mode : Modes,
   retired : BOOLEAN, restart : BOOLEAN]
Requests == [by : Flows \cup {"watch"}, mode : Modes]
Control ==
  [phase : Phases, at : [Flows -> Places], held : {"no", "quiet", "wake"}, ops : Counts,
   inbox : Inboxes, transcript : [Messages -> Nat], sandbox : Modes, runtime : Runtimes,
   goal : Modes, syncs : Seq(Requests), waiting : Seq(Callers)]

TypeOK ==
  /\ Now \in Control /\ released \in Seq(Callers)
  /\ closing \in {"open", "session", "idle", "ops", "idle again", "process", "closed"}
  /\ steering \subseteq Messages /\ sent \subseteq Messages /\ discarded \subseteq Messages
  /\ kept \in [caller : SUBSET Messages, switch : SUBSET Messages] /\ used \in 0..MaxEvents

(* At most one flow replaces the runtime or awaits a mode request: the one *)
(* that owns the phase, with all three of them free to be interrupted.     *)
OneOwner ==
  \A f \in Flows : at[f] \in Owning => phase.by = f

(* No input is lost or recorded twice between the inbox, a turn's claim, a *)
(* steering answer that comes late and the cancellations that clear it.    *)
InputConserved ==
  \A m \in sent :
    transcript[m] = IF m \in Pending(Now) \cup discarded THEN 0 ELSE 1

(* A prompt runs under a wider provider mode than the Session's sandbox    *)
(* only while it is cancelled, its generation is retired or a request that *)
(* narrows the mode is on its way.                                         *)
PromptConfined ==
  at.turn = "prompt" /\ runtime.mode > sandbox =>
    \/ phase.aborted \/ runtime.retired
    \/ \E i \in 1..Len(syncs) : syncs[i].mode <= sandbox

(* When nothing is left to run, every message that asked for a turn has    *)
(* had one, except those a cancellation with keepInbox parked: a wake      *)
(* deferred to operations, a switch or a cancelled turn is not forgotten.  *)
Resting == closing = "open" /\ phase.by = "idle" /\ held = "no" /\ ops.pending = 0
DeferredWakesArrive ==
  Resting => Pending(Now) \subseteq kept.caller \cup kept.switch

(* Disposal ends with no process, no turn and no operation, whatever was   *)
(* being replaced when it began.                                           *)
ClosedIsQuiet ==
  closing = "closed" =>
    /\ runtime.life \in {"none", "closed"}
    /\ phase.by \notin {"turn", "op"} /\ ops.pending = 0

(* No turn claims input while a switch is reserved, operations are pending *)
(* or the agent is being disposed: the deferral outlives every idle        *)
(* instant between the cancelled turn and the maintenance.                 *)
TurnsClaimClear ==
  [][transcript' # transcript /\ steering' = steering =>
       held' = "no" /\ ops'.pending = 0 /\ closing' = "open"]_vars

(* Again and again no operation is pending, no switch is reserved and a    *)
(* disposal that began is over: no flow waits forever for another's phase, *)
(* if what the flows await - the provider's answers, the ends of its       *)
(* processes, the promise queue - comes at all.                            *)
EverythingSettles ==
  []<>(ops.pending = 0 /\ held = "no" /\ closing \in {"open", "closed"})

FairSpec == Spec /\ WF_vars(Proceed)

(* agent.ts: "A failed synchronization invalidates the current runtime at  *)
(* its observer; later requests must still reach a replacement runtime".   *)
RetiredIsReplaced ==
  runtime.retired /\ phase.by = "idle" /\ closing = "open" => NeedsRestart(Now)
==============================================================================
