---------------------------- MODULE AcpAgentProofs -----------------------------
(* Proofs that AgentInv is inductive and of what follows from it.           *)
EXTENDS AcpAgentInv, TLAPS

(* No flow's mode request is queued.                                        *)
OnlyWatched(c) == \A i \in 1..Len(c.syncs) : c.syncs[i].by = "watch"

Core(c) == c \in Control /\ Owned(c) /\ SyncsOwned(c) /\ TurnIsClear(c)

(* What a call leaves alone: the queues of waiters and the runtime.         *)
Frame(c, d) ==
  d.waiting = c.waiting /\ d.runtime = c.runtime /\ d.ops.pending = c.ops.pending

(* A call claims input only for a turn that may start.                      *)
Clear(c, d) ==
  d.transcript # c.transcript => d.held = "no" /\ d.ops.pending = 0 /\ closing = "open"

NoNewTurn(c, d) == closing # "open" => d.phase.by \in {"idle", c.phase.by}

(* Someone will wake what is pending.                                       *)
Latched(c) ==
  \/ c.held = "wake" \/ (c.ops.wake /\ c.ops.pending > 0) \/ c.phase.wake
  \/ (c.phase.by = "turn" /\ ~c.phase.aborted)
Parked(c) == Pending(c) \subseteq kept.caller \cup kept.switch

LEMMA Fields ==
  ASSUME NEW c \in Control
  PROVE  /\ c.phase \in Phases /\ c.phase.by \in Flows \cup {"idle"}
         /\ c.phase.aborted \in BOOLEAN /\ c.phase.wake \in BOOLEAN
         /\ c.at \in [Flows -> Places] /\ c.held \in {"no", "quiet", "wake"}
         /\ c.ops \in Counts /\ c.ops.pending \in Nat /\ c.ops.wake \in BOOLEAN
         /\ c.inbox \in Inboxes
         /\ c.inbox.turn \in Seq(Messages) /\ c.inbox.step \in SUBSET Messages
         /\ c.transcript \in [Messages -> Nat] /\ c.sandbox \in Modes /\ c.goal \in Modes
         /\ c.runtime \in Runtimes /\ c.syncs \in Seq(Requests) /\ c.waiting \in Seq(Callers)
BY DEF Control, Phases, Counts, Inboxes

(* A flow that owns nothing has no mode request queued.                     *)
LEMMA SyncsElsewhere ==
  ASSUME NEW c \in Control, SyncsOwned(c), NEW f \in Flows, c.at[f] \notin Owning,
         NEW i \in 1..Len(c.syncs), c.syncs[i].by # "watch"
  PROVE  c.syncs[i].by \in Flows \ {f}
<1>1. c.syncs[i] \in Requests
  BY Fields
<1>2. c.syncs[i].by \in Flows /\ c.at[c.syncs[i].by] = "sync"
  BY <1>1 DEF Requests, SyncsOwned
<1>. QED BY <1>2 DEF Owning

LEMMA SyncsMoved ==
  ASSUME NEW c \in Control, NEW d \in Control, NEW f \in Flows, c.at[f] \notin Owning,
         SyncsOwned(c), d.syncs = c.syncs, \A g \in Flows : g # f => d.at[g] = c.at[g]
  PROVE  SyncsOwned(d)
BY SyncsElsewhere DEF SyncsOwned

(* A mode request of f is queued while no other flow's is.                  *)
LEMMA SyncedOwned ==
  ASSUME NEW c \in Control, NEW f \in Flows, NEW mode \in Modes, OnlyWatched(c)
  PROVE  LET d == Synced(c, f, mode) IN
         /\ d \in Control /\ SyncsOwned(d)
         /\ d.at = [c.at EXCEPT ![f] = "sync"]
         /\ d.phase = c.phase /\ d.held = c.held /\ d.ops = c.ops /\ d.inbox = c.inbox
         /\ d.transcript = c.transcript /\ d.sandbox = c.sandbox
         /\ d.runtime = c.runtime /\ d.waiting = c.waiting
<1> DEFINE d == Synced(c, f, mode)
           s == [by |-> f, mode |-> mode]
<1>1. /\ d.at = [c.at EXCEPT ![f] = "sync"]
      /\ d.phase = c.phase /\ d.held = c.held /\ d.ops = c.ops /\ d.inbox = c.inbox
      /\ d.transcript = c.transcript /\ d.sandbox = c.sandbox
      /\ d.runtime = c.runtime /\ d.waiting = c.waiting
  BY DEF Synced, Queued, Control
<1>2. d.syncs = Append(c.syncs, s) /\ d.goal = mode
  BY DEF Synced, Queued, Control
<1>3. d \in Control
  <2>1. s \in Requests
    BY DEF Requests
  <2>2. d.syncs \in Seq(Requests)
    BY <1>2, <2>1, Fields
  <2>3. d.at \in [Flows -> Places]
    BY <1>1, Fields DEF Places, Owning
  <2>4. d = [c EXCEPT !.at = d.at, !.goal = mode, !.syncs = d.syncs]
    BY <1>1, <1>2 DEF Synced, Queued
  <2>. QED BY <2>2, <2>3, <2>4 DEF Control
<1>4. SyncsOwned(d)
  <2>1. \A i \in 1..Len(d.syncs) : d.syncs[i].by # "watch" => i = Len(c.syncs) + 1
    BY <1>2, Fields DEF OnlyWatched
  <2>2. d.syncs[Len(c.syncs) + 1].by = f
    BY <1>2, Fields
  <2>. QED BY <1>1, <2>1, <2>2, Fields DEF SyncsOwned
<1>. QED BY <1>1, <1>3, <1>4

(* The owner f of the phase enters the replacement or the mode request.     *)
LEMMA EnterOwned ==
  ASSUME NEW c \in Control, NEW f \in Flows, NEW mode \in Modes, OnlyWatched(c),
         c.phase.by = f, TurnIsClear(c),
         \A g \in Flows : g # f => c.at[g] \notin Owning,
         f # "turn" => c.at.turn = "none"
  PROVE  LET d == Enter(c, f, mode) IN
         /\ Core(d) /\ d.at[f] \in {"close", "sync"}
         /\ \A g \in Flows : g # f => d.at[g] = c.at[g]
         /\ d.phase = c.phase /\ d.held = c.held /\ d.ops = c.ops /\ d.inbox = c.inbox
         /\ d.transcript = c.transcript /\ d.sandbox = c.sandbox
         /\ d.runtime = c.runtime /\ d.waiting = c.waiting
<1> DEFINE d == Enter(c, f, mode)
<1>1. CASE NeedsRestart(c)
  <2>1. d = [c EXCEPT !.at[f] = "close", !.goal = mode]
    BY <1>1 DEF Enter
  <2>2. /\ d.at = [c.at EXCEPT ![f] = "close"] /\ d.syncs = c.syncs
        /\ d.phase = c.phase /\ d.held = c.held /\ d.ops = c.ops /\ d.inbox = c.inbox
        /\ d.transcript = c.transcript /\ d.sandbox = c.sandbox
        /\ d.runtime = c.runtime /\ d.waiting = c.waiting
    BY <2>1 DEF Control
  <2>3. d \in Control
    <3>1. d.at \in [Flows -> Places]
      BY <2>2 DEF Control, Places, Owning
    <3>2. d = [c EXCEPT !.at = d.at, !.goal = mode]
      BY <2>1, <2>2 
    <3>. QED BY <3>1, <3>2 DEF Control
  <2>4. SyncsOwned(d)
    BY <2>2 DEF SyncsOwned, OnlyWatched
  <2>5. Owned(d) /\ TurnIsClear(d)
    BY <2>2 DEF Owned, TurnIsClear, Control, Flows, Owning, Starting
  <2>. QED BY <2>2, <2>3, <2>4, <2>5 DEF Core, Control
<1>2. CASE ~NeedsRestart(c)
  <2>1. d = Synced(c, f, mode)
    BY <1>2 DEF Enter
  <2>2. /\ d \in Control /\ SyncsOwned(d)
        /\ d.at = [c.at EXCEPT ![f] = "sync"]
        /\ d.phase = c.phase /\ d.held = c.held /\ d.ops = c.ops /\ d.inbox = c.inbox
        /\ d.transcript = c.transcript /\ d.sandbox = c.sandbox
        /\ d.runtime = c.runtime /\ d.waiting = c.waiting
    BY <2>1, SyncedOwned
  <2>3. Owned(d) /\ TurnIsClear(d)
    BY <2>2 DEF Owned, TurnIsClear, Control, Flows, Owning, Starting
  <2>. QED BY <2>2, <2>3 DEF Core, Control
<1>. QED BY <1>1, <1>2

LEMMA ConservedSame ==
  ASSUME NEW c \in Control, NEW d \in Control, d.inbox = c.inbox, d.transcript = c.transcript,
         NEW made \in SUBSET Messages, NEW dropped \in SUBSET Messages, Conserved(c, made, dropped)
  PROVE  Conserved(d, made, dropped)
BY DEF Conserved, Distinct, Recorded, Pending

(* A claim takes batch from what is pending to the log.                     *)
Claims(c, e, batch) ==
  /\ Pending(c) = batch \cup Pending(e) /\ batch \cap Pending(e) = {}
  /\ \A m \in Messages : e.transcript[m] = c.transcript[m] + (IF m \in batch THEN 1 ELSE 0)

LEMMA RecordedOnce ==
  ASSUME NEW c \in Control, NEW e \in Control, NEW batch, Claims(c, e, batch),
         NEW made \in SUBSET Messages, NEW dropped \in SUBSET Messages, Recorded(c, made, dropped)
  PROVE  Recorded(e, made, dropped)
<1>1. dropped \subseteq made /\ Pending(e) \subseteq made \ dropped
  BY DEF Claims, Recorded
<1>2. ASSUME NEW m \in Messages
      PROVE  e.transcript[m] = IF m \in made \ (Pending(e) \cup dropped) THEN 1 ELSE 0
  <2>1. c.transcript[m] = IF m \in made \ (Pending(c) \cup dropped) THEN 1 ELSE 0
    BY DEF Recorded
  <2>2. batch \subseteq made \ dropped
    BY DEF Claims, Recorded
  <2>. QED BY <2>1, <2>2 DEF Claims
<1>. QED BY <1>1, <1>2 DEF Recorded

(* A turn claims each message once.                                         *)
Batch(c) == c.inbox.step \cup {c.inbox.turn[i] : i \in 1..Len(c.inbox.turn) \cap {1}}

LEMMA ClaimConserves ==
  ASSUME NEW c \in Control, NEW e \in Control,
         NEW made \in SUBSET Messages, NEW dropped \in SUBSET Messages,
         Conserved(c, made, dropped),
         e.inbox.turn = IF c.inbox.turn = <<>> THEN <<>> ELSE Tail(c.inbox.turn),
         e.inbox.step = {},
         \A m \in Messages : e.transcript[m] = c.transcript[m] + (IF m \in Batch(c) THEN 1 ELSE 0)
  PROVE  Conserved(e, made, dropped)
<1> DEFINE queue == c.inbox.turn
           next == e.inbox.turn
           batch == Batch(c)
<1>1. Distinct(e) /\ Pending(c) = batch \cup Pending(e) /\ batch \cap Pending(e) = {}
  <2>1. CASE queue = <<>>
    <3>1. /\ next = <<>> /\ Len(queue) = 0 /\ Len(next) = 0
          /\ batch = c.inbox.step
      BY <2>1 DEF Batch
    <3>2. Pending(e) = {} /\ Pending(c) = batch
      BY <3>1 DEF Pending
    <3>. QED BY <3>1, <3>2 DEF Distinct
  <2>2. CASE queue # <<>>
    <3>1. /\ Len(queue) \in Nat /\ Len(queue) > 0
          /\ next = Tail(queue) /\ Len(next) = Len(queue) - 1
          /\ \A i \in 1..Len(next) : next[i] = queue[i + 1]
      BY <2>2, Fields
    <3>2. batch = c.inbox.step \cup {queue[1]}
      BY <3>1 DEF Batch
    <3>3. /\ \A i \in 1..Len(next) : i \in Nat /\ i + 1 \in 1..Len(queue) /\ i + 1 # 1
          /\ 1 \in 1..Len(queue)
          /\ \A i \in 1..Len(queue) : i # 1 => i - 1 \in 1..Len(next) /\ i - 1 + 1 = i
      BY <3>1
    <3>4. \A i \in 1..Len(queue) : i # 1 => queue[i] = next[i - 1]
      BY <3>1, <3>3
    <3>5. Pending(c) = batch \cup Pending(e)
      <4>1. Pending(c) = {queue[i] : i \in 1..Len(queue)} \cup c.inbox.step
        BY DEF Pending
      <4>2. Pending(e) = {next[i] : i \in 1..Len(next)}
        BY DEF Pending
      <4> HIDE DEF next, queue, batch
      <4>3. batch \cup Pending(e) \subseteq Pending(c)
        BY <3>1, <3>2, <3>3, <4>1, <4>2
      <4>4. ASSUME NEW x \in Pending(c), x \notin c.inbox.step, x # queue[1] PROVE x \in Pending(e)
        <5>1. PICK i \in 1..Len(queue) : x = queue[i]
          BY <4>1, <4>4
        <5>. QED BY <3>3, <3>4, <4>2, <4>4, <5>1
      <4>. QED BY <3>2, <4>3, <4>4
    <3>6. batch \cap Pending(e) = {}
      <4>1. Pending(e) = {next[i] : i \in 1..Len(next)}
        BY DEF Pending
      <4>2. /\ \A i, j \in 1..Len(queue) : queue[i] = queue[j] => i = j
            /\ \A i \in 1..Len(queue) : queue[i] \notin c.inbox.step
        BY DEF Conserved, Distinct
      <4> HIDE DEF next, queue
      <4>. QED BY <3>1, <3>2, <3>3, <4>1, <4>2
    <3>7. Distinct(e)
      <4>1. \A i, j \in 1..Len(next) : queue[i + 1] = queue[j + 1] => i + 1 = j + 1
        BY <3>3 DEF Conserved, Distinct
      <4> HIDE DEF next, queue
      <4>2. \A i, j \in 1..Len(next) : next[i] = next[j] => i = j
        BY <3>1, <3>3, <4>1
      <4>. QED BY <4>2 DEF Distinct, next
    <3>. QED BY <3>5, <3>6, <3>7
  <2>. QED BY <2>1, <2>2
<1>2. Claims(c, e, batch)
  BY <1>1 DEF Claims
<1>3. Recorded(e, made, dropped)
  BY <1>2, RecordedOnce DEF Conserved
<1>. QED BY <1>1, <1>3 DEF Conserved

(* A turn takes what it claims to its Session, once.                         *)
LEMMA TurnBegunOwned ==
  ASSUME NEW c \in Control, OnlyWatched(c), c.phase.by = "turn", TurnIsClear(c),
         c.at.op \notin Owning, c.at.switch \notin Owning, NEW made \in SUBSET Messages, NEW dropped \in SUBSET Messages, Conserved(c, made, dropped)
  PROVE  LET d == TurnBegun(c) IN
         /\ Core(d) /\ Conserved(d, made, dropped)
         /\ d.at.op = c.at.op /\ d.at.switch = c.at.switch
         /\ d.phase = c.phase /\ d.held = c.held /\ d.ops = c.ops
         /\ d.runtime = c.runtime /\ d.waiting = c.waiting
<1> DEFINE queue == c.inbox.turn
           batch == Batch(c)
           e == [c EXCEPT
                  !.inbox = [turn |-> IF @.turn = <<>> THEN <<>> ELSE Tail(@.turn), step |-> {}],
                  !.transcript = [m \in Messages |-> @[m] + (IF m \in batch THEN 1 ELSE 0)]]
<1>1. TurnBegun(c) = Enter(e, "turn", c.sandbox)
  BY DEF TurnBegun, Batch
<1>2. /\ e.inbox = [turn |-> IF queue = <<>> THEN <<>> ELSE Tail(queue), step |-> {}]
      /\ e.transcript = [m \in Messages |-> c.transcript[m] + (IF m \in batch THEN 1 ELSE 0)]
      /\ e.phase = c.phase /\ e.at = c.at /\ e.held = c.held /\ e.ops = c.ops
      /\ e.sandbox = c.sandbox /\ e.runtime = c.runtime /\ e.goal = c.goal
      /\ e.syncs = c.syncs /\ e.waiting = c.waiting
  BY DEF Control
<1>3. e = [c EXCEPT !.inbox = e.inbox, !.transcript = e.transcript]
  BY <1>2
<1> HIDE DEF e
<1>4. e.inbox \in Inboxes
  <2>1. queue \in Seq(Messages)
    BY Fields
  <2>2. queue # <<>> => Tail(queue) \in Seq(Messages)
    BY <2>1
  <2>3. <<>> \in Seq(Messages)
    OBVIOUS
  <2>. QED BY <1>2, <2>1, <2>2, <2>3 DEF Inboxes
<1>5. e \in Control
  <2>1. e.transcript \in [Messages -> Nat]
    BY <1>2, Fields
  <2>. QED BY <1>3, <1>4, <2>1 DEF Control
<1>6. Conserved(e, made, dropped)
  <2>1. \A m \in Messages : e.transcript[m] = c.transcript[m] + (IF m \in batch THEN 1 ELSE 0)
    BY <1>2
  <2>2. e.inbox.turn = (IF queue = <<>> THEN <<>> ELSE Tail(queue)) /\ e.inbox.step = {}
    BY <1>2
  <2>. QED BY <1>5, <2>1, <2>2, ClaimConserves
<1>7. OnlyWatched(e) /\ TurnIsClear(e) /\ \A g \in Flows : g # "turn" => e.at[g] \notin Owning
  BY <1>2 DEF OnlyWatched, TurnIsClear, Flows
<1>8. c.sandbox \in Modes
  BY Fields
<1> DEFINE d == Enter(e, "turn", c.sandbox)
<1>9. /\ Core(d) /\ \A g \in Flows : g # "turn" => d.at[g] = e.at[g]
      /\ d.phase = e.phase /\ d.held = e.held /\ d.ops = e.ops /\ d.inbox = e.inbox
      /\ d.transcript = e.transcript /\ d.runtime = e.runtime /\ d.waiting = e.waiting
  BY <1>2, <1>5, <1>7, <1>8, EnterOwned, "turn" \in Flows DEF Flows
<1>10. Conserved(d, made, dropped)
  BY <1>5, <1>6, <1>9, ConservedSame DEF Core
<1>. QED BY <1>1, <1>2, <1>9, <1>10 DEF Flows

(* An idle agent has no mode request of a flow.                             *)
LEMMA IdleWatches ==
  ASSUME NEW c \in Control, Owned(c), SyncsOwned(c), \A f \in Flows : c.at[f] # "sync"
  PROVE  OnlyWatched(c)
<1> SUFFICES ASSUME NEW i \in 1..Len(c.syncs), c.syncs[i].by # "watch" PROVE FALSE
  BY DEF OnlyWatched
<1>1. c.syncs[i] \in Requests
  BY Fields
<1>. QED BY <1>1 DEF SyncsOwned, Requests

(* A wake starts a turn, or is latched where its obstacle will find it.     *)
LEMMA WokenOwned ==
  ASSUME NEW c \in Control, Core(c), NEW made \in SUBSET Messages, NEW dropped \in SUBSET Messages, Conserved(c, made, dropped)
  PROVE  LET d == Woken(c) IN
         /\ Core(d) /\ Conserved(d, made, dropped) /\ Frame(c, d) /\ Clear(c, d) /\ NoNewTurn(c, d)
         /\ d.at.op = c.at.op /\ d.at.switch = c.at.switch
         /\ d.held = "no" <=> c.held = "no"
         /\ closing = "open" => Latched(d)
<1> DEFINE d == Woken(c)
<1>1. CASE closing # "open"
  <2>1. d = c
    BY <1>1 DEF Woken
  <2>. QED BY <1>1, <2>1 DEF Frame, Clear, NoNewTurn
<1>2. CASE closing = "open" /\ c.held # "no"
  <2>1. d = [c EXCEPT !.held = "wake"]
    BY <1>2 DEF Woken
  <2>2. /\ d.held = "wake" /\ d.phase = c.phase /\ d.at = c.at /\ d.ops = c.ops
        /\ d.inbox = c.inbox /\ d.transcript = c.transcript /\ d.syncs = c.syncs
        /\ d.runtime = c.runtime /\ d.waiting = c.waiting
    BY <2>1 DEF Control
  <2>3. d \in Control
    BY <2>1 DEF Control
  <2>4. Owned(d) /\ SyncsOwned(d) /\ TurnIsClear(d)
    BY <1>2, <2>2 DEF Core, Owned, SyncsOwned, TurnIsClear
  <2>5. Conserved(d, made, dropped)
    BY <2>2, <2>3, ConservedSame
  <2>. QED BY <1>2, <2>2, <2>3, <2>4, <2>5 DEF Core, Frame, Clear, NoNewTurn, Latched
<1>3. CASE closing = "open" /\ c.held = "no" /\ c.ops.pending > 0
  <2>1. d = [c EXCEPT !.ops.wake = TRUE]
    BY <1>3 DEF Woken
  <2>2. /\ d.held = c.held /\ d.phase = c.phase /\ d.at = c.at
        /\ d.ops.pending = c.ops.pending /\ d.ops.wake = TRUE
        /\ d.inbox = c.inbox /\ d.transcript = c.transcript /\ d.syncs = c.syncs
        /\ d.runtime = c.runtime /\ d.waiting = c.waiting
    BY <2>1 DEF Control, Counts
  <2>3. d \in Control
    BY <2>1 DEF Control, Counts
  <2>4. Owned(d) /\ SyncsOwned(d) /\ TurnIsClear(d)
    BY <1>3, <2>2 DEF Core, Owned, SyncsOwned, TurnIsClear
  <2>5. Conserved(d, made, dropped)
    BY <2>2, <2>3, ConservedSame
  <2>. QED BY <1>3, <2>2, <2>3, <2>4, <2>5 DEF Core, Frame, Clear, NoNewTurn, Latched
<1>4. CASE closing = "open" /\ c.held = "no" /\ ~(c.ops.pending > 0) /\ c.phase.by # "idle"
  <2>1. d = [c EXCEPT !.phase.wake = TRUE]
    BY <1>4 DEF Woken
  <2>2. /\ d.held = c.held /\ d.ops = c.ops /\ d.at = c.at
        /\ d.phase.by = c.phase.by /\ d.phase.aborted = c.phase.aborted /\ d.phase.wake = TRUE
        /\ d.inbox = c.inbox /\ d.transcript = c.transcript /\ d.syncs = c.syncs
        /\ d.runtime = c.runtime /\ d.waiting = c.waiting
    BY <2>1 DEF Control, Phases
  <2>3. d \in Control
    <3>1. d.phase = [c.phase EXCEPT !.wake = TRUE] /\ c.phase \in Phases
      BY <2>1 DEF Control
    <3>2. d.phase \in Phases
      BY <3>1 DEF Phases
    <3>. QED BY <2>1, <3>2 DEF Control
  <2>4. Owned(d) /\ SyncsOwned(d) /\ TurnIsClear(d)
    BY <1>4, <2>2 DEF Core, Owned, SyncsOwned, TurnIsClear
  <2>5. Conserved(d, made, dropped)
    BY <2>2, <2>3, ConservedSame
  <2>. QED BY <1>4, <2>2, <2>3, <2>4, <2>5 DEF Core, Frame, Clear, NoNewTurn, Latched
<1>5. CASE closing = "open" /\ c.held = "no" /\ ~(c.ops.pending > 0) /\ c.phase.by = "idle"
  <2> DEFINE e == [c EXCEPT !.phase = [Idle EXCEPT !.by = "turn"]]
  <2>1. d = TurnBegun(e)
    BY <1>5 DEF Woken
  <2>2. /\ e.phase = [by |-> "turn", aborted |-> FALSE, wake |-> FALSE]
        /\ e.held = c.held /\ e.ops = c.ops /\ e.at = c.at
        /\ e.inbox = c.inbox /\ e.transcript = c.transcript /\ e.syncs = c.syncs
        /\ e.runtime = c.runtime /\ e.waiting = c.waiting
    BY DEF Control, Idle
  <2>3. e \in Control
    <3>1. [Idle EXCEPT !.by = "turn"] \in Phases
      BY DEF Idle, Phases, Flows
    <3>. QED BY <3>1 DEF Control
  <2>4. \A f \in Flows : c.at[f] \notin Owning
    BY <1>5 DEF Core, Owned, Flows
  <2>5. OnlyWatched(e)
    BY <2>2, <2>4, IdleWatches DEF Core, OnlyWatched, Owning
  <2>6. TurnIsClear(e) /\ Conserved(e, made, dropped) /\ e.at.op \notin Owning /\ e.at.switch \notin Owning
    BY <1>5, <2>2, <2>3, <2>4, ConservedSame DEF TurnIsClear, Flows
  <2> HIDE DEF e
  <2>7. /\ Core(d) /\ Conserved(d, made, dropped)
        /\ d.at.op = e.at.op /\ d.at.switch = e.at.switch
        /\ d.phase = e.phase /\ d.held = e.held /\ d.ops = e.ops
        /\ d.runtime = e.runtime /\ d.waiting = e.waiting
    BY <2>1, <2>2, <2>3, <2>5, <2>6, TurnBegunOwned
  <2>8. d.ops.pending = 0
    BY <1>5, <2>2, <2>7, Fields
  <2>. QED BY <1>5, <2>2, <2>7, <2>8 DEF Frame, Clear, NoNewTurn, Latched
<1>. QED BY <1>1, <1>2, <1>3, <1>4, <1>5

LEMMA WokenIfOwned ==
  ASSUME NEW c \in Control, NEW requested \in BOOLEAN, Core(c), NEW made \in SUBSET Messages, NEW dropped \in SUBSET Messages, Conserved(c, made, dropped),
         closing = "open" => Parked(c) \/ requested \/ Latched(c)
  PROVE  LET d == WokenIf(c, requested) IN
         /\ Core(d) /\ Conserved(d, made, dropped) /\ Frame(c, d) /\ Clear(c, d) /\ NoNewTurn(c, d)
         /\ d.at.op = c.at.op /\ d.at.switch = c.at.switch
         /\ d.held = "no" <=> c.held = "no"
         /\ WakesLatched(d)
<1>1. CASE requested /\ Pending(c) # {}
  <2>1. WokenIf(c, requested) = Woken(c)
    BY <1>1 DEF WokenIf
  <2>. QED BY <2>1, WokenOwned DEF WakesLatched, Latched
<1>2. CASE ~(requested /\ Pending(c) # {})
  <2>1. WokenIf(c, requested) = c
    BY <1>2 DEF WokenIf
  <2>. QED BY <1>2, <2>1 DEF Frame, Clear, NoNewTurn, WakesLatched, Parked, Latched
<1>. QED BY <1>1, <1>2

(* The owner gives the phase back, and a latched wake is taken up.          *)
LEMMA PhaseOverOwned ==
  ASSUME NEW c \in Control, NEW f \in Flows, Owned(c), c.phase.by = f, OnlyWatched(c),
         NEW made \in SUBSET Messages, NEW dropped \in SUBSET Messages, Conserved(c, made, dropped),
         closing = "open" =>
           Parked(c) \/ c.held = "wake" \/ (c.ops.wake /\ c.ops.pending > 0) \/ c.phase.wake
  PROVE  LET d == PhaseOver(c, f) IN
         /\ Core(d) /\ Conserved(d, made, dropped) /\ Frame(c, d) /\ Clear(c, d) /\ WakesLatched(d)
         /\ closing # "open" => d.phase.by = "idle"
         /\ d.phase.by \in {"idle", "turn"}
         /\ \A g \in {"op", "switch"} : d.at[g] = IF g = f THEN "none" ELSE c.at[g]
         /\ d.held = "no" <=> c.held = "no"
<1> DEFINE e == [c EXCEPT !.phase = Idle, !.at[f] = "none"]
           d == WokenIf(e, c.phase.wake)
<1>1. PhaseOver(c, f) = d
  BY DEF PhaseOver
<1>2. /\ e.phase = Idle /\ e.at = [c.at EXCEPT ![f] = "none"]
      /\ e.held = c.held /\ e.ops = c.ops /\ e.inbox = c.inbox /\ e.transcript = c.transcript
      /\ e.syncs = c.syncs /\ e.runtime = c.runtime /\ e.waiting = c.waiting
  BY DEF Control
<1>3. e \in Control
  <2>1. Idle \in Phases
    BY DEF Idle, Phases
  <2>2. e.at \in [Flows -> Places]
    BY <1>2, Fields DEF Places
  <2>3. e = [c EXCEPT !.phase = Idle, !.at = e.at]
    BY <1>2
  <2>. QED BY <2>1, <2>2, <2>3 DEF Control
<1> HIDE DEF e
<1>4. Owned(e)
  BY <1>2 DEF Owned, Control, Idle, Flows, Owning, Starting
<1>5. SyncsOwned(e) /\ TurnIsClear(e) /\ Conserved(e, made, dropped)
  BY <1>2, <1>3, ConservedSame DEF SyncsOwned, OnlyWatched, TurnIsClear, Idle
<1>6. c.phase.wake \in BOOLEAN
  BY Fields
<1>7. closing = "open" => Parked(e) \/ c.phase.wake \/ Latched(e)
  BY <1>2 DEF Parked, Pending, Latched
<1>8. /\ Core(d) /\ Conserved(d, made, dropped) /\ Frame(e, d) /\ Clear(e, d) /\ NoNewTurn(e, d)
      /\ d.at.op = e.at.op /\ d.at.switch = e.at.switch
      /\ d.held = "no" <=> e.held = "no"
      /\ WakesLatched(d)
  BY <1>3, <1>4, <1>5, <1>6, <1>7, WokenIfOwned DEF Core
<1>9. d.phase.by \in {"idle", "turn"}
  <2>1. CASE d = e
    BY <1>2, <2>1 DEF Idle
  <2>2. CASE d # e
    <3>1. d = Woken(e)
      BY <2>2 DEF WokenIf
    <3>2. closing = "open"
      BY <2>2, <3>1 DEF Woken
    <3>3. d.at.turn # "none" \/ d.phase.by = "idle"
      <4>1. CASE e.held # "no" \/ e.ops.pending > 0
        BY <1>2, <1>3, <3>1, <3>2, <4>1 DEF Woken, Idle, Control
      <4>2. CASE ~(e.held # "no" \/ e.ops.pending > 0)
        <5> DEFINE b == [e EXCEPT !.phase = [Idle EXCEPT !.by = "turn"]]
        <5>1. d = TurnBegun(b)
          BY <1>2, <3>1, <3>2, <4>2 DEF Woken, Idle
        <5>. QED BY <5>1, <1>3 DEF TurnBegun, Enter, Synced, Queued, Control, Flows
      <4>. QED BY <4>1, <4>2
    <3>. QED BY <1>8, <3>3 DEF Core, Owned
  <2>. QED BY <2>1, <2>2
<1>. QED BY <1>1, <1>2, <1>8, <1>9 DEF Frame, Clear, NoNewTurn, Idle, Control

(* A turn ends: the driver takes the next one, or gives the phase back.     *)
LEMMA TurnOverOwned ==
  ASSUME NEW c \in Control, Owned(c), c.phase.by = "turn", OnlyWatched(c), TurnIsClear(c),
         NEW made \in SUBSET Messages, NEW dropped \in SUBSET Messages, Conserved(c, made, dropped), WakesLatched(c)
  PROVE  LET d == TurnOver(c) IN
         /\ Core(d) /\ Conserved(d, made, dropped) /\ Frame(c, d) /\ Clear(c, d) /\ NoNewTurn(c, d)
         /\ WakesLatched(d)
         /\ d.at.op = c.at.op /\ d.at.switch = c.at.switch
         /\ d.held = "no" <=> c.held = "no"
<1> DEFINE d == TurnOver(c)
<1>1. CASE Pending(c) = {} \/ c.phase.aborted
  <2>1. d = PhaseOver(c, "turn")
    BY <1>1 DEF TurnOver
  <2>2. closing = "open" =>
          Parked(c) \/ c.held = "wake" \/ (c.ops.wake /\ c.ops.pending > 0) \/ c.phase.wake
    BY <1>1 DEF WakesLatched, Parked
  <2>. QED BY <2>1, <2>2, PhaseOverOwned DEF Flows, NoNewTurn
<1>2. CASE ~(Pending(c) = {} \/ c.phase.aborted) /\ c.ops.pending > 0
  <2> DEFINE e == [c EXCEPT !.ops.wake = TRUE]
  <2>1. d = PhaseOver(e, "turn")
    BY <1>2 DEF TurnOver
  <2>2. /\ e.phase = c.phase /\ e.at = c.at /\ e.held = c.held /\ e.inbox = c.inbox
        /\ e.ops.wake = TRUE /\ e.ops.pending = c.ops.pending /\ e.transcript = c.transcript
        /\ e.syncs = c.syncs /\ e.runtime = c.runtime /\ e.waiting = c.waiting
    BY DEF Control, Counts
  <2>3. e \in Control
    BY DEF Control, Counts
  <2>4. Owned(e) /\ OnlyWatched(e) /\ Conserved(e, made, dropped)
    <3>1. Owned(e) /\ OnlyWatched(e)
      BY <2>2 DEF Owned, OnlyWatched
    <3>. HIDE DEF e
    <3>. QED BY <2>2, <2>3, <3>1, ConservedSame
  <2>5. Pending(e) = Pending(c)
    BY <2>2 DEF Pending
  <2> HIDE DEF e
  <2>. QED BY <1>2, <2>1, <2>2, <2>3, <2>4, PhaseOverOwned DEF Flows, NoNewTurn, Frame, Clear
<1>3. CASE ~(Pending(c) = {} \/ c.phase.aborted) /\ ~(c.ops.pending > 0)
  <2>1. d = TurnBegun(c)
    BY <1>3 DEF TurnOver
  <2>2. c.at.op \notin Owning /\ c.at.switch \notin Owning
    BY DEF Owned, Flows
  <2>3. c.held = "no" /\ closing = "open" /\ c.ops.pending = 0
    BY <1>3, Fields DEF TurnIsClear
  <2>. QED BY <1>3, <2>1, <2>2, <2>3, TurnBegunOwned DEF Frame, Clear, NoNewTurn, WakesLatched
<1>. QED BY <1>1, <1>2, <1>3

(* The next operation runs, or awaits whenIdle.                             *)
HeadMoved(c, d, left) ==
  /\ d.ops.pending = left
  /\ \/ left = 0 /\ d.at.op = "none" /\ d.waiting = c.waiting
     \/ left > 0 /\ d.at.op = "run" /\ d.waiting = c.waiting
     \/ left > 0 /\ d.at.op = "wait" /\ d.waiting = Append(c.waiting, "op")

LEMMA OpHeadOwned ==
  ASSUME NEW c \in Control, Core(c), c.phase.by # "op", c.ops.pending > 0,
         NEW made \in SUBSET Messages, NEW dropped \in SUBSET Messages, Conserved(c, made, dropped), WakesLatched(c)
  PROVE  LET d == OpHead(c) IN
         /\ Core(d) /\ Conserved(d, made, dropped) /\ WakesLatched(d)
         /\ HeadMoved(c, d, c.ops.pending)
         /\ d.transcript = c.transcript /\ d.phase = c.phase /\ d.runtime = c.runtime
         /\ d.at.switch = c.at.switch /\ d.held = c.held
<1> DEFINE d == OpHead(c)
<1>1. /\ \/ d.at = [c.at EXCEPT !.op = "run"] /\ d.waiting = c.waiting
         \/ d.at = [c.at EXCEPT !.op = "wait"] /\ d.waiting = Append(c.waiting, "op")
      /\ d.phase = c.phase /\ d.held = c.held /\ d.ops = c.ops /\ d.inbox = c.inbox
      /\ d.transcript = c.transcript /\ d.syncs = c.syncs /\ d.runtime = c.runtime
  BY DEF OpHead, WaitsIdle, Control
<1>2. d \in Control
  <2>1. d.waiting \in Seq(Callers)
    <3>1. c.waiting \in Seq(Callers) /\ "op" \in Callers
      BY Fields DEF Callers, Flows
    <3>2. Append(c.waiting, "op") \in Seq(Callers)
      BY <3>1
    <3>. QED BY <1>1, <3>1, <3>2
  <2>2. d.at \in [Flows -> Places]
    <3>1. c.at \in [Flows -> Places] /\ "run" \in Places /\ "wait" \in Places
      BY Fields DEF Places
    <3>2. d.at = [c.at EXCEPT !.op = "run"] \/ d.at = [c.at EXCEPT !.op = "wait"]
      BY <1>1
    <3>. QED BY <3>1, <3>2
  <2>3. d = [c EXCEPT !.at = d.at, !.waiting = d.waiting]
    BY <1>1 DEF OpHead, WaitsIdle, Control
  <2>. QED BY <2>1, <2>2, <2>3 DEF Control
<1> HIDE DEF d
<1>3. c.at.op \notin Owning
  BY DEF Core, Owned, Flows
<1>4. d.at.op \in {"run", "wait"} /\ \A g \in Flows : g # "op" => d.at[g] = c.at[g]
  BY <1>1 DEF Control, Flows
<1>5. Owned(d)
  BY <1>1, <1>4 DEF Core, Owned, Flows, Owning, Starting
<1>6. SyncsOwned(d)
  BY <1>1, <1>2, <1>3, <1>4, SyncsMoved, "op" \in Flows DEF Core, Flows
<1>7. TurnIsClear(d) /\ Conserved(d, made, dropped) /\ WakesLatched(d)
  BY <1>1, <1>2, ConservedSame DEF Core, TurnIsClear, WakesLatched, Pending
<1>8. HeadMoved(c, d, c.ops.pending)
  BY <1>1, <1>4, Fields DEF HeadMoved, Flows
<1>9. d.at.switch = c.at.switch
  BY <1>4 DEF Flows
<1>. QED BY <1>1, <1>2, <1>5, <1>6, <1>7, <1>8, <1>9 DEF Core, d

LEMMA FinishOwned ==
  ASSUME NEW c \in Control, Owned(c), SyncsOwned(c), TurnIsClear(c),
         c.phase.by # "op", c.ops.pending > 0,
         NEW made \in SUBSET Messages, NEW dropped \in SUBSET Messages, Conserved(c, made, dropped), WakesLatched(c)
  PROVE  LET d == FinishModelOperation(c) IN
         /\ Core(d) /\ Conserved(d, made, dropped) /\ Clear(c, d) /\ NoNewTurn(c, d) /\ WakesLatched(d)
         /\ HeadMoved(c, d, c.ops.pending - 1) /\ d.runtime = c.runtime
         /\ d.at.switch = c.at.switch
         /\ d.held = "no" <=> c.held = "no"
<1> DEFINE d == FinishModelOperation(c)
           e == [c EXCEPT !.at.op = "none", !.ops.pending = @ - 1]
<1>1. /\ e.at = [c.at EXCEPT !.op = "none"]
      /\ e.ops.pending = c.ops.pending - 1 /\ e.ops.wake = c.ops.wake
      /\ e.phase = c.phase /\ e.held = c.held /\ e.inbox = c.inbox
      /\ e.transcript = c.transcript /\ e.syncs = c.syncs /\ e.runtime = c.runtime
      /\ e.waiting = c.waiting
  BY DEF Control, Counts
<1> HIDE DEF e
<1>2. e \in Control
  <2>1. e.at \in [Flows -> Places]
    <3>1. e.at = [c.at EXCEPT !.op = "none"] /\ c.at \in [Flows -> Places] /\ "none" \in Places
      BY <1>1, Fields DEF Places
    <3>. QED BY <3>1
  <2>2. e.ops = [c.ops EXCEPT !.pending = @ - 1] /\ c.ops \in Counts
    BY DEF Control, e
  <2>3. e.ops \in Counts
    <3>1. c.ops.pending - 1 \in Nat
      BY Fields
    <3>. QED BY <2>2, <3>1 DEF Counts
  <2>4. e = [c EXCEPT !.at = e.at, !.ops = e.ops]
    BY <1>1, <2>2 DEF e
  <2>. QED BY <2>1, <2>3, <2>4 DEF Control
<1>3. c.at.op \notin Owning
  BY DEF Owned, Flows
<1>4. e.at.op = "none" /\ \A g \in Flows : g # "op" => e.at[g] = c.at[g]
  BY <1>1, Fields DEF Flows
<1>5. Owned(e)
  BY <1>1, <1>4 DEF Owned, Flows, Owning, Starting
<1>6. SyncsOwned(e)
  BY <1>1, <1>2, <1>3, <1>4, SyncsMoved, "op" \in Flows DEF Flows
<1>7. TurnIsClear(e) /\ Conserved(e, made, dropped)
  BY <1>1, <1>2, ConservedSame DEF TurnIsClear
<1>8. CASE e.ops.pending > 0
  <2>1. d = OpHead(e)
    BY <1>8 DEF FinishModelOperation, e
  <2>2. WakesLatched(e)
    BY <1>1, <1>8 DEF WakesLatched, Pending
  <2>3. /\ Core(d) /\ Conserved(d, made, dropped) /\ WakesLatched(d)
        /\ HeadMoved(e, d, e.ops.pending)
        /\ d.transcript = e.transcript /\ d.phase = e.phase /\ d.runtime = e.runtime
        /\ d.at.switch = e.at.switch /\ d.held = e.held
    BY <1>1, <1>2, <1>5, <1>6, <1>7, <1>8, <2>1, <2>2, OpHeadOwned DEF Core
  <2>. QED BY <1>1, <1>4, <2>3 DEF Clear, NoNewTurn, HeadMoved, Flows
<1>9. CASE ~(e.ops.pending > 0)
  <2> DEFINE b == [e EXCEPT !.ops.wake = FALSE]
  <2>1. d = WokenIf(b, c.ops.wake)
    BY <1>9 DEF FinishModelOperation, e
  <2>2. /\ b.at = e.at /\ b.ops.pending = 0 /\ b.phase = c.phase /\ b.held = c.held
        /\ b.inbox = c.inbox /\ b.transcript = c.transcript /\ b.syncs = c.syncs
        /\ b.runtime = c.runtime /\ b.waiting = c.waiting
    BY <1>1, <1>2, <1>9 DEF Control, Counts
  <2>3. b \in Control /\ c.ops.wake \in BOOLEAN
    BY <1>2, Fields DEF Control, Counts
  <2> HIDE DEF b
  <2>4. Core(b) /\ Conserved(b, made, dropped)
    <3>1. Owned(b) /\ SyncsOwned(b) /\ TurnIsClear(b)
      BY <1>1, <1>5, <1>6, <1>7, <2>2 DEF Owned, SyncsOwned, TurnIsClear
    <3>. QED BY <1>1, <1>2, <1>7, <2>2, <2>3, <3>1, ConservedSame DEF Core
  <2>5. closing = "open" => Parked(b) \/ c.ops.wake \/ Latched(b)
    BY <2>2 DEF WakesLatched, Parked, Latched, Pending
  <2>6. /\ Core(d) /\ Conserved(d, made, dropped) /\ Frame(b, d) /\ Clear(b, d) /\ NoNewTurn(b, d)
        /\ d.at.op = b.at.op /\ d.at.switch = b.at.switch /\ WakesLatched(d)
        /\ d.held = "no" <=> b.held = "no"
    BY <2>1, <2>3, <2>4, <2>5, WokenIfOwned
  <2>7. c.ops.pending - 1 = 0
    BY <1>1, <2>2, <1>9, Fields DEF b
  <2>. QED BY <1>4, <2>2, <2>6, <2>7 DEF Frame, Clear, NoNewTurn, HeadMoved, Flows
<1>. QED BY <1>8, <1>9

LEMMA OpOverOwned ==
  ASSUME NEW c \in Control, Owned(c), SyncsOwned(c), TurnIsClear(c), c.phase.by = "op" => OnlyWatched(c),
         c.ops.pending > 0, NEW made \in SUBSET Messages, NEW dropped \in SUBSET Messages, Conserved(c, made, dropped), WakesLatched(c)
  PROVE  LET d == OpOver(c) IN
         /\ Core(d) /\ Conserved(d, made, dropped) /\ Clear(c, d) /\ NoNewTurn(c, d) /\ WakesLatched(d)
         /\ HeadMoved(c, d, c.ops.pending - 1) /\ d.runtime = c.runtime
         /\ d.at.switch = c.at.switch
         /\ d.held = "no" <=> c.held = "no"
<1>1. CASE c.phase.by = "op"
  <2> DEFINE e == PhaseOver(c, "op")
             d == FinishModelOperation(e)
  <2>1. OpOver(c) = d
    BY <1>1 DEF OpOver
  <2>2. closing = "open" =>
          Parked(c) \/ c.held = "wake" \/ (c.ops.wake /\ c.ops.pending > 0) \/ c.phase.wake
    BY <1>1 DEF WakesLatched, Parked
  <2>3. /\ Core(e) /\ Conserved(e, made, dropped) /\ Frame(c, e) /\ Clear(c, e) /\ WakesLatched(e)
        /\ closing # "open" => e.phase.by = "idle"
        /\ e.phase.by \in {"idle", "turn"}
        /\ e.at.switch = c.at.switch
        /\ e.held = "no" <=> c.held = "no"
    BY <1>1, <2>2, PhaseOverOwned DEF Flows
  <2>4. e.transcript = c.transcript
    BY <2>3 DEF Clear, Frame
  <2>5. e.phase.by # "op" /\ e \in Control /\ e.ops.pending > 0
    BY <2>3 DEF Core, Frame
  <2>6. /\ Core(d) /\ Conserved(d, made, dropped) /\ Clear(e, d) /\ NoNewTurn(e, d) /\ WakesLatched(d)
        /\ HeadMoved(e, d, e.ops.pending - 1) /\ d.runtime = e.runtime
        /\ d.at.switch = e.at.switch
        /\ d.held = "no" <=> e.held = "no"
    BY <2>3, <2>5, FinishOwned DEF Core
  <2>. QED BY <2>1, <2>3, <2>4, <2>6 DEF Frame, Clear, NoNewTurn, HeadMoved
<1>2. CASE c.phase.by # "op"
  <2>1. OpOver(c) = FinishModelOperation(c)
    BY <1>2 DEF OpOver
  <2>. QED BY <1>2, <2>1, FinishOwned
<1>. QED BY <1>1, <1>2

(* The reservation ends, and the wake it deferred is taken up.              *)
LEMMA SwitchEndedOwned ==
  ASSUME NEW c \in Control, Core(c), c.phase.by # "switch", NEW made \in SUBSET Messages, NEW dropped \in SUBSET Messages, Conserved(c, made, dropped),
         WakesLatched(c)
  PROVE  LET d == SwitchEnded(c) IN
         /\ Core(d) /\ Conserved(d, made, dropped) /\ Frame(c, d) /\ Clear(c, d) /\ NoNewTurn(c, d)
         /\ WakesLatched(d) /\ d.at.op = c.at.op /\ d.held = "no" /\ d.at.switch = "none"
<1> DEFINE e == [c EXCEPT !.held = "no", !.at.switch = "none"]
           d == WokenIf(e, c.held = "wake")
<1>1. SwitchEnded(c) = d
  BY DEF SwitchEnded
<1>2. /\ e.held = "no" /\ e.at = [c.at EXCEPT !.switch = "none"]
      /\ e.phase = c.phase /\ e.ops = c.ops /\ e.inbox = c.inbox /\ e.transcript = c.transcript
      /\ e.syncs = c.syncs /\ e.runtime = c.runtime /\ e.waiting = c.waiting
  BY DEF Control
<1>3. e \in Control
  <2>1. e.at \in [Flows -> Places]
    BY <1>2, Fields DEF Places
  <2>2. e = [c EXCEPT !.held = "no", !.at = e.at]
    BY <1>2
  <2>. QED BY <2>1, <2>2 DEF Control
<1> HIDE DEF e
<1>4. c.at.switch \notin Owning
  BY DEF Core, Owned, Flows
<1>5. e.at.switch = "none" /\ \A g \in Flows : g # "switch" => e.at[g] = c.at[g]
  BY <1>2, Fields DEF Flows
<1>6. Owned(e) /\ TurnIsClear(e) /\ Conserved(e, made, dropped)
  <2>1. Owned(e) /\ TurnIsClear(e)
    BY <1>2, <1>5 DEF Core, Owned, TurnIsClear, Flows, Owning, Starting
  <2>. QED BY <1>2, <1>3, <2>1, ConservedSame
<1>7. SyncsOwned(e)
  BY <1>2, <1>3, <1>4, <1>5, SyncsMoved, "switch" \in Flows DEF Core, Flows
<1>8. closing = "open" => Parked(e) \/ c.held = "wake" \/ Latched(e)
  BY <1>2 DEF WakesLatched, Parked, Latched, Pending
<1>9. (c.held = "wake") \in BOOLEAN
  OBVIOUS
<1>10. /\ Core(d) /\ Conserved(d, made, dropped) /\ Frame(e, d) /\ Clear(e, d) /\ NoNewTurn(e, d)
       /\ d.at.op = e.at.op /\ d.at.switch = e.at.switch /\ WakesLatched(d)
       /\ d.held = "no" <=> e.held = "no"
  BY <1>3, <1>6, <1>7, <1>8, <1>9, WokenIfOwned DEF Core
<1>. QED BY <1>1, <1>2, <1>5, <1>10 DEF Frame, Clear, NoNewTurn, Flows

(***************************************************************************)
(* The queues of those that await whenIdle.                                *)
(***************************************************************************)
LEMMA PlacedAppend ==
  ASSUME NEW s \in Seq(Callers), NEW gone \in Seq(Callers), NEW g \in Callers, NEW f,
         Placed(s, gone, f), g = f => ~In(s, f) /\ ~In(gone, f)
  PROVE  Placed(Append(s, g), gone, f) /\ (In(Append(s, g), f) <=> In(s, f) \/ g = f)
<1> DEFINE t == Append(s, g)
<1>1. /\ Len(t) = Len(s) + 1 /\ Len(s) \in Nat /\ t[Len(s) + 1] = g
      /\ \A i \in 1..Len(s) : i \in 1..Len(t) /\ t[i] = s[i]
  OBVIOUS
<1>2. \A i \in 1..Len(t) : i = Len(s) + 1 \/ i \in 1..Len(s)
  BY <1>1
<1>3. Len(s) + 1 \in 1..Len(t)
  BY <1>1
<1> HIDE DEF t
<1>4. In(t, f) <=> In(s, f) \/ g = f
  BY <1>1, <1>2, <1>3 DEF In
<1>5. Once(t, f)
  BY <1>1, <1>2 DEF Placed, Once, In
<1>6. Placed(t, gone, f)
  BY <1>4, <1>5 DEF Placed
<1>. QED BY <1>4, <1>6 DEF t

LEMMA PlacedRelease ==
  ASSUME NEW s \in Seq(Callers), NEW f, Placed(s, <<>>, f)
  PROVE  Placed(<<>>, s, f) /\ ~In(<<>>, f)
<1>1. Len(<<>>) = 0
  OBVIOUS
<1>2. ~In(<<>>, f) /\ Once(<<>>, f)
  BY <1>1 DEF In, Once
<1>. QED BY <1>2 DEF Placed

LEMMA PlacedTail ==
  ASSUME NEW s \in Seq(Callers), NEW gone \in Seq(Callers), NEW f, gone # <<>>, Placed(s, gone, f)
  PROVE  /\ Tail(gone) \in Seq(Callers)
         /\ Placed(s, Tail(gone), f) /\ (In(Tail(gone), f) => In(gone, f))
         /\ Head(gone) = f => In(gone, f) /\ ~In(Tail(gone), f) /\ ~In(s, f)
<1> DEFINE t == Tail(gone)
<1>1. /\ Len(t) = Len(gone) - 1 /\ Len(gone) \in Nat /\ Len(gone) > 0 /\ t \in Seq(Callers)
      /\ \A i \in 1..Len(t) : t[i] = gone[i + 1]
      /\ Head(gone) = gone[1]
  OBVIOUS
<1>2. \A i \in 1..Len(t) : i \in Nat /\ i + 1 \in 1..Len(gone) /\ i + 1 # 1
  BY <1>1
<1>3. 1 \in 1..Len(gone)
  BY <1>1
<1> HIDE DEF t
<1>4. In(t, f) => In(gone, f)
  BY <1>1, <1>2 DEF In
<1>5. Once(t, f)
  <2>1. \A i, j \in 1..Len(t) : gone[i + 1] = f /\ gone[j + 1] = f => i + 1 = j + 1
    BY <1>2 DEF Placed, Once
  <2>2. \A i, j \in 1..Len(t) : t[i] = f /\ t[j] = f => i + 1 = j + 1
    BY <1>1, <2>1
  <2>3. \A i, j \in 1..Len(t) : i \in Nat /\ j \in Nat /\ (i + 1 = j + 1 => i = j)
    BY <1>2
  <2>. QED BY <2>2, <2>3 DEF Once
<1>6. Head(gone) = f => In(gone, f) /\ ~In(t, f)
  BY <1>1, <1>2, <1>3 DEF Placed, Once, In
<1>. QED BY <1>1, <1>4, <1>5, <1>6 DEF Placed, t

(* What a step between two events does to operations, reservation, waiters. *)
Paired(c) ==
  /\ c.ops.pending = 0 <=> c.at.op = "none"
  /\ c.held = "no" <=> c.at.switch = "none"
  /\ closing = "closed" => c.runtime.life \in {"none", "closed"}

Keeps(c, d) ==
  /\ Paired(d)
  /\ \A g \in {"op", "switch"} : c.at[g] = "wait" => d.at[g] = "wait"
  /\ \/ d.waiting = c.waiting
     \/ \E g \in {"op", "switch"} :
          d.waiting = Append(c.waiting, g) /\ c.at[g] # "wait" /\ d.at[g] = "wait"
  /\ closing # "open" =>
       (d.phase.by = "turn" => c.phase.by = "turn") /\ d.ops.pending <= c.ops.pending

LEMMA QueuesKept ==
  ASSUME NEW c \in Control, NEW d \in Control, NEW gone \in Seq(Callers), Keeps(c, d),
         OpsQueued(c, gone), SwitchReserved(c, gone), Winding(c, gone, closing)
  PROVE  OpsQueued(d, gone) /\ SwitchReserved(d, gone) /\ Winding(d, gone, closing)
<1>1. c.waiting \in Seq(Callers) /\ d.ops.pending \in Nat /\ c.ops.pending \in Nat
  BY Fields
<1>2. /\ \A f \in {"op", "switch"} : Awaits(d, gone, f)
      /\ Placed(d.waiting, gone, "close") /\ (In(d.waiting, "close") => In(c.waiting, "close"))
  <2>1. CASE d.waiting = c.waiting
    BY <2>1 DEF Keeps, OpsQueued, SwitchReserved, Awaits, Winding
  <2>2. CASE d.waiting # c.waiting
    <3>1. PICK g \in {"op", "switch"} :
            d.waiting = Append(c.waiting, g) /\ c.at[g] # "wait" /\ d.at[g] = "wait"
      BY <2>2 DEF Keeps
    <3>2. g \in Callers
      BY DEF Callers, Flows
    <3>3. ~In(c.waiting, g) /\ ~In(gone, g)
      BY <3>1 DEF OpsQueued, SwitchReserved, Awaits
    <3>4. ASSUME NEW f \in {"op", "switch", "close"}
          PROVE  Placed(d.waiting, gone, f) /\ (In(d.waiting, f) => In(c.waiting, f) \/ g = f)
      <4>1. Placed(c.waiting, gone, f)
        BY DEF OpsQueued, SwitchReserved, Awaits, Winding
      <4>. QED BY <1>1, <3>1, <3>2, <3>3, <4>1, PlacedAppend
    <3>5. ASSUME NEW f \in {"op", "switch"} PROVE Awaits(d, gone, f)
      <4>1. Placed(d.waiting, gone, f) /\ (In(d.waiting, f) => In(c.waiting, f) \/ g = f)
        BY <3>4
      <4>. QED BY <3>1, <4>1 DEF Awaits, Keeps, OpsQueued, SwitchReserved
    <3>. QED BY <3>4, <3>5
  <2>. QED BY <2>1, <2>2
<1>3. OpsQueued(d, gone) /\ SwitchReserved(d, gone)
  BY <1>2 DEF Keeps, Paired, OpsQueued, SwitchReserved
<1>4. Winding(d, gone, closing)
  <2>1. In(d.waiting, "close") \/ In(gone, "close") => closing \in {"idle", "idle again"}
    BY <1>2 DEF Winding
  <2>2. In(gone, "close") \/ closing \in {"ops", "idle again", "process", "closed"} =>
          d.phase.by # "turn"
    BY DEF Winding, Keeps
  <2>3. closing \in {"idle again", "process", "closed"} => d.ops.pending = 0
    <3>1. closing \in {"idle again", "process", "closed"} =>
            c.ops.pending = 0 /\ d.ops.pending <= c.ops.pending
      BY DEF Winding, Keeps
    <3>2. d.ops.pending <= 0 => d.ops.pending = 0
      BY <1>1
    <3>. QED BY <3>1, <3>2
  <2>. QED BY <1>2, <2>1, <2>2, <2>3 DEF Winding, Keeps, Paired
<1>. QED BY <1>3, <1>4

(***************************************************************************)
(* The owner of the phase stops.                                           *)
(***************************************************************************)
Ready(c) == Owned(c) /\ TurnIsClear(c) /\ WakesLatched(c) /\ Paired(c)
Good(c, made, dropped) == Core(c) /\ Conserved(c, made, dropped) /\ WakesLatched(c)

LEMMA OnlyOwner ==
  ASSUME NEW c \in Control, NEW f \in Flows, Owned(c), SyncsOwned(c), c.phase.by = f,
         c.at[f] # "sync"
  PROVE  OnlyWatched(c)
BY IdleWatches DEF Owned, Owning

LEMMA RetiredSame ==
  ASSUME NEW c \in Control
  PROVE  LET d == Retired(c) IN
         /\ d \in Control /\ d.phase = c.phase /\ d.at = c.at /\ d.held = c.held /\ d.ops = c.ops
         /\ d.inbox = c.inbox /\ d.transcript = c.transcript /\ d.syncs = c.syncs
         /\ d.waiting = c.waiting /\ d.runtime.life = c.runtime.life
<1> DEFINE d == Retired(c)
<1>1. d.runtime = [c.runtime EXCEPT !.retired = TRUE, !.restart = TRUE] /\ c.runtime \in Runtimes
  BY DEF Retired, Control
<1>2. d.runtime \in Runtimes /\ d.runtime.life = c.runtime.life
  BY <1>1 DEF Runtimes
<1>3. d = [c EXCEPT !.runtime = d.runtime]
  BY <1>1 DEF Retired, Control
<1> HIDE DEF d
<1>4. d \in Control
  BY <1>2, <1>3 DEF Control
<1>5. /\ d.phase = c.phase /\ d.at = c.at /\ d.held = c.held /\ d.ops = c.ops
      /\ d.inbox = c.inbox /\ d.transcript = c.transcript /\ d.syncs = c.syncs
      /\ d.waiting = c.waiting
  BY <1>3 DEF Control
<1>. QED BY <1>2, <1>4, <1>5 DEF d

LEMMA SwitchStopped ==
  ASSUME NEW c \in Control, Owned(c), OnlyWatched(c), WakesLatched(c), Paired(c), c.phase.by = "switch",
         c.at.switch \in Owning,
         NEW made \in SUBSET Messages, NEW dropped \in SUBSET Messages, Conserved(c, made, dropped)
  PROVE  LET d == SwitchEnded(PhaseOver(c, "switch")) IN
         Good(d, made, dropped) /\ Clear(c, d) /\ Keeps(c, d)
<1> DEFINE e == PhaseOver(c, "switch")
           d == SwitchEnded(e)
<1>1. closing = "open" =>
        Parked(c) \/ c.held = "wake" \/ (c.ops.wake /\ c.ops.pending > 0) \/ c.phase.wake
  BY DEF WakesLatched, Parked
<1>2. c.held # "no"
  BY DEF Paired, Owning, Starting
<1>3. /\ Core(e) /\ Conserved(e, made, dropped) /\ Frame(c, e) /\ Clear(c, e) /\ WakesLatched(e)
      /\ closing # "open" => e.phase.by = "idle"
      /\ e.phase.by \in {"idle", "turn"}
      /\ e.at.op = c.at.op
      /\ e.held = "no" <=> c.held = "no"
  BY <1>1, PhaseOverOwned DEF Flows
<1>4. e.transcript = c.transcript
  BY <1>2, <1>3 DEF Clear
<1>5. e \in Control /\ e.phase.by # "switch"
  BY <1>3 DEF Core
<1> HIDE DEF e
<1>6. /\ Core(d) /\ Conserved(d, made, dropped) /\ Frame(e, d) /\ Clear(e, d) /\ NoNewTurn(e, d)
      /\ WakesLatched(d) /\ d.at.op = e.at.op /\ d.held = "no" /\ d.at.switch = "none"
  BY <1>3, <1>5, SwitchEndedOwned
<1> HIDE DEF d
<1>7. c.at.switch # "wait" /\ c.ops.pending <= c.ops.pending
  BY Fields DEF Owning, Starting
<1>8. Clear(c, d)
  BY <1>4, <1>6 DEF Clear
<1>9. Keeps(c, d)
  BY <1>3, <1>6, <1>7 DEF Keeps, Paired, Frame, NoNewTurn
<1>. QED BY <1>6, <1>8, <1>9 DEF Good, d, e

LEMMA OpStopped ==
  ASSUME NEW c \in Control, Owned(c), SyncsOwned(c), TurnIsClear(c), WakesLatched(c), Paired(c),
         c.phase.by = "op" => OnlyWatched(c), c.at.op \notin {"none", "wait"},
         NEW made \in SUBSET Messages, NEW dropped \in SUBSET Messages, Conserved(c, made, dropped)
  PROVE  LET d == OpOver(c) IN
         Good(d, made, dropped) /\ Clear(c, d) /\ Keeps(c, d)
<1> DEFINE d == OpOver(c)
<1>1. c.ops.pending > 0
  BY Fields DEF Paired
<1>2. /\ Core(d) /\ Conserved(d, made, dropped) /\ Clear(c, d) /\ NoNewTurn(c, d) /\ WakesLatched(d)
      /\ HeadMoved(c, d, c.ops.pending - 1) /\ d.runtime = c.runtime
      /\ d.at.switch = c.at.switch
      /\ d.held = "no" <=> c.held = "no"
  BY <1>1, OpOverOwned
<1> HIDE DEF d
<1>3. d.ops.pending <= c.ops.pending
  BY <1>2, Fields DEF HeadMoved
<1>4. d.ops.pending = 0 <=> d.at.op = "none"
  BY <1>1, <1>2, Fields DEF HeadMoved
<1>5. d.waiting = c.waiting \/ (d.waiting = Append(c.waiting, "op") /\ d.at.op = "wait")
  BY <1>2 DEF HeadMoved
<1>6. Keeps(c, d)
  BY <1>2, <1>3, <1>4, <1>5 DEF Keeps, Paired, NoNewTurn
<1>. QED BY <1>2, <1>6 DEF Good, d

LEMMA TurnStopped ==
  ASSUME NEW c \in Control, Ready(c), OnlyWatched(c), c.phase.by = "turn",
         NEW made \in SUBSET Messages, NEW dropped \in SUBSET Messages, Conserved(c, made, dropped)
  PROVE  LET d == TurnOver(c) IN
         Good(d, made, dropped) /\ Clear(c, d) /\ Keeps(c, d)
<1> DEFINE d == TurnOver(c)
<1>1. /\ Core(d) /\ Conserved(d, made, dropped) /\ Frame(c, d) /\ Clear(c, d) /\ NoNewTurn(c, d)
      /\ WakesLatched(d)
      /\ d.at.op = c.at.op /\ d.at.switch = c.at.switch
      /\ d.held = "no" <=> c.held = "no"
  BY TurnOverOwned DEF Ready
<1> HIDE DEF d
<1>2. c.ops.pending <= c.ops.pending
  BY Fields
<1>3. Keeps(c, d)
  BY <1>1, <1>2 DEF Keeps, Paired, Ready, Frame, NoNewTurn
<1>. QED BY <1>1, <1>3 DEF Good, d

LEMMA FailedOwned ==
  ASSUME NEW c \in Control, NEW f \in Flows, Ready(c), OnlyWatched(c), c.at[f] \in Owning,
         NEW made \in SUBSET Messages, NEW dropped \in SUBSET Messages, Conserved(c, made, dropped)
  PROVE  LET d == Failed(c, f) IN
         Good(d, made, dropped) /\ Clear(c, d) /\ Keeps(c, d)
<1>1. c.phase.by = f
  BY DEF Ready, Owned
<1>2. CASE f = "turn"
  BY <1>1, <1>2, TurnStopped DEF Failed
<1>3. CASE f = "op"
  <2>1. Failed(c, f) = OpOver(c)
    BY <1>3 DEF Failed
  <2>2. SyncsOwned(c)
    BY DEF OnlyWatched, SyncsOwned
  <2>3. c.at.op \notin {"none", "wait"}
    BY <1>3 DEF Owning, Starting
  <2>. QED BY <2>1, <2>2, <2>3, OpStopped DEF Ready
<1>4. CASE f = "switch"
  <2> DEFINE e == Retired(c)
  <2>1. Failed(c, f) = SwitchEnded(PhaseOver(e, "switch"))
    BY <1>4 DEF Failed
  <2>2. /\ e \in Control /\ e.phase = c.phase /\ e.at = c.at /\ e.held = c.held /\ e.ops = c.ops
        /\ e.inbox = c.inbox /\ e.transcript = c.transcript /\ e.syncs = c.syncs
        /\ e.waiting = c.waiting /\ e.runtime.life = c.runtime.life
    BY RetiredSame
  <2> HIDE DEF e
  <2>3. Owned(e) /\ OnlyWatched(e) /\ WakesLatched(e) /\ Paired(e)
    BY <2>2 DEF Ready, Owned, OnlyWatched, WakesLatched, Paired, Pending
  <2>4. Conserved(e, made, dropped)
    BY <2>2, ConservedSame
  <2> DEFINE d == SwitchEnded(PhaseOver(e, "switch"))
  <2>5. Good(d, made, dropped) /\ Clear(e, d) /\ Keeps(e, d)
    BY <1>1, <1>4, <2>2, <2>3, <2>4, SwitchStopped
  <2> HIDE DEF d
  <2>6. Clear(c, d) /\ Keeps(c, d)
    BY <2>2, <2>5 DEF Clear, Keeps
  <2>. QED BY <2>1, <2>5, <2>6 DEF d
<1>. QED BY <1>2, <1>3, <1>4 DEF Flows

(***************************************************************************)
(* Steps of the specification.                                             *)
(***************************************************************************)
ClearAt(c, stage) ==
  c.phase.by = "turn" /\ (c.held # "no" \/ stage # "open") => c.phase.aborted
LatchedAt(c, stage, parked) ==
  stage = "open" => Pending(c) \subseteq parked \/ Latched(c)

ClaimsClear ==
  transcript' # transcript /\ steering' = steering =>
    held' = "no" /\ ops'.pending = 0 /\ closing' = "open"

LEMMA Became ==
  ASSUME NEW d \in Control, Become(d)
  PROVE  Now' = d
<1>1. d = [phase |-> d.phase, at |-> d.at, held |-> d.held, ops |-> d.ops, inbox |-> d.inbox,
           transcript |-> d.transcript, sandbox |-> d.sandbox, runtime |-> d.runtime,
           goal |-> d.goal, syncs |-> d.syncs, waiting |-> d.waiting]
  BY DEF Control
<1>. QED BY <1>1 DEF Become, Now

LEMMA Carried ==
  ASSUME NEW d \in Control, Become(d), Owned(d), SyncsOwned(d),
         ClearAt(d, closing'), LatchedAt(d, closing', kept'.caller \cup kept'.switch),
         Conserved(d, sent', discarded'),
         OpsQueued(d, released'), SwitchReserved(d, released'), Winding(d, released', closing')
  PROVE  Now' \in Control /\ AgentInv'
<1>1. Now' = d
  BY Became
<1>2. Owned(Now)' /\ SyncsOwned(Now)'
  BY <1>1 DEF Owned, SyncsOwned
<1>3. TurnIsClear(Now)'
  BY <1>1 DEF TurnIsClear, ClearAt
<1>4. WakesLatched(Now)'
  BY <1>1 DEF WakesLatched, LatchedAt, Latched, Pending
<1>5. Conserved(Now, sent, discarded)'
  BY <1>1 DEF Conserved, Distinct, Recorded, Pending
<1>6. OpsQueued(Now, released)' /\ SwitchReserved(Now, released)'
  BY <1>1 DEF OpsQueued, SwitchReserved, Awaits, Placed, Once, In
<1>7. Winding(Now, released, closing)'
  BY <1>1 DEF Winding, Placed, Once, In
<1>. QED BY <1>1, <1>2, <1>3, <1>4, <1>5, <1>6, <1>7 DEF AgentInv

LEMMA QuietStep ==
  ASSUME TypeOK, AgentInv, NEW d \in Control, Become(d), Good(d, sent', discarded'), Keeps(Now, d),
         closing' = closing, kept' = kept, released' = released,
         Clear(Now, d) \/ steering' # steering
  PROVE  Now' \in Control /\ AgentInv' /\ ClaimsClear
<1>1. Now \in Control /\ released \in Seq(Callers)
  BY DEF TypeOK
<1>2. OpsQueued(d, released) /\ SwitchReserved(d, released) /\ Winding(d, released, closing)
  BY <1>1, QueuesKept DEF AgentInv
<1>3. ClearAt(d, closing') /\ LatchedAt(d, closing', kept'.caller \cup kept'.switch)
  BY DEF Good, Core, TurnIsClear, ClearAt, WakesLatched, LatchedAt, Latched
<1>4. Now' \in Control /\ AgentInv'
  BY <1>2, <1>3, Carried DEF Good, Core
<1>5. ClaimsClear
  BY DEF ClaimsClear, Clear, Now, Become
<1>. QED BY <1>4, <1>5

LEMMA NowIs ==
  /\ Now.phase = phase /\ Now.at = at /\ Now.held = held /\ Now.ops = ops /\ Now.inbox = inbox
  /\ Now.transcript = transcript /\ Now.sandbox = sandbox /\ Now.runtime = runtime
  /\ Now.goal = goal /\ Now.syncs = syncs /\ Now.waiting = waiting
BY DEF Now

LEMMA NowReady ==
  ASSUME TypeOK, AgentInv
  PROVE  /\ Now \in Control /\ Ready(Now) /\ SyncsOwned(Now) /\ Conserved(Now, sent, discarded)
         /\ sent \in SUBSET Messages /\ discarded \in SUBSET Messages
         /\ Good(Now, sent, discarded)
BY DEF TypeOK, AgentInv, Ready, Paired, OpsQueued, SwitchReserved, Winding, Good, Core

(* A step that moves nothing but the flows, the runtime and its requests.   *)
Beside(c, d) ==
  /\ d.phase = c.phase /\ d.held = c.held /\ d.ops = c.ops /\ d.inbox = c.inbox
  /\ d.transcript = c.transcript /\ d.waiting = c.waiting
  /\ closing = "closed" => d.runtime.life \in {"none", "closed"}

LEMMA MovedStep ==
  ASSUME TypeOK, AgentInv, NEW d \in Control, Become(d), Beside(Now, d), Owned(d), SyncsOwned(d),
         \A g \in {"op", "switch"} :
           (d.at[g] = "none" <=> at[g] = "none") /\ (at[g] = "wait" => d.at[g] = "wait"),
         closing' = closing, kept' = kept, released' = released,
         sent' = sent, discarded' = discarded
  PROVE  Now' \in Control /\ AgentInv' /\ ClaimsClear
<1>1. /\ Now \in Control /\ Ready(Now) /\ Conserved(Now, sent, discarded)
      /\ sent \in SUBSET Messages /\ discarded \in SUBSET Messages
  BY NowReady
<1>2. Conserved(d, sent, discarded)
  BY <1>1, ConservedSame DEF Beside
<1>3. TurnIsClear(d) /\ WakesLatched(d)
  BY <1>1 DEF Beside, Ready, TurnIsClear, WakesLatched, Pending
<1>4. Now.ops.pending <= Now.ops.pending
  BY <1>1, Fields
<1>5. Keeps(Now, d)
  BY <1>1, <1>4, NowIs DEF Keeps, Paired, Ready, Beside
<1>6. Clear(Now, d)
  BY DEF Clear, Beside
<1>. QED BY <1>2, <1>3, <1>5, <1>6, QuietStep DEF Good, Core

(* What the owner of the phase awaited fails.                               *)
LEMMA FailedStep ==
  ASSUME TypeOK, AgentInv, NEW c \in Control, NEW f \in Flows, Beside(Now, c), c.at = at,
         at[f] \in Owning, OnlyWatched(c), Become(Failed(c, f)),
         closing' = closing, kept' = kept, released' = released,
         sent' = sent, discarded' = discarded
  PROVE  Now' \in Control /\ AgentInv' /\ ClaimsClear
<1> DEFINE d == Failed(c, f)
<1>1. /\ Now \in Control /\ Ready(Now) /\ Conserved(Now, sent, discarded)
      /\ sent \in SUBSET Messages /\ discarded \in SUBSET Messages
  BY NowReady
<1>2. Ready(c)
  BY <1>1, NowIs DEF Beside, Ready, Owned, TurnIsClear, WakesLatched, Paired, Pending
<1>3. Conserved(c, sent, discarded)
  BY <1>1, ConservedSame DEF Beside
<1>4. Good(d, sent, discarded) /\ Clear(c, d) /\ Keeps(c, d)
  BY <1>1, <1>2, <1>3, FailedOwned
<1> HIDE DEF d
<1>5. Clear(Now, d) /\ Keeps(Now, d)
  BY <1>4, NowIs DEF Clear, Keeps, Beside
<1>. QED BY <1>4, <1>5, QuietStep DEF Good, Core, d

With(c, a, r, s, g, mode) ==
  [c EXCEPT !.at = a, !.runtime = r, !.syncs = s, !.goal = g, !.sandbox = mode]

Fit(a, r, s, g, mode) ==
  /\ a \in [Flows -> Places] /\ r \in Runtimes /\ s \in Seq(Requests)
  /\ g \in Modes /\ mode \in Modes

LEMMA Replaced ==
  ASSUME NEW c \in Control, NEW a, NEW r, NEW s, NEW g, NEW mode, Fit(a, r, s, g, mode)
  PROVE  LET d == With(c, a, r, s, g, mode) IN
         /\ d \in Control /\ d.at = a /\ d.runtime = r /\ d.syncs = s /\ d.goal = g /\ d.sandbox = mode
         /\ d.phase = c.phase /\ d.held = c.held /\ d.ops = c.ops /\ d.inbox = c.inbox
         /\ d.transcript = c.transcript /\ d.waiting = c.waiting
BY DEF Control, With, Fit

(* The owner f of the phase goes on to another await of its own.            *)
LEMMA OwnerMoved ==
  ASSUME TypeOK, AgentInv, NEW f \in Flows, NEW p \in (Owning \ {"sync"}) \cup {"build", "run"},
         at[f] \in Owning, p = "build" => f = "turn", p = "run" => f = "op",
         NEW d \in Control, Beside(Now, d), d.at = [at EXCEPT ![f] = p], OnlyWatched(d)
  PROVE  /\ Owned(d) /\ SyncsOwned(d)
         /\ \A g \in {"op", "switch"} :
              (d.at[g] = "none" <=> at[g] = "none") /\ (at[g] = "wait" => d.at[g] = "wait")
<1>1. Owned(Now) /\ at \in [Flows -> Places]
  BY NowIs, NowReady, Fields DEF Ready
<1>2. phase.by = f
  BY <1>1, NowIs DEF Owned
<1>3. d.at[f] = p /\ \A g \in Flows : g # f => d.at[g] = at[g]
  BY <1>1
<1>4. Owned(d)
  BY <1>1, <1>2, <1>3, NowIs DEF Owned, Beside, Flows, Owning, Starting
<1>5. SyncsOwned(d)
  BY DEF SyncsOwned, OnlyWatched
<1>6. ASSUME NEW g \in {"op", "switch"}
      PROVE  (d.at[g] = "none" <=> at[g] = "none") /\ (at[g] = "wait" => d.at[g] = "wait")
  BY <1>3 DEF Owning, Starting, Flows
<1>. QED BY <1>4, <1>5, <1>6

LEMMA OwnerWatches ==
  ASSUME TypeOK, AgentInv, NEW f \in Flows, at[f] \in Owning \ {"sync"}
  PROVE  OnlyWatched(Now)
<1>1. Now \in Control /\ Owned(Now) /\ SyncsOwned(Now) /\ Now.at = at
  BY NowReady, NowIs DEF Ready
<1>2. Now.phase.by = f
  BY <1>1 DEF Owned
<1>. QED BY <1>1, <1>2, OnlyOwner

LEMMA ReplaceRuntimeStep ==
  ASSUME TypeOK, AgentInv, NEW f \in Flows, ReplaceRuntime(f)
  PROVE  Now' \in Control /\ AgentInv' /\ ClaimsClear
<1>1. /\ at[f] = "close" /\ closing' = closing /\ kept' = kept /\ released' = released
      /\ sent' = sent /\ discarded' = discarded
  BY DEF ReplaceRuntime, Answer, input
<1>2. /\ Now \in Control /\ OnlyWatched(Now) /\ Now.runtime \in Runtimes
      /\ Now.at \in [Flows -> Places] /\ Now.syncs \in Seq(Requests)
      /\ Now.goal \in Modes /\ Now.sandbox \in Modes
  BY <1>1, OwnerWatches, NowReady, Fields DEF Owning
<1>3. at[f] \in Owning /\ Now.at = at
  BY <1>1, NowIs DEF Owning
<1> DEFINE empty == <<>>
<1>7. empty \in Seq(Requests) /\ Len(empty) = 0
  OBVIOUS
<1>4. CASE phase.aborted
  <2> DEFINE r == [Now.runtime EXCEPT !.life = IF @ = "none" THEN "none" ELSE "closed"]
             c == With(Now, Now.at, r, Now.syncs, Now.goal, Now.sandbox)
  <2>1. Become(Failed(c, f))
    <3>1. c = [Now EXCEPT !.runtime.life = IF @ = "none" THEN "none" ELSE "closed"]
      BY <1>2 DEF Control, With
    <3>. QED BY <1>4, <3>1 DEF ReplaceRuntime
  <2>2. r \in Runtimes /\ r.life \in {"none", "closed"}
    BY <1>2 DEF Runtimes
  <2> HIDE DEF r
  <2>3. /\ c \in Control /\ c.at = at /\ Beside(Now, c) /\ c.syncs = Now.syncs
    <3>1. Fit(Now.at, r, Now.syncs, Now.goal, Now.sandbox)
      BY <1>2, <2>2 DEF Fit
    <3>. QED BY <1>2, <1>3, <2>2, <3>1, Replaced DEF Beside
  <2> HIDE DEF c
  <2>4. OnlyWatched(c)
    BY <1>2, <2>3 DEF OnlyWatched
  <2>. QED BY <1>1, <1>3, <2>1, <2>3, <2>4, FailedStep
<1>5. CASE ~phase.aborted /\ Ended
  <2> DEFINE r == [Now.runtime EXCEPT !.life = "none", !.retired = TRUE]
             c == With(Now, Now.at, r, empty, Now.goal, Now.sandbox)
  <2>1. Become(Failed(c, f))
    <3>1. c = [Now EXCEPT !.runtime.life = "none", !.runtime.retired = TRUE, !.syncs = <<>>]
      BY <1>2 DEF Control, With
    <3>. QED BY <1>5, <3>1 DEF ReplaceRuntime
  <2>2. r \in Runtimes /\ r.life \in {"none", "closed"}
    BY <1>2 DEF Runtimes
  <2> HIDE DEF r, empty
  <2>3. /\ c \in Control /\ c.at = at /\ Beside(Now, c) /\ c.syncs = empty
    <3>1. Fit(Now.at, r, empty, Now.goal, Now.sandbox)
      BY <1>2, <1>7, <2>2 DEF Fit
    <3>2. Now \in Control /\ Now.at = at /\ r.life \in {"none", "closed"}
      BY <1>2, <1>3, <2>2
    <3>. QED BY <3>1, <3>2, Replaced DEF Beside
  <2> HIDE DEF c
  <2>4. OnlyWatched(c)
    BY <1>7, <2>3 DEF OnlyWatched
  <2>. QED BY <1>1, <1>3, <2>1, <2>3, <2>4, FailedStep
<1>6. CASE ~phase.aborted /\ ~Ended
  <2> DEFINE a == [at EXCEPT ![f] = "start"]
             r == [Now.runtime EXCEPT !.life = "spawned", !.retired = FALSE]
             d == With(Now, a, r, empty, Now.goal, Now.sandbox)
  <2>1. Become(d)
    <3>1. d = [Now EXCEPT !.at[f] = "start", !.syncs = <<>>,
                 !.runtime = [@ EXCEPT !.life = "spawned", !.retired = FALSE]]
      BY <1>2, <1>3 DEF Control, With
    <3>. QED BY <1>6, <3>1 DEF ReplaceRuntime
  <2>2. r \in Runtimes
    BY <1>2 DEF Runtimes
  <2>3. a \in [Flows -> Places]
    BY <1>2, <1>3 DEF Places, Owning, Starting
  <2> HIDE DEF r, a, empty
  <2>4. /\ d \in Control /\ d.at = a /\ Beside(Now, d) /\ d.syncs = empty
    <3>1. Fit(a, r, empty, Now.goal, Now.sandbox)
      BY <1>2, <1>7, <2>2, <2>3 DEF Fit
    <3>2. Now \in Control /\ closing # "closed"
      BY <1>2, <1>6 DEF Ended
    <3>. QED BY <3>1, <3>2, Replaced DEF Beside
  <2> HIDE DEF d
  <2>5. OnlyWatched(d) /\ "start" \in Owning \ {"sync"}
    BY <1>7, <2>4 DEF OnlyWatched, Owning, Starting
  <2>6. /\ Owned(d) /\ SyncsOwned(d)
        /\ \A g \in {"op", "switch"} :
             (d.at[g] = "none" <=> at[g] = "none") /\ (at[g] = "wait" => d.at[g] = "wait")
    BY <1>3, <2>4, <2>5, OwnerMoved DEF a
  <2>. QED BY <1>1, <2>1, <2>4, <2>6, MovedStep
<1>. QED BY <1>4, <1>5, <1>6

LEMMA OwnerStep ==
  ASSUME TypeOK, AgentInv, NEW f \in Flows, NEW p \in {"load", "mode"}, NEW r \in Runtimes,
         at[f] \in Owning \ {"sync"}, closing # "closed",
         Become(With(Now, [at EXCEPT ![f] = p], r, Now.syncs, Now.goal, Now.sandbox)),
         closing' = closing, kept' = kept, released' = released,
         sent' = sent, discarded' = discarded
  PROVE  Now' \in Control /\ AgentInv' /\ ClaimsClear
<1> DEFINE a == [at EXCEPT ![f] = p]
           d == With(Now, a, r, Now.syncs, Now.goal, Now.sandbox)
<1>1. Now \in Control /\ Now.at = at /\ OnlyWatched(Now)
  BY NowReady, NowIs, OwnerWatches
<1>2. Fit(a, r, Now.syncs, Now.goal, Now.sandbox)
  <2>1. at \in [Flows -> Places] /\ p \in Places
    BY <1>1, Fields DEF Places, Owning, Starting
  <2>2. a \in [Flows -> Places]
    BY <2>1
  <2> HIDE DEF a
  <2>. QED BY <1>1, <2>2, Fields DEF Fit
<1> HIDE DEF a
<1>3. d \in Control /\ d.at = a /\ Beside(Now, d) /\ d.syncs = Now.syncs
  BY <1>1, <1>2, Replaced DEF Beside
<1>4. OnlyWatched(d)
  BY <1>1, <1>3 DEF OnlyWatched
<1>5. p \in (Owning \ {"sync"}) \cup {"build", "run"} /\ p # "build" /\ p # "run"
  BY DEF Owning, Starting
<1> HIDE DEF d
<1>6. /\ Owned(d) /\ SyncsOwned(d)
      /\ \A g \in {"op", "switch"} :
           (d.at[g] = "none" <=> at[g] = "none") /\ (at[g] = "wait" => d.at[g] = "wait")
  BY <1>3, <1>4, <1>5, OwnerMoved DEF a
<1>. QED BY <1>3, <1>6, MovedStep DEF d, a

(* A live process is none of a closed agent's.                              *)
LEMMA AliveOpen ==
  ASSUME TypeOK, AgentInv, runtime.life \notin {"none", "closed"}
  PROVE  closing # "closed"
BY NowIs DEF AgentInv, Winding

LEMMA InitializedStep ==
  ASSUME TypeOK, AgentInv, NEW f \in Flows, Initialized(f)
  PROVE  Now' \in Control /\ AgentInv' /\ ClaimsClear
<1> DEFINE r == [runtime EXCEPT !.life = "linked"]
           d == With(Now, [at EXCEPT ![f] = "load"], r, Now.syncs, Now.goal, Now.sandbox)
<1>1. Now \in Control /\ Now.at = at /\ Now.runtime = runtime /\ runtime \in Runtimes
  BY NowReady, NowIs, Fields
<1>2. d = [Now EXCEPT !.at[f] = "load", !.runtime.life = "linked"]
  BY <1>1 DEF Control, With
<1>3. Become(d)
  BY <1>2 DEF Initialized
<1>4. r \in Runtimes
  BY <1>1 DEF Runtimes
<1>5. closing # "closed"
  BY AliveOpen DEF Initialized
<1>6. /\ at[f] \in Owning \ {"sync"} /\ closing' = closing /\ kept' = kept /\ released' = released
      /\ sent' = sent /\ discarded' = discarded
  BY DEF Initialized, Answer, input, Owning, Starting
<1> HIDE DEF r
<1>. QED BY <1>3, <1>4, <1>5, <1>6, OwnerStep

LEMMA LoadedStep ==
  ASSUME TypeOK, AgentInv, NEW f \in Flows, Loaded(f)
  PROVE  Now' \in Control /\ AgentInv' /\ ClaimsClear
<1>1. Now \in Control /\ Now.at = at /\ Now.runtime = runtime /\ runtime \in Runtimes
  BY NowReady, NowIs, Fields
<1>2. PICK mode \in Modes :
        Become([Now EXCEPT !.at[f] = "mode", !.runtime.life = "up", !.runtime.mode = mode])
  BY DEF Loaded
<1> DEFINE r == [runtime EXCEPT !.life = "up", !.mode = mode]
           d == With(Now, [at EXCEPT ![f] = "mode"], r, Now.syncs, Now.goal, Now.sandbox)
<1>3. d = [Now EXCEPT !.at[f] = "mode", !.runtime.life = "up", !.runtime.mode = mode]
  BY <1>1 DEF Control, With
<1>4. Become(d)
  BY <1>2, <1>3
<1>5. r \in Runtimes
  BY <1>1 DEF Runtimes
<1>6. closing # "closed"
  BY AliveOpen DEF Loaded
<1>7. /\ at[f] \in Owning \ {"sync"} /\ closing' = closing /\ kept' = kept /\ released' = released
      /\ sent' = sent /\ discarded' = discarded
  BY DEF Loaded, Answer, input, Owning, Starting
<1> HIDE DEF r
<1>. QED BY <1>4, <1>5, <1>6, <1>7, OwnerStep

LEMMA StartedStep ==
  ASSUME TypeOK, AgentInv, NEW f \in Flows, Started(f)
  PROVE  Now' \in Control /\ AgentInv' /\ ClaimsClear
<1> DEFINE r == [Now.runtime EXCEPT !.mode = goal, !.restart = FALSE]
           c == With(Now, Now.at, r, Now.syncs, Now.goal, Now.sandbox)
           mode == IF f = "switch" THEN goal ELSE sandbox
           d == Synced(c, f, mode)
<1>1. /\ at[f] = "mode" /\ closing' = closing /\ kept' = kept /\ released' = released
      /\ sent' = sent /\ discarded' = discarded /\ closing # "closed"
  BY DEF Started, Answer, input, Ended
<1>2. /\ Now \in Control /\ Now.at = at /\ Now.runtime \in Runtimes /\ goal \in Modes
      /\ sandbox \in Modes /\ Owned(Now) /\ Now.phase = phase
  BY NowReady, NowIs, Fields DEF Ready
<1>3. Become(d)
  <2>1. c = [Now EXCEPT !.runtime.mode = goal, !.runtime.restart = FALSE]
    BY <1>2 DEF Control, With
  <2>. QED BY <2>1 DEF Started
<1>4. OnlyWatched(Now)
  BY <1>1, OwnerWatches DEF Owning, Starting
<1>5. r \in Runtimes
  BY <1>2 DEF Runtimes
<1> HIDE DEF r
<1>6. Fit(Now.at, r, Now.syncs, Now.goal, Now.sandbox)
  BY <1>2, <1>5, Fields DEF Fit
<1>7. c \in Control /\ c.at = at /\ Beside(Now, c) /\ c.syncs = Now.syncs
  BY <1>1, <1>2, <1>6, Replaced DEF Beside
<1> HIDE DEF c
<1>8. OnlyWatched(c) /\ mode \in Modes
  BY <1>2, <1>4, <1>7 DEF OnlyWatched
<1> HIDE DEF mode
<1>9. /\ d \in Control /\ SyncsOwned(d) /\ d.at = [at EXCEPT ![f] = "sync"] /\ Beside(Now, d)
  BY <1>1, <1>7, <1>8, SyncedOwned DEF Beside
<1> HIDE DEF d
<1>10. phase.by = f /\ at \in [Flows -> Places]
  BY <1>1, <1>2, Fields DEF Owned, Owning, Starting
<1>11. d.at[f] = "sync" /\ \A g \in Flows : g # f => d.at[g] = at[g]
  BY <1>9, <1>10
<1>12. Owned(d)
  BY <1>1, <1>2, <1>9, <1>10, <1>11 DEF Owned, Beside, Flows, Owning, Starting
<1>13. \A g \in {"op", "switch"} :
         (d.at[g] = "none" <=> at[g] = "none") /\ (at[g] = "wait" => d.at[g] = "wait")
  BY <1>1, <1>11 DEF Flows
<1>. QED BY <1>1, <1>3, <1>9, <1>12, <1>13, MovedStep

LEMMA StartFailsStep ==
  ASSUME TypeOK, AgentInv, NEW f \in Flows, StartFails(f)
  PROVE  Now' \in Control /\ AgentInv' /\ ClaimsClear
<1> DEFINE r == [Now.runtime EXCEPT !.life = "none", !.retired = TRUE]
           c == With(Now, Now.at, r, Now.syncs, Now.goal, Now.sandbox)
<1>1. /\ at[f] \in Owning \ {"sync"} /\ closing' = closing /\ kept' = kept /\ released' = released
      /\ sent' = sent /\ discarded' = discarded
  BY DEF StartFails, Answer, input, Owning, Starting
<1>2. Now \in Control /\ Now.at = at /\ Now.runtime \in Runtimes
  BY NowReady, NowIs, Fields
<1>3. Become(Failed(c, f))
  <2>1. c = [Now EXCEPT !.runtime.life = "none", !.runtime.retired = TRUE]
    BY <1>2 DEF Control, With
  <2>. QED BY <2>1 DEF StartFails
<1>4. r \in Runtimes /\ r.life = "none"
  BY <1>2 DEF Runtimes
<1> HIDE DEF r
<1>5. Fit(Now.at, r, Now.syncs, Now.goal, Now.sandbox)
  BY <1>2, <1>4, Fields DEF Fit
<1>6. c \in Control /\ c.at = at /\ Beside(Now, c) /\ c.syncs = Now.syncs
  BY <1>2, <1>4, <1>5, Replaced DEF Beside
<1> HIDE DEF c
<1>7. OnlyWatched(c)
  BY <1>1, <1>6, OwnerWatches DEF OnlyWatched
<1>. QED BY <1>1, <1>3, <1>6, <1>7, FailedStep

(***************************************************************************)
(* The chain of mode requests.                                             *)
(***************************************************************************)
LEMMA QueuedWatch ==
  ASSUME NEW c \in Control, NEW mode \in Modes, SyncsOwned(c)
  PROVE  LET d == Queued(c, "watch", mode) IN
         /\ d \in Control /\ SyncsOwned(d) /\ (OnlyWatched(c) => OnlyWatched(d))
         /\ d.phase = c.phase /\ d.at = c.at /\ d.held = c.held /\ d.ops = c.ops
         /\ d.inbox = c.inbox /\ d.transcript = c.transcript /\ d.waiting = c.waiting
         /\ d.runtime = c.runtime
<1> DEFINE d == Queued(c, "watch", mode)
           s == [by |-> "watch", mode |-> mode]
           t == Append(c.syncs, s)
<1>1. d = [c EXCEPT !.syncs = t]
  BY DEF Queued
<1>2. s \in Requests /\ s.by = "watch"
  BY DEF Requests
<1>3. /\ t \in Seq(Requests) /\ Len(t) = Len(c.syncs) + 1 /\ Len(c.syncs) \in Nat
      /\ t[Len(c.syncs) + 1] = s /\ \A i \in 1..Len(c.syncs) : t[i] = c.syncs[i]
  BY <1>2, Fields
<1> HIDE DEF t, s, d
<1>4. /\ d \in Control /\ d.syncs = t
      /\ d.phase = c.phase /\ d.at = c.at /\ d.held = c.held /\ d.ops = c.ops
      /\ d.inbox = c.inbox /\ d.transcript = c.transcript /\ d.waiting = c.waiting
      /\ d.runtime = c.runtime
  BY <1>1, <1>3 DEF Control
<1>5. \A i \in 1..Len(t) : t[i].by # "watch" => i \in 1..Len(c.syncs)
  BY <1>2, <1>3
<1>6. SyncsOwned(d)
  BY <1>3, <1>4, <1>5 DEF SyncsOwned
<1>7. OnlyWatched(c) => OnlyWatched(d)
  BY <1>3, <1>4, <1>5 DEF OnlyWatched
<1>. QED BY <1>4, <1>6, <1>7 DEF d

LEMMA SyncsAnswered ==
  ASSUME NEW c \in Control, SyncsOwned(c), c.syncs # <<>>, NEW d, d.syncs = Tail(c.syncs), d.at = c.at
  PROVE  /\ Head(c.syncs) \in Requests /\ Tail(c.syncs) \in Seq(Requests) /\ SyncsOwned(d)
         /\ Head(c.syncs).by # "watch" => c.at[Head(c.syncs).by] = "sync" /\ OnlyWatched(d)
<1> DEFINE q == c.syncs
           t == Tail(c.syncs)
<1>1. /\ q \in Seq(Requests) /\ Len(q) \in Nat /\ Len(q) > 0 /\ t \in Seq(Requests)
      /\ Len(t) = Len(q) - 1 /\ Head(q) = q[1] /\ q[1] \in Requests
      /\ \A i \in 1..Len(t) : t[i] = q[i + 1]
  BY Fields
<1>2. /\ 1 \in 1..Len(q)
      /\ \A i \in 1..Len(t) : i \in Nat /\ i + 1 \in 1..Len(q) /\ i + 1 # 1
  BY <1>1
<1>3. \A i, j \in Nat : i + 1 = j + 1 => i = j
  OBVIOUS
<1>4. \A i \in 1..Len(q) : q[i].by # "watch" =>
        c.at[q[i].by] = "sync" /\ \A j \in 1..Len(q) : q[j].by # "watch" => j = i
  BY DEF SyncsOwned
<1> HIDE DEF q, t
<1>5. d.syncs = t
  BY DEF t
<1>6. SyncsOwned(d)
  BY <1>1, <1>2, <1>3, <1>4, <1>5 DEF SyncsOwned
<1>7. q[1].by # "watch" => c.at[q[1].by] = "sync" /\ OnlyWatched(d)
  BY <1>1, <1>2, <1>4, <1>5 DEF OnlyWatched
<1>. QED BY <1>1, <1>6, <1>7 DEF q, t

LEMMA WatchFails ==
  ASSUME TypeOK, AgentInv, NEW c \in Control, Beside(Now, c), c.at = at, SyncsOwned(c),
         Become(Failed(c, "watch")),
         closing' = closing, kept' = kept, released' = released,
         sent' = sent, discarded' = discarded
  PROVE  Now' \in Control /\ AgentInv' /\ ClaimsClear
<1> DEFINE d == Failed(c, "watch")
<1>1. d = c \/ d = Retired(c)
  BY DEF Failed
<1>2. /\ d \in Control /\ d.phase = c.phase /\ d.at = c.at /\ d.held = c.held /\ d.ops = c.ops
      /\ d.inbox = c.inbox /\ d.transcript = c.transcript /\ d.syncs = c.syncs
      /\ d.waiting = c.waiting /\ d.runtime.life = c.runtime.life
  BY <1>1, RetiredSame
<1> HIDE DEF d
<1>3. Beside(Now, d) /\ d.at = at /\ SyncsOwned(d)
  BY <1>2 DEF Beside, SyncsOwned
<1>4. Owned(Now) /\ Now.at = at
  BY NowReady, NowIs DEF Ready
<1>5. Owned(d)
  BY <1>3, <1>4 DEF Owned, Beside
<1>. QED BY <1>2, <1>3, <1>5, MovedStep DEF d

(* The request of the owner f of the phase succeeds.                        *)
LEMMA SyncOkStep ==
  ASSUME TypeOK, AgentInv, NEW c \in Control, NEW f \in Flows, Beside(Now, c), c.at = at,
         at[f] = "sync", OnlyWatched(c), Become(SyncOk(c, f)),
         closing' = closing, kept' = kept, released' = released,
         sent' = sent, discarded' = discarded
  PROVE  Now' \in Control /\ AgentInv' /\ ClaimsClear
<1>1. /\ Now \in Control /\ Now.at = at /\ Now.phase = phase /\ Ready(Now)
      /\ Conserved(Now, sent, discarded) /\ at \in [Flows -> Places]
      /\ sent \in SUBSET Messages /\ discarded \in SUBSET Messages
  BY NowReady, NowIs, Fields
<1>2. phase.by = f /\ at[f] \in Owning
  BY <1>1 DEF Ready, Owned, Owning
<1>3. ASSUME NEW p \in {"build", "run"}, p = "build" => f = "turn", p = "run" => f = "op",
             Become([c EXCEPT !.at[f] = p])
      PROVE  Now' \in Control /\ AgentInv' /\ ClaimsClear
  <2> DEFINE a == [at EXCEPT ![f] = p]
             d == With(c, a, c.runtime, c.syncs, c.goal, c.sandbox)
  <2>1. d = [c EXCEPT !.at[f] = p]
    BY DEF Control, With
  <2>2. Become(d)
    BY <1>3, <2>1
  <2>3. a \in [Flows -> Places]
    BY <1>1 DEF Places
  <2> HIDE DEF a
  <2>4. Fit(a, c.runtime, c.syncs, c.goal, c.sandbox)
    BY <2>3, Fields DEF Fit
  <2>5. d \in Control /\ d.at = a /\ Beside(Now, d) /\ d.syncs = c.syncs
    BY <2>4, Replaced DEF Beside
  <2> HIDE DEF d
  <2>6. OnlyWatched(d) /\ p \in (Owning \ {"sync"}) \cup {"build", "run"}
    BY <2>5 DEF OnlyWatched
  <2>7. /\ Owned(d) /\ SyncsOwned(d)
        /\ \A g \in {"op", "switch"} :
             (d.at[g] = "none" <=> at[g] = "none") /\ (at[g] = "wait" => d.at[g] = "wait")
    BY <1>2, <1>3, <2>5, <2>6, OwnerMoved DEF a
  <2>. QED BY <2>2, <2>5, <2>7, MovedStep
<1>4. CASE f = "turn"
  BY <1>3, <1>4 DEF SyncOk
<1>5. CASE f = "op"
  BY <1>3, <1>5 DEF SyncOk
<1>6. CASE f = "switch"
  <2> DEFINE b == With(c, c.at, c.runtime, c.syncs, c.goal, c.goal)
             e == Queued(b, "watch", c.goal)
             d == SwitchEnded(PhaseOver(e, "switch"))
  <2>1. Become(d)
    <3>1. b = [c EXCEPT !.sandbox = c.goal]
      BY DEF Control, With
    <3>. QED BY <1>6, <3>1 DEF SyncOk, Committed
  <2>2. c.goal \in Modes
    BY Fields
  <2>3. Fit(c.at, c.runtime, c.syncs, c.goal, c.goal)
    BY Fields DEF Fit
  <2>4. b \in Control /\ b.at = at /\ Beside(Now, b) /\ b.syncs = c.syncs
    BY <2>3, Replaced DEF Beside
  <2> HIDE DEF b
  <2>5. OnlyWatched(b) /\ SyncsOwned(b)
    BY <2>4 DEF OnlyWatched, SyncsOwned
  <2>6. e \in Control /\ e.at = at /\ Beside(Now, e) /\ OnlyWatched(e)
    BY <2>2, <2>4, <2>5, QueuedWatch DEF Beside
  <2> HIDE DEF e
  <2>7. Ready(e)
    BY <1>1, <2>6, NowIs DEF Beside, Ready, Owned, TurnIsClear, WakesLatched, Paired, Pending
  <2>8. Conserved(e, sent, discarded)
    BY <1>1, <2>6, ConservedSame DEF Beside
  <2>9. e.phase.by = "switch" /\ e.at.switch \in Owning
    BY <1>1, <1>2, <1>6, <2>6 DEF Beside
  <2>10. Good(d, sent, discarded) /\ Clear(e, d) /\ Keeps(e, d)
    BY <1>1, <2>6, <2>7, <2>8, <2>9, SwitchStopped DEF Ready
  <2> HIDE DEF d
  <2>11. Clear(Now, d) /\ Keeps(Now, d)
    BY <1>1, <2>6, <2>10 DEF Clear, Keeps, Beside
  <2>. QED BY <2>1, <2>10, <2>11, QuietStep DEF Good, Core
<1>. QED BY <1>4, <1>5, <1>6 DEF Flows

LEMMA SyncAnsweredStep ==
  ASSUME TypeOK, AgentInv, SyncAnswered
  PROVE  Now' \in Control /\ AgentInv' /\ ClaimsClear
<1> DEFINE s == Head(Now.syncs)
           rest == Tail(Now.syncs)
           r == [Now.runtime EXCEPT !.mode = s.mode]
           next == With(Now, Now.at, Now.runtime, rest, Now.goal, Now.sandbox)
           done == With(Now, Now.at, r, rest, Now.goal, Now.sandbox)
<1>1. /\ Now.syncs # <<>> /\ closing' = closing /\ kept' = kept /\ released' = released
      /\ sent' = sent /\ discarded' = discarded
  BY NowIs DEF SyncAnswered, Answer, input
<1>2. /\ Now \in Control /\ Now.at = at /\ Now.runtime \in Runtimes /\ Ready(Now) /\ SyncsOwned(Now)
      /\ Now.syncs = syncs
  BY NowReady, NowIs, Fields
<1>3. Become(SyncOk(done, s.by)) \/ Become(Failed(next, s.by))
  <2>1. next = [Now EXCEPT !.syncs = Tail(@)] /\ done = [[Now EXCEPT !.syncs = Tail(@)] EXCEPT !.runtime.mode = s.mode]
    BY <1>2 DEF Control, With
  <2>. QED BY <1>2, <2>1 DEF SyncAnswered
<1>4. s \in Requests /\ rest \in Seq(Requests)
  <2>1. Now.syncs \in Seq(Requests)
    BY <1>2, Fields
  <2>. QED BY <1>1, <2>1
<1>5. r \in Runtimes /\ r.life = Now.runtime.life
  BY <1>2, <1>4 DEF Runtimes, Requests
<1> HIDE DEF r
<1>6. Fit(Now.at, Now.runtime, rest, Now.goal, Now.sandbox) /\ Fit(Now.at, r, rest, Now.goal, Now.sandbox)
  BY <1>2, <1>4, <1>5, Fields DEF Fit
<1>7. closing = "closed" => Now.runtime.life \in {"none", "closed"}
  BY <1>2 DEF Ready, Paired
<1> HIDE DEF s, rest
<1>8. /\ next \in Control /\ next.at = at /\ Beside(Now, next) /\ next.syncs = rest
      /\ done \in Control /\ done.at = at /\ Beside(Now, done) /\ done.syncs = rest
  <2>1. next \in Control /\ next.at = at /\ Beside(Now, next) /\ next.syncs = rest
    BY <1>2, <1>6, <1>7, Replaced DEF Beside
  <2>2. done \in Control /\ done.at = at /\ Beside(Now, done) /\ done.syncs = rest
    BY <1>2, <1>5, <1>6, <1>7, Replaced DEF Beside
  <2>. QED BY <2>1, <2>2
<1> HIDE DEF next, done
<1>9. /\ SyncsOwned(next) /\ SyncsOwned(done)
      /\ s.by # "watch" => at[s.by] = "sync" /\ OnlyWatched(next) /\ OnlyWatched(done)
  BY <1>1, <1>2, <1>8, SyncsAnswered DEF s, rest
<1>10. CASE s.by # "watch"
  <2>1. s.by \in Flows /\ at[s.by] \in Owning
    BY <1>4, <1>9, <1>10 DEF Requests, Owning
  <2>2. ASSUME Become(SyncOk(done, s.by)) PROVE Now' \in Control /\ AgentInv' /\ ClaimsClear
    BY <1>1, <1>8, <1>9, <1>10, <2>1, <2>2, SyncOkStep
  <2>3. ASSUME Become(Failed(next, s.by)) PROVE Now' \in Control /\ AgentInv' /\ ClaimsClear
    BY <1>1, <1>8, <1>9, <1>10, <2>1, <2>3, FailedStep
  <2>. QED BY <1>3, <2>2, <2>3
<1>11. CASE s.by = "watch"
  <2>1. ASSUME Become(SyncOk(done, s.by)) PROVE Now' \in Control /\ AgentInv' /\ ClaimsClear
    <3>1. Become(done)
      BY <1>11, <2>1 DEF SyncOk
    <3>2. Owned(done)
      BY <1>2, <1>8 DEF Ready, Owned, Beside
    <3>. QED BY <1>1, <1>8, <1>9, <3>1, <3>2, MovedStep
  <2>2. ASSUME Become(Failed(next, s.by)) PROVE Now' \in Control /\ AgentInv' /\ ClaimsClear
    BY <1>1, <1>8, <1>9, <1>11, <2>2, WatchFails
  <2>. QED BY <1>3, <2>1, <2>2
<1>. QED BY <1>10, <1>11

(***************************************************************************)
(* The provider's events and answers.                                      *)
(***************************************************************************)
LEMMA ProviderModeStep ==
  ASSUME TypeOK, AgentInv, NEW mode \in Modes, ProviderMode(mode)
  PROVE  Now' \in Control /\ AgentInv' /\ ClaimsClear
<1> DEFINE r == [Now.runtime EXCEPT !.mode = mode]
           b == With(Now, Now.at, r, Now.syncs, Now.goal, Now.sandbox)
           d == Queued(b, "watch", sandbox)
<1>1. /\ closing # "closed" /\ closing' = closing /\ kept' = kept /\ released' = released
      /\ sent' = sent /\ discarded' = discarded
  BY DEF ProviderMode, Event, input
<1>2. /\ Now \in Control /\ Now.at = at /\ Now.runtime \in Runtimes /\ sandbox \in Modes
      /\ Owned(Now) /\ SyncsOwned(Now)
  BY NowReady, NowIs, Fields DEF Ready
<1>3. Become(d)
  <2>1. b = [Now EXCEPT !.runtime.mode = mode]
    BY <1>2 DEF Control, With
  <2>. QED BY <2>1 DEF ProviderMode
<1>4. r \in Runtimes
  BY <1>2 DEF Runtimes
<1> HIDE DEF r
<1>5. Fit(Now.at, r, Now.syncs, Now.goal, Now.sandbox)
  BY <1>2, <1>4, Fields DEF Fit
<1>6. b \in Control /\ b.at = at /\ Beside(Now, b) /\ b.syncs = Now.syncs
  BY <1>1, <1>2, <1>5, Replaced DEF Beside
<1> HIDE DEF b
<1>7. SyncsOwned(b)
  BY <1>2, <1>6 DEF SyncsOwned
<1>8. d \in Control /\ d.at = at /\ Beside(Now, d) /\ SyncsOwned(d)
  BY <1>2, <1>6, <1>7, QueuedWatch DEF Beside
<1> HIDE DEF d
<1>9. Owned(d)
  BY <1>2, <1>8 DEF Owned, Beside
<1>. QED BY <1>1, <1>3, <1>8, <1>9, MovedStep

LEMMA ConnectionLostStep ==
  ASSUME TypeOK, AgentInv, ConnectionLost
  PROVE  Now' \in Control /\ AgentInv' /\ ClaimsClear
<1> DEFINE r == [Now.runtime EXCEPT !.life = "lost"]
           d == With(Now, Now.at, r, Now.syncs, Now.goal, Now.sandbox)
<1>1. /\ closing # "closed" /\ closing' = closing /\ kept' = kept /\ released' = released
      /\ sent' = sent /\ discarded' = discarded
  BY DEF ConnectionLost, Event, input
<1>2. /\ Now \in Control /\ Now.at = at /\ Now.runtime \in Runtimes
      /\ Owned(Now) /\ SyncsOwned(Now)
  BY NowReady, NowIs, Fields DEF Ready
<1>3. Become(d)
  <2>1. d = [Now EXCEPT !.runtime.life = "lost"]
    BY <1>2 DEF Control, With
  <2>. QED BY <2>1 DEF ConnectionLost
<1>4. r \in Runtimes
  BY <1>2 DEF Runtimes
<1> HIDE DEF r
<1>5. Fit(Now.at, r, Now.syncs, Now.goal, Now.sandbox)
  BY <1>2, <1>4, Fields DEF Fit
<1>6. d \in Control /\ d.at = at /\ Beside(Now, d) /\ d.syncs = Now.syncs
  BY <1>1, <1>2, <1>5, Replaced DEF Beside
<1> HIDE DEF d
<1>7. SyncsOwned(d) /\ Owned(d)
  BY <1>2, <1>6 DEF SyncsOwned, Owned, Beside
<1>. QED BY <1>1, <1>3, <1>6, <1>7, MovedStep

LEMMA TurnOverStep ==
  ASSUME TypeOK, AgentInv, at.turn \in {"build", "prompt"}, Become(TurnOver(Now)),
         closing' = closing, kept' = kept, released' = released,
         sent' = sent, discarded' = discarded
  PROVE  Now' \in Control /\ AgentInv' /\ ClaimsClear
<1> DEFINE d == TurnOver(Now)
<1>1. /\ Now \in Control /\ Now.at = at /\ Now.phase = phase /\ Ready(Now) /\ SyncsOwned(Now)
      /\ Conserved(Now, sent, discarded)
      /\ sent \in SUBSET Messages /\ discarded \in SUBSET Messages
  BY NowReady, NowIs
<1>2. Now.phase.by = "turn" /\ "turn" \in Flows
  BY <1>1 DEF Ready, Owned, Flows
<1>3. OnlyWatched(Now)
  BY <1>1, <1>2, OnlyOwner DEF Ready
<1>4. Good(d, sent, discarded) /\ Clear(Now, d) /\ Keeps(Now, d)
  BY <1>1, <1>2, <1>3, TurnStopped
<1> HIDE DEF d
<1>. QED BY <1>4, QuietStep DEF Good, Core, d

LEMMA PromptSentStep ==
  ASSUME TypeOK, AgentInv, PromptSent
  PROVE  Now' \in Control /\ AgentInv' /\ ClaimsClear
<1> DEFINE d == With(Now, [at EXCEPT !.turn = "prompt"], Now.runtime, Now.syncs, Now.goal, Now.sandbox)
<1>1. /\ at.turn = "build" /\ closing' = closing /\ kept' = kept /\ released' = released
      /\ sent' = sent /\ discarded' = discarded
  BY DEF PromptSent, Answer, input
<1>2. /\ Now \in Control /\ Now.at = at /\ Ready(Now) /\ SyncsOwned(Now) /\ at \in [Flows -> Places]
  BY NowReady, NowIs, Fields
<1>3. CASE Become(TurnOver(Now))
  BY <1>1, <1>3, TurnOverStep
<1>4. CASE Become([Now EXCEPT !.at.turn = "prompt"])
  <2> DEFINE a == [at EXCEPT !.turn = "prompt"]
  <2>1. d = [Now EXCEPT !.at.turn = "prompt"]
    BY <1>2 DEF Control, With
  <2>2. a \in [Flows -> Places] /\ a.turn = "prompt" /\ \A g \in Flows : g # "turn" => a[g] = at[g]
    BY <1>2 DEF Places, Flows
  <2> HIDE DEF a
  <2>3. Fit(a, Now.runtime, Now.syncs, Now.goal, Now.sandbox)
    BY <1>2, <2>2, Fields DEF Fit
  <2>4. d \in Control /\ d.at = a /\ Beside(Now, d) /\ d.syncs = Now.syncs
    BY <1>2, <2>3, Replaced DEF Beside, Ready, Paired, a
  <2>5. Become(d)
    BY <1>4, <2>1
  <2> HIDE DEF d
  <2>6. at.turn \notin Owning /\ "turn" \in Flows
    BY <1>1 DEF Owning, Starting, Flows
  <2>7. SyncsOwned(d)
    BY <1>2, <2>2, <2>4, <2>6, SyncsMoved
  <2>8. Owned(d)
    BY <1>1, <1>2, <2>2, <2>4 DEF Ready, Owned, Beside, Owning, Starting, Flows
  <2>9. \A g \in {"op", "switch"} : d.at[g] = at[g]
    BY <2>2, <2>4 DEF Flows
  <2>. QED BY <1>1, <2>4, <2>5, <2>7, <2>8, <2>9, MovedStep
<1>. QED BY <1>3, <1>4 DEF PromptSent

LEMMA PromptAnsweredStep ==
  ASSUME TypeOK, AgentInv, PromptAnswered
  PROVE  Now' \in Control /\ AgentInv' /\ ClaimsClear
BY TurnOverStep DEF PromptAnswered, Answer, input

LEMMA OpOverStep ==
  ASSUME TypeOK, AgentInv, at.op = "run", NEW c \in Control, Beside(Now, c), c.at = at,
         c.syncs = Now.syncs, Become(OpOver(c)),
         closing' = closing, kept' = kept, released' = released,
         sent' = sent, discarded' = discarded
  PROVE  Now' \in Control /\ AgentInv' /\ ClaimsClear
<1> DEFINE d == OpOver(c)
<1>1. /\ Now \in Control /\ Now.at = at /\ Now.phase = phase /\ Ready(Now) /\ SyncsOwned(Now)
      /\ Conserved(Now, sent, discarded)
      /\ sent \in SUBSET Messages /\ discarded \in SUBSET Messages
  BY NowReady, NowIs
<1>2. Ready(c) /\ SyncsOwned(c)
  BY <1>1 DEF Beside, Ready, Owned, SyncsOwned, TurnIsClear, WakesLatched, Paired, Pending
<1>3. Conserved(c, sent, discarded)
  BY <1>1, ConservedSame DEF Beside
<1>4. c.phase.by = "op" => OnlyWatched(c)
  BY <1>2, OnlyOwner, "op" \in Flows DEF Ready, Flows
<1>5. Good(d, sent, discarded) /\ Clear(c, d) /\ Keeps(c, d)
  BY <1>1, <1>2, <1>3, <1>4, OpStopped DEF Ready
<1> HIDE DEF d
<1>6. Clear(Now, d) /\ Keeps(Now, d)
  BY <1>1, <1>5 DEF Clear, Keeps, Beside
<1>. QED BY <1>5, <1>6, QuietStep DEF Good, Core, d

LEMMA OperationAnsweredStep ==
  ASSUME TypeOK, AgentInv, OperationAnswered
  PROVE  Now' \in Control /\ AgentInv' /\ ClaimsClear
<1> DEFINE r == [Now.runtime EXCEPT !.restart = TRUE]
           c == With(Now, Now.at, r, Now.syncs, Now.goal, Now.sandbox)
<1>1. /\ at.op = "run" /\ closing' = closing /\ kept' = kept /\ released' = released
      /\ sent' = sent /\ discarded' = discarded
  BY DEF OperationAnswered, Answer, input
<1>2. Now \in Control /\ Now.at = at /\ Now.runtime \in Runtimes /\ Ready(Now)
  BY NowReady, NowIs, Fields
<1>3. c = [Now EXCEPT !.runtime.restart = TRUE]
  BY <1>2 DEF Control, With
<1>4. r \in Runtimes /\ r.life = Now.runtime.life
  BY <1>2 DEF Runtimes
<1> HIDE DEF r
<1>5. Fit(Now.at, r, Now.syncs, Now.goal, Now.sandbox)
  BY <1>2, <1>4, Fields DEF Fit
<1>6. closing = "closed" => Now.runtime.life \in {"none", "closed"}
  BY <1>2 DEF Ready, Paired
<1>7. c \in Control /\ c.at = at /\ Beside(Now, c) /\ c.syncs = Now.syncs
  BY <1>2, <1>4, <1>5, <1>6, Replaced DEF Beside
<1>8. Beside(Now, Now)
  BY <1>6 DEF Beside
<1>9. Become(OpOver(Now)) \/ Become(OpOver(c))
  BY <1>3 DEF OperationAnswered
<1> HIDE DEF c
<1>10. CASE Become(OpOver(Now))
  BY <1>1, <1>2, <1>8, <1>10, OpOverStep
<1>11. CASE Become(OpOver(c))
  BY <1>1, <1>7, <1>11, OpOverStep
<1>. QED BY <1>9, <1>10, <1>11

(***************************************************************************)
(* Callers' input.                                                         *)
(***************************************************************************)
(* A step that changes only what the agent's inbox and its log hold.        *)
Filled(c, box, log) == [c EXCEPT !.inbox = box, !.transcript = log]
Alike(c, d) ==
  /\ d.phase = c.phase /\ d.at = c.at /\ d.held = c.held /\ d.ops = c.ops /\ d.syncs = c.syncs
  /\ d.waiting = c.waiting /\ d.runtime.life = c.runtime.life

LEMMA FilledIs ==
  ASSUME NEW c \in Control, NEW box \in Inboxes, NEW log \in [Messages -> Nat]
  PROVE  LET d == Filled(c, box, log) IN
         d \in Control /\ Alike(c, d) /\ d.inbox = box /\ d.transcript = log
BY DEF Filled, Alike, Control

LEMMA AlikeOwned ==
  ASSUME NEW c \in Control, NEW d \in Control, Alike(c, d), Owned(c), SyncsOwned(c), TurnIsClear(c),
         Paired(c)
  PROVE  Core(d) /\ Paired(d) /\ Keeps(c, d)
<1>1. Owned(d) /\ SyncsOwned(d) /\ TurnIsClear(d) /\ Paired(d)
  BY DEF Alike, Owned, SyncsOwned, TurnIsClear, Paired
<1>2. c.ops.pending <= c.ops.pending
  BY Fields
<1>. QED BY <1>1, <1>2 DEF Alike, Core, Keeps

LEMMA SameStep ==
  ASSUME TypeOK, AgentInv, UNCHANGED control,
         closing' = closing, kept' = kept, released' = released,
         sent' = sent, discarded' = discarded
  PROVE  Now' \in Control /\ AgentInv' /\ ClaimsClear
<1>1. Now \in Control /\ Ready(Now) /\ SyncsOwned(Now) /\ Now.at = at
  BY NowReady, NowIs
<1>2. Become(Now)
  BY NowIs DEF Become, control
<1>3. Beside(Now, Now) /\ Owned(Now)
  BY <1>1 DEF Beside, Ready, Paired
<1>. QED BY <1>1, <1>2, <1>3, MovedStep

(* A steering answer takes its message from the inbox to the log, once.     *)
LEMMA SteerAnsweredStep ==
  ASSUME TypeOK, AgentInv, NEW m \in Messages, SteerAnswered(m)
  PROVE  Now' \in Control /\ AgentInv' /\ ClaimsClear
<1>1. /\ closing' = closing /\ kept' = kept /\ released' = released
      /\ sent' = sent /\ discarded' = discarded /\ steering' # steering
  BY DEF SteerAnswered
<1>2. CASE UNCHANGED control
  BY <1>1, <1>2, SameStep
<1>3. CASE m \in inbox.step /\ Become(Injected(m))
  <2> DEFINE box == [Now.inbox EXCEPT !.step = @ \ {m}]
             log == [Now.transcript EXCEPT ![m] = @ + 1]
             d == Filled(Now, box, log)
  <2>1. /\ Now \in Control /\ Ready(Now) /\ SyncsOwned(Now) /\ Conserved(Now, sent, discarded)
        /\ sent \in SUBSET Messages /\ discarded \in SUBSET Messages
        /\ Now.inbox \in Inboxes /\ Now.transcript \in [Messages -> Nat] /\ Now.inbox = inbox
    BY NowReady, NowIs, Fields
  <2>2. Become(d)
    <3>1. d = Injected(m)
      BY <2>1 DEF Filled, Injected, Control
    <3>. QED BY <1>3, <3>1
  <2>3. /\ box \in Inboxes /\ log \in [Messages -> Nat]
        /\ box.turn = Now.inbox.turn /\ box.step = Now.inbox.step \ {m}
        /\ \A n \in Messages : log[n] = Now.transcript[n] + (IF n \in {m} THEN 1 ELSE 0)
    BY <2>1 DEF Inboxes
  <2> HIDE DEF box, log
  <2>4. d \in Control /\ Alike(Now, d) /\ d.inbox = box /\ d.transcript = log
    BY <2>1, <2>3, FilledIs
  <2> HIDE DEF d
  <2>5. Distinct(Now)
    BY <2>1 DEF Conserved
  <2>6. Distinct(d) /\ Pending(Now) = {m} \cup Pending(d) /\ {m} \cap Pending(d) = {}
    BY <1>3, <2>1, <2>3, <2>4, <2>5 DEF Distinct, Pending
  <2>7. Recorded(d, sent, discarded)
    <3>1. Claims(Now, d, {m})
      BY <2>3, <2>4, <2>6 DEF Claims
    <3>. QED BY <2>1, <2>4, <3>1, RecordedOnce DEF Conserved
  <2>8. Core(d) /\ Paired(d) /\ Keeps(Now, d)
    BY <2>1, <2>4, AlikeOwned DEF Ready
  <2>9. WakesLatched(d)
    BY <2>1, <2>4, <2>6 DEF Ready, WakesLatched, Alike
  <2>10. Good(d, sent', discarded')
    BY <1>1, <2>6, <2>7, <2>8, <2>9 DEF Good, Conserved
  <2>. QED BY <1>1, <2>2, <2>4, <2>8, <2>10, QuietStep
<1>. QED BY <1>2, <1>3 DEF SteerAnswered

(* A message is put where nothing held it, and someone will wake it.        *)
LEMMA InsertedIs ==
  ASSUME TypeOK, AgentInv, NEW m \in Messages, m \notin sent, NEW target \in {"turn", "step"}
  PROVE  LET e == Inserted(m, target) IN
         /\ e \in Control /\ Alike(Now, e) /\ e.transcript = transcript /\ e.runtime = runtime
         /\ Conserved(e, sent \cup {m}, discarded)
<1> DEFINE e == Inserted(m, target)
           queue == Now.inbox.turn
           box == IF target = "turn" THEN [Now.inbox EXCEPT !.turn = Append(@, m)]
                  ELSE [Now.inbox EXCEPT !.step = @ \cup {m}]
           d == Filled(Now, box, Now.transcript)
<1>1. /\ Now \in Control /\ Conserved(Now, sent, discarded)
      /\ sent \in SUBSET Messages /\ discarded \in SUBSET Messages
      /\ Now.inbox \in Inboxes /\ queue \in Seq(Messages) /\ Now.transcript \in [Messages -> Nat]
      /\ Now.transcript = transcript /\ Now.runtime = runtime
  BY NowReady, NowIs, Fields
<1>2. d = e /\ d.runtime = runtime
  BY <1>1 DEF Filled, Inserted, Control
<1>3. box \in Inboxes
  <2> DEFINE next == Append(queue, m)
  <2>1. next \in Seq(Messages)
    BY <1>1
  <2> HIDE DEF next
  <2>2. [Now.inbox EXCEPT !.turn = next] \in Inboxes
    BY <1>1, <2>1 DEF Inboxes
  <2>3. [Now.inbox EXCEPT !.step = @ \cup {m}] \in Inboxes
    BY <1>1 DEF Inboxes
  <2>. QED BY <2>2, <2>3 DEF next
<1>4. Distinct(Now) /\ m \notin Pending(Now)
  BY <1>1 DEF Conserved, Recorded
<1>5. CASE target = "step"
  <2>1. box.turn = queue /\ box.step = Now.inbox.step \cup {m}
    BY <1>1, <1>5 DEF Inboxes
  <2> HIDE DEF box
  <2>2. d \in Control /\ Alike(Now, d) /\ d.inbox = box /\ d.transcript = Now.transcript
    BY <1>1, <1>3, FilledIs
  <2> HIDE DEF d
  <2>3. Pending(d) = Pending(Now) \cup {m}
    BY <2>1, <2>2 DEF Pending
  <2>4. Distinct(d)
    BY <1>4, <2>1, <2>2 DEF Distinct, Pending
  <2>5. Recorded(d, sent \cup {m}, discarded)
    BY <1>1, <1>4, <2>2, <2>3 DEF Conserved, Recorded
  <2>. QED BY <1>1, <1>2, <2>2, <2>4, <2>5 DEF Conserved
<1>6. CASE target = "turn"
  <2>1. box.turn = Append(queue, m) /\ box.step = Now.inbox.step
    BY <1>1, <1>6 DEF Inboxes
  <2> DEFINE next == Append(queue, m)
  <2>2. /\ Len(queue) \in Nat /\ Len(next) = Len(queue) + 1 /\ next[Len(queue) + 1] = m
        /\ \A i \in 1..Len(queue) : next[i] = queue[i] /\ i \in 1..Len(next)
        /\ \A i \in 1..Len(next) : i \in 1..Len(queue) \/ i = Len(queue) + 1
        /\ Len(queue) + 1 \in 1..Len(next)
    BY <1>1
  <2> HIDE DEF box, next
  <2>3. d \in Control /\ Alike(Now, d) /\ d.inbox = box /\ d.transcript = Now.transcript
    BY <1>1, <1>3, FilledIs
  <2>4. d.inbox.turn = next /\ d.inbox.step = Now.inbox.step
    BY <2>1, <2>3 DEF next
  <2> HIDE DEF d
  <2>5. Pending(d) = {next[i] : i \in 1..Len(next)} \cup Now.inbox.step
    BY <2>4 DEF Pending
  <2>6. Pending(Now) = {queue[i] : i \in 1..Len(queue)} \cup Now.inbox.step
    BY DEF Pending
  <2>7. /\ \A i, j \in 1..Len(queue) : queue[i] = queue[j] => i = j
        /\ \A i \in 1..Len(queue) : queue[i] \notin Now.inbox.step
    BY <1>4 DEF Distinct
  <2> HIDE DEF queue
  <2>8. Pending(d) = Pending(Now) \cup {m}
    BY <2>2, <2>5, <2>6
  <2>9. \A i \in 1..Len(queue) : queue[i] # m
    BY <1>4, <2>6
  <2>10. \A i, j \in 1..Len(next) : next[i] = next[j] => i = j
    BY <2>2, <2>7, <2>9
  <2>11. \A i \in 1..Len(next) : next[i] \notin Now.inbox.step
    BY <1>4, <2>2, <2>6, <2>7
  <2>12. Distinct(d)
    BY <2>4, <2>10, <2>11 DEF Distinct
  <2>13. Recorded(d, sent \cup {m}, discarded)
    BY <1>1, <1>4, <2>3, <2>8 DEF Conserved, Recorded
  <2>. QED BY <1>1, <1>2, <2>3, <2>12, <2>13 DEF Conserved
<1>. QED BY <1>5, <1>6

LEMMA SendStep ==
  ASSUME TypeOK, AgentInv, NEW m \in Messages, NEW target \in {"turn", "step"}, Send(m, target),
         closing' = closing, kept' = kept, released' = released, discarded' = discarded
  PROVE  Now' \in Control /\ AgentInv' /\ ClaimsClear
<1> DEFINE e == Inserted(m, target)
           d == Woken(e)
<1>1. m \notin sent /\ sent' = sent \cup {m} /\ Become(d)
  BY DEF Send
<1>2. /\ Now \in Control /\ Ready(Now) /\ SyncsOwned(Now)
      /\ sent \in SUBSET Messages /\ discarded \in SUBSET Messages
      /\ Now.transcript = transcript /\ Now.runtime = runtime
  BY NowReady, NowIs
<1>3. /\ e \in Control /\ Alike(Now, e) /\ e.transcript = Now.transcript /\ e.runtime = Now.runtime
      /\ Conserved(e, sent', discarded)
  BY <1>1, <1>2, InsertedIs
<1> HIDE DEF e
<1>4. Core(e) /\ Paired(e)
  BY <1>2, <1>3, AlikeOwned DEF Ready
<1>5. sent' \in SUBSET Messages
  BY <1>1, <1>2
<1>6. /\ Core(d) /\ Conserved(d, sent', discarded) /\ Frame(e, d) /\ Clear(e, d) /\ NoNewTurn(e, d)
      /\ d.at.op = e.at.op /\ d.at.switch = e.at.switch
      /\ d.held = "no" <=> e.held = "no"
      /\ closing = "open" => Latched(d)
  BY <1>2, <1>3, <1>4, <1>5, WokenOwned
<1> HIDE DEF d
<1>7. Good(d, sent', discarded')
  BY <1>6 DEF Good, WakesLatched, Latched
<1>8. Clear(Now, d)
  BY <1>3, <1>6 DEF Clear
<1>9. Keeps(Now, d)
  <2>1. Paired(d)
    BY <1>4, <1>6 DEF Paired, Frame
  <2>2. d.ops.pending = Now.ops.pending /\ d.ops.pending <= Now.ops.pending
    BY <1>2, <1>3, <1>6, Fields DEF Frame, Alike
  <2>3. d.waiting = Now.waiting
    BY <1>3, <1>6 DEF Frame, Alike
  <2>4. \A g \in {"op", "switch"} : Now.at[g] = "wait" => d.at[g] = "wait"
    BY <1>3, <1>6 DEF Alike
  <2>5. closing # "open" => (d.phase.by = "turn" => Now.phase.by = "turn")
    BY <1>3, <1>6 DEF NoNewTurn, Alike
  <2>. QED BY <2>1, <2>2, <2>3, <2>4, <2>5 DEF Keeps
<1>. QED BY <1>1, <1>6, <1>7, <1>8, <1>9, QuietStep DEF Core

LEMMA FollowupStep ==
  ASSUME TypeOK, AgentInv, NEW m \in Messages, Followup(m)
  PROVE  Now' \in Control /\ AgentInv' /\ ClaimsClear
BY SendStep DEF Followup

LEMMA SteerStep ==
  ASSUME TypeOK, AgentInv, NEW m \in Messages, Steer(m)
  PROVE  Now' \in Control /\ AgentInv' /\ ClaimsClear
BY SendStep DEF Steer

(***************************************************************************)
(* Cancellations and the sandbox.                                          *)
(***************************************************************************)
LEMMA CancelledIs ==
  ASSUME NEW c \in Control, Owned(c), SyncsOwned(c)
  PROVE  LET d == Cancelled(c) IN
         /\ d \in Control /\ Owned(d) /\ SyncsOwned(d)
         /\ d.at = c.at /\ d.held = c.held /\ d.ops = c.ops /\ d.inbox = c.inbox
         /\ d.transcript = c.transcript /\ d.syncs = c.syncs /\ d.waiting = c.waiting
         /\ d.runtime.life = c.runtime.life /\ d.phase.by = c.phase.by
         /\ IF c.phase.by = "idle" THEN d = c ELSE d.phase.aborted
         /\ \A stage : ClearAt(d, stage)
<1> DEFINE d == Cancelled(c)
           r == Retired(c)
           p == [c.phase EXCEPT !.aborted = TRUE]
<1>1. CASE c.phase.by = "idle"
  <2>1. d = c
    BY <1>1 DEF Cancelled
  <2>2. \A stage : ClearAt(c, stage)
    BY <1>1 DEF ClearAt
  <2>. QED BY <1>1, <2>1, <2>2
<1>2. CASE c.phase.by # "idle"
  <2>1. /\ r \in Control /\ r.phase = c.phase /\ r.at = c.at /\ r.held = c.held /\ r.ops = c.ops
        /\ r.inbox = c.inbox /\ r.transcript = c.transcript /\ r.syncs = c.syncs
        /\ r.waiting = c.waiting /\ r.runtime.life = c.runtime.life
    BY RetiredSame
  <2>2. d = [r EXCEPT !.phase.aborted = TRUE]
    BY <1>2 DEF Cancelled
  <2>3. p \in Phases /\ p.by = c.phase.by /\ p.aborted
    <3>1. c.phase \in Phases
      BY Fields
    <3>. QED BY <3>1 DEF Phases
  <2> HIDE DEF r
  <2>4. d = [r EXCEPT !.phase = p]
    BY <2>1, <2>2 DEF Control
  <2> HIDE DEF d, p
  <2>5. /\ d \in Control /\ d.phase = p /\ d.at = c.at /\ d.held = c.held /\ d.ops = c.ops
        /\ d.inbox = c.inbox /\ d.transcript = c.transcript /\ d.syncs = c.syncs
        /\ d.waiting = c.waiting /\ d.runtime.life = c.runtime.life
    BY <2>1, <2>3, <2>4 DEF Control
  <2>6. Owned(d) /\ SyncsOwned(d)
    BY <1>2, <2>3, <2>5 DEF Owned, SyncsOwned
  <2>7. \A stage : ClearAt(d, stage)
    BY <2>3, <2>5 DEF ClearAt
  <2>. QED BY <1>2, <2>3, <2>5, <2>6, <2>7 DEF d
<1>. QED BY <1>1, <1>2

(* What was pending is dropped or parked, or the agent is idle.             *)
LEMMA CancelledStep ==
  ASSUME TypeOK, AgentInv, NEW c \in Control, Owned(c), SyncsOwned(c), Conserved(c, sent', discarded'),
         c.transcript = transcript, Become(Cancelled(c)),
         OpsQueued(c, released), SwitchReserved(c, released), Winding(c, released, closing),
         closing' = closing, released' = released,
         sent' \in SUBSET Messages, discarded' \in SUBSET Messages,
         LatchedAt(Cancelled(c), closing, kept'.caller \cup kept'.switch)
  PROVE  Now' \in Control /\ AgentInv' /\ ClaimsClear
<1> DEFINE d == Cancelled(c)
<1>1. /\ d \in Control /\ Owned(d) /\ SyncsOwned(d)
      /\ d.at = c.at /\ d.held = c.held /\ d.ops = c.ops /\ d.inbox = c.inbox
      /\ d.transcript = c.transcript /\ d.syncs = c.syncs /\ d.waiting = c.waiting
      /\ d.runtime.life = c.runtime.life /\ d.phase.by = c.phase.by
      /\ ClearAt(d, closing')
  BY CancelledIs
<1> HIDE DEF d
<1>2. Conserved(d, sent', discarded')
  BY <1>1, ConservedSame
<1>3. OpsQueued(d, released') /\ SwitchReserved(d, released')
  BY <1>1 DEF OpsQueued, SwitchReserved, Awaits
<1>4. Winding(d, released', closing')
  BY <1>1 DEF Winding
<1>5. LatchedAt(d, closing', kept'.caller \cup kept'.switch)
  BY DEF d
<1>6. Become(d)
  BY DEF d
<1>7. ClaimsClear
  BY <1>1, <1>6 DEF ClaimsClear, Become
<1>. QED BY <1>1, <1>2, <1>3, <1>4, <1>5, <1>6, <1>7, Carried

LEMMA AlikeQueues ==
  ASSUME NEW c \in Control, NEW d \in Control, Alike(c, d), NEW gone, NEW stage,
         OpsQueued(c, gone), SwitchReserved(c, gone), Winding(c, gone, stage)
  PROVE  OpsQueued(d, gone) /\ SwitchReserved(d, gone) /\ Winding(d, gone, stage)
BY DEF Alike, OpsQueued, SwitchReserved, Awaits, Winding

(* An inbox that is cleared leaves nothing pending.                         *)
Cleared(c) == [c EXCEPT !.inbox = [turn |-> <<>>, step |-> {}]]

LEMMA ClearedIs ==
  ASSUME TypeOK, AgentInv
  PROVE  LET e == Cleared(Now) IN
         /\ e \in Control /\ Alike(Now, e) /\ e.transcript = transcript /\ Pending(e) = {}
         /\ Conserved(e, sent, discarded \cup Pending(Now))
         /\ discarded \cup Pending(Now) \in SUBSET Messages
<1> DEFINE queue == <<>>
           box == [turn |-> queue, step |-> {}]
           d == Filled(Now, box, Now.transcript)
<1>1. /\ Now \in Control /\ Conserved(Now, sent, discarded)
      /\ sent \in SUBSET Messages /\ discarded \in SUBSET Messages
      /\ Now.transcript \in [Messages -> Nat] /\ Now.transcript = transcript
  BY NowReady, NowIs, Fields
<1>2. Cleared(Now) = d
  BY <1>1 DEF Cleared, Filled, Control
<1>3. queue \in Seq(Messages) /\ Len(queue) = 0
  OBVIOUS
<1> HIDE DEF queue
<1>4. box \in Inboxes /\ box.turn = queue /\ box.step = {}
  BY <1>3 DEF Inboxes
<1> HIDE DEF box
<1>5. d \in Control /\ Alike(Now, d) /\ d.inbox = box /\ d.transcript = Now.transcript
  BY <1>1, <1>4, FilledIs
<1> HIDE DEF d
<1>6. 1..Len(queue) = {}
  BY <1>3
<1>7. Pending(d) = {} /\ Distinct(d)
  BY <1>4, <1>5, <1>6 DEF Pending, Distinct
<1>8. Pending(Now) \subseteq sent \ discarded /\ discarded \subseteq sent
  BY <1>1 DEF Conserved, Recorded
<1>9. Recorded(d, sent, discarded \cup Pending(Now))
  <2>1. sent \ (Pending(d) \cup (discarded \cup Pending(Now))) = sent \ (Pending(Now) \cup discarded)
    BY <1>7
  <2>2. \A m \in Messages :
          Now.transcript[m] = IF m \in sent \ (Pending(Now) \cup discarded) THEN 1 ELSE 0
    BY <1>1 DEF Conserved, Recorded
  <2>. QED BY <1>5, <1>7, <1>8, <2>1, <2>2 DEF Recorded
<1>. QED BY <1>1, <1>2, <1>5, <1>7, <1>8, <1>9 DEF Conserved

LEMMA CancelStep ==
  ASSUME TypeOK, AgentInv, NEW keep \in BOOLEAN, Cancel(keep)
  PROVE  Now' \in Control /\ AgentInv' /\ ClaimsClear
<1>1. closing' = closing /\ released' = released /\ sent' = sent
  BY DEF Cancel, Event
<1>2. /\ Now \in Control /\ Ready(Now) /\ SyncsOwned(Now) /\ Conserved(Now, sent, discarded)
      /\ sent \in SUBSET Messages /\ discarded \in SUBSET Messages /\ Owned(Now)
      /\ Now.transcript = transcript /\ Now.phase = phase
      /\ OpsQueued(Now, released) /\ SwitchReserved(Now, released) /\ Winding(Now, released, closing)
  BY NowReady, NowIs DEF Ready, AgentInv
<1>3. CASE keep
  <2> DEFINE d == Cancelled(Now)
  <2>1. /\ Become(d) /\ discarded' = discarded
        /\ kept' = IF phase.by = "idle" THEN kept ELSE [kept EXCEPT !.caller = @ \cup Pending(Now)]
    BY <1>3 DEF Cancel
  <2>2. d.inbox = Now.inbox /\ (phase.by = "idle" => d = Now)
    BY <1>2, CancelledIs
  <2> HIDE DEF d
  <2>3. LatchedAt(d, closing, kept'.caller \cup kept'.switch)
    <3>1. CASE phase.by = "idle"
      BY <1>2, <2>1, <2>2, <3>1 DEF LatchedAt, Ready, WakesLatched, Latched
    <3>2. CASE phase.by # "idle"
      <4>1. Pending(d) \subseteq kept'.caller
        BY <2>1, <2>2, <3>2 DEF Pending, TypeOK
      <4>. QED BY <4>1 DEF LatchedAt
    <3>. QED BY <3>1, <3>2
  <2>. QED BY <1>1, <1>2, <2>1, <2>3, CancelledStep DEF d
<1>4. CASE ~keep
  <2> DEFINE e == Cleared(Now)
             d == Cancelled(e)
  <2>1. Become(d) /\ discarded' = discarded \cup Pending(Now)
    BY <1>4 DEF Cancel, Cleared
  <2>2. /\ e \in Control /\ Alike(Now, e) /\ e.transcript = transcript /\ Pending(e) = {}
        /\ Conserved(e, sent', discarded') /\ discarded' \in SUBSET Messages
    BY <1>1, <2>1, ClearedIs
  <2> HIDE DEF e
  <2>3. Owned(e) /\ SyncsOwned(e)
    BY <1>2, <2>2, AlikeOwned DEF Ready, Core
  <2>4. OpsQueued(e, released) /\ SwitchReserved(e, released) /\ Winding(e, released, closing)
    BY <1>2, <2>2, AlikeQueues
  <2>5. LatchedAt(d, closing, kept'.caller \cup kept'.switch)
    <3>1. d.inbox = e.inbox
      BY <2>2, <2>3, CancelledIs
    <3> HIDE DEF d
    <3>2. Pending(d) = {}
      BY <2>2, <3>1 DEF Pending
    <3>. QED BY <3>2 DEF LatchedAt
  <2>. QED BY <1>1, <1>2, <2>1, <2>2, <2>3, <2>4, <2>5, CancelledStep
<1>. QED BY <1>3, <1>4

LEMMA SetSandboxStep ==
  ASSUME TypeOK, AgentInv, NEW mode \in Modes, SetSandbox(mode)
  PROVE  Now' \in Control /\ AgentInv' /\ ClaimsClear
<1> DEFINE e == With(Now, Now.at, Now.runtime, Now.syncs, Now.goal, mode)
<1>1. /\ closing' = closing /\ released' = released /\ sent' = sent /\ discarded' = discarded
      /\ closing # "closed"
  BY DEF SetSandbox, Event
<1>2. /\ Now \in Control /\ Ready(Now) /\ SyncsOwned(Now) /\ Conserved(Now, sent, discarded)
      /\ sent \in SUBSET Messages /\ discarded \in SUBSET Messages /\ Owned(Now)
      /\ Now.at = at /\ Now.transcript = transcript /\ Now.phase = phase
      /\ OpsQueued(Now, released) /\ SwitchReserved(Now, released) /\ Winding(Now, released, closing)
  BY NowReady, NowIs DEF Ready, AgentInv
<1>3. e = [Now EXCEPT !.sandbox = mode]
  BY <1>2 DEF Control, With
<1>4. Fit(Now.at, Now.runtime, Now.syncs, Now.goal, mode)
  BY <1>2, Fields DEF Fit
<1>5. /\ e \in Control /\ e.at = Now.at /\ Beside(Now, e) /\ Alike(Now, e) /\ e.inbox = Now.inbox
      /\ e.transcript = transcript
  BY <1>1, <1>2, <1>4, Replaced DEF Beside, Alike
<1>6. Owned(e) /\ SyncsOwned(e)
  BY <1>2, <1>5, AlikeOwned DEF Ready, Core
<1>7. CASE phase.by = "turn" /\ mode < sandbox
  <2> DEFINE d == Cancelled(e)
  <2>1. Become(d) /\ kept' = [kept EXCEPT !.caller = @ \cup Pending(Now)]
    BY <1>3, <1>7 DEF SetSandbox
  <2> HIDE DEF e
  <2>2. d.inbox = e.inbox
    BY <1>5, <1>6, CancelledIs
  <2> HIDE DEF d
  <2>3. Pending(d) \subseteq kept'.caller
    BY <1>5, <2>1, <2>2 DEF Pending, TypeOK
  <2>4. LatchedAt(d, closing, kept'.caller \cup kept'.switch)
    BY <2>3 DEF LatchedAt
  <2>5. OpsQueued(e, released) /\ SwitchReserved(e, released) /\ Winding(e, released, closing)
    BY <1>2, <1>5, AlikeQueues
  <2>6. Conserved(e, sent, discarded)
    BY <1>2, <1>5, ConservedSame DEF Beside
  <2>. QED BY <1>1, <1>2, <1>5, <1>6, <2>1, <2>4, <2>5, <2>6, CancelledStep DEF d
<1>8. CASE ~(phase.by = "turn" /\ mode < sandbox)
  <2> DEFINE d == Queued(e, "watch", mode)
  <2>1. Become(d) /\ kept' = kept
    BY <1>3, <1>8 DEF SetSandbox
  <2> HIDE DEF e
  <2>2. d \in Control /\ d.at = at /\ Beside(Now, d) /\ SyncsOwned(d)
    BY <1>1, <1>2, <1>5, <1>6, QueuedWatch DEF Beside
  <2> HIDE DEF d
  <2>3. Owned(d)
    BY <1>2, <2>2 DEF Owned, Beside
  <2>. QED BY <1>1, <2>1, <2>2, <2>3, MovedStep
<1>. QED BY <1>7, <1>8

(***************************************************************************)
(* Operations and switches.                                                *)
(***************************************************************************)
LEMMA ModelOperationStep ==
  ASSUME TypeOK, AgentInv, ModelOperation
  PROVE  Now' \in Control /\ AgentInv' /\ ClaimsClear
<1> DEFINE count == [Now.ops EXCEPT !.pending = @ + 1]
           e == [Now EXCEPT !.ops = count]
           d == OpHead(e)
<1>1. /\ closing = "open" /\ closing' = closing /\ kept' = kept /\ released' = released
      /\ sent' = sent /\ discarded' = discarded
  BY DEF ModelOperation, Event, input
<1>2. /\ Now \in Control /\ Ready(Now) /\ SyncsOwned(Now) /\ Conserved(Now, sent, discarded)
      /\ sent \in SUBSET Messages /\ discarded \in SUBSET Messages
      /\ Now.ops \in Counts /\ Now.ops = ops /\ Now.at = at
  BY NowReady, NowIs, Fields
<1>3. e = [Now EXCEPT !.ops.pending = @ + 1]
  BY <1>2 DEF Control
<1>4. /\ count \in Counts /\ count.pending = Now.ops.pending + 1 /\ count.wake = Now.ops.wake
      /\ count.pending > 0 /\ Now.ops.pending \in Nat /\ count.pending # 0
  BY <1>2 DEF Counts
<1>5. Become(IF ops.pending = 0 THEN d ELSE e)
  BY <1>3 DEF ModelOperation
<1> HIDE DEF count
<1>6. /\ e \in Control /\ e.phase = Now.phase /\ e.at = Now.at /\ e.held = Now.held /\ e.ops = count
      /\ e.inbox = Now.inbox /\ e.transcript = Now.transcript /\ e.syncs = Now.syncs
      /\ e.waiting = Now.waiting /\ e.runtime = Now.runtime
  BY <1>2, <1>4 DEF Control
<1> HIDE DEF e
<1>7. Core(e) /\ WakesLatched(e)
  <2>1. Owned(e) /\ SyncsOwned(e) /\ TurnIsClear(e)
    BY <1>2, <1>6 DEF Ready, Owned, SyncsOwned, TurnIsClear
  <2>2. WakesLatched(e)
    BY <1>2, <1>4, <1>6 DEF Ready, WakesLatched, Pending
  <2>. QED BY <1>6, <2>1, <2>2 DEF Core
<1>8. Conserved(e, sent, discarded)
  BY <1>2, <1>6, ConservedSame
<1>9. CASE ops.pending = 0
  <2>1. Now.at.op = "none"
    BY <1>2, <1>9 DEF Ready, Paired
  <2>2. e.phase.by # "op"
    BY <1>2, <1>6, <2>1 DEF Ready, Owned, Owning, Starting
  <2>3. /\ Core(d) /\ Conserved(d, sent, discarded) /\ WakesLatched(d)
        /\ HeadMoved(e, d, e.ops.pending)
        /\ d.transcript = e.transcript /\ d.phase = e.phase /\ d.runtime = e.runtime
        /\ d.at.switch = e.at.switch /\ d.held = e.held
    BY <1>2, <1>4, <1>6, <1>7, <1>8, <2>2, OpHeadOwned
  <2> HIDE DEF d
  <2>4. Paired(d)
    BY <1>1, <1>2, <1>4, <1>6, <2>3 DEF Paired, HeadMoved, Ready
  <2>5. Keeps(Now, d)
    BY <1>1, <1>6, <2>1, <2>3, <2>4 DEF Keeps, HeadMoved
  <2>6. Good(d, sent', discarded') /\ Clear(Now, d)
    BY <1>1, <1>6, <2>3 DEF Good, Clear
  <2>. QED BY <1>1, <1>5, <1>9, <2>3, <2>5, <2>6, QuietStep DEF Core
<1>10. CASE ops.pending # 0
  <2>1. Paired(e)
    BY <1>1, <1>2, <1>4, <1>6, <1>10 DEF Paired, Ready
  <2>2. Keeps(Now, e)
    BY <1>1, <1>6, <2>1 DEF Keeps
  <2>3. Good(e, sent', discarded') /\ Clear(Now, e)
    BY <1>1, <1>6, <1>7, <1>8 DEF Good, Clear
  <2>. QED BY <1>1, <1>5, <1>6, <1>10, <2>2, <2>3, QuietStep
<1>. QED BY <1>9, <1>10

(* A maintenance that begins while the agent is idle.                       *)
LEMMA MaintainedOwned ==
  ASSUME NEW c \in Control, Owned(c), SyncsOwned(c), c.phase.by = "idle",
         NEW f \in {"op", "switch"}, NEW mode \in Modes
  PROVE  LET d == Maintained(c, f, mode) IN
         /\ Core(d) /\ d.at[f] \in {"close", "sync"}
         /\ \A g \in Flows : g # f => d.at[g] = c.at[g]
         /\ d.phase.by = f /\ c.phase.wake = FALSE
         /\ d.held = c.held /\ d.ops = c.ops /\ d.inbox = c.inbox
         /\ d.transcript = c.transcript /\ d.runtime = c.runtime /\ d.waiting = c.waiting
<1> DEFINE p == [Idle EXCEPT !.by = f]
           e == [c EXCEPT !.phase = p]
           d == Enter(e, f, mode)
<1>1. d = Maintained(c, f, mode)
  BY DEF Maintained
<1>2. p \in Phases /\ p.by = f /\ f \in Flows /\ f # "turn"
  BY DEF Phases, Idle, Flows
<1> HIDE DEF p
<1>3. /\ e \in Control /\ e.phase = p /\ e.at = c.at /\ e.held = c.held /\ e.ops = c.ops
      /\ e.inbox = c.inbox /\ e.transcript = c.transcript /\ e.syncs = c.syncs
      /\ e.runtime = c.runtime /\ e.waiting = c.waiting
  BY <1>2 DEF Control
<1> HIDE DEF e
<1>4. /\ \A g \in Flows : c.at[g] \notin Owning
      /\ c.at.turn = "none" /\ c.phase.wake = FALSE
  BY DEF Owned, Flows, Idle
<1>5. OnlyWatched(e)
  <2>1. OnlyWatched(c)
    BY <1>4, IdleWatches DEF Owning
  <2>. QED BY <1>3, <2>1 DEF OnlyWatched
<1>6. TurnIsClear(e)
  BY <1>2, <1>3 DEF TurnIsClear
<1>7. /\ Core(d) /\ d.at[f] \in {"close", "sync"}
      /\ \A g \in Flows : g # f => d.at[g] = e.at[g]
      /\ d.phase = e.phase /\ d.held = e.held /\ d.ops = e.ops /\ d.inbox = e.inbox
      /\ d.transcript = e.transcript /\ d.runtime = e.runtime /\ d.waiting = e.waiting
  BY <1>2, <1>3, <1>4, <1>5, <1>6, EnterOwned
<1> HIDE DEF d
<1>. QED BY <1>1, <1>2, <1>3, <1>4, <1>7

LEMMA TransitionStep ==
  ASSUME TypeOK, AgentInv, NEW target \in Modes, TransitionSandboxMode(target)
  PROVE  Now' \in Control /\ AgentInv' /\ ClaimsClear
<1> DEFINE e == [Now EXCEPT !.held = "quiet", !.goal = target]
<1>1. /\ closing # "closed" /\ closing' = closing /\ released' = released
      /\ sent' = sent /\ discarded' = discarded /\ held = "no" /\ phase.by \in {"idle", "turn"}
  BY DEF TransitionSandboxMode, Event
<1>2. /\ Now \in Control /\ Ready(Now) /\ SyncsOwned(Now) /\ Conserved(Now, sent, discarded)
      /\ Owned(Now) /\ sent \in SUBSET Messages /\ discarded \in SUBSET Messages
      /\ Now.held = held /\ Now.phase = phase /\ Now.at = at /\ at \in [Flows -> Places]
      /\ OpsQueued(Now, released) /\ SwitchReserved(Now, released) /\ Winding(Now, released, closing)
  BY NowReady, NowIs, Fields DEF Ready, AgentInv
<1>3. /\ e \in Control /\ e.phase = Now.phase /\ e.at = Now.at /\ e.held = "quiet"
      /\ e.ops = Now.ops /\ e.inbox = Now.inbox /\ e.transcript = Now.transcript
      /\ e.syncs = Now.syncs /\ e.waiting = Now.waiting /\ e.runtime = Now.runtime
  BY <1>2 DEF Control
<1>4. Owned(e) /\ SyncsOwned(e)
  BY <1>2, <1>3 DEF Owned, SyncsOwned
<1>5. at.switch = "none" /\ ~In(Now.waiting, "switch") /\ ~In(released, "switch")
  BY <1>1, <1>2 DEF SwitchReserved, Awaits
<1>6. Conserved(e, sent, discarded)
  BY <1>2, <1>3, ConservedSame
<1>7. CASE phase.by = "idle"
  <2> DEFINE d == Maintained(e, "switch", target)
  <2>1. Become(d) /\ kept' = kept
    BY <1>7 DEF TransitionSandboxMode
  <2> HIDE DEF e
  <2>2. /\ Core(d) /\ d.at.switch \in {"close", "sync"}
        /\ \A g \in Flows : g # "switch" => d.at[g] = e.at[g]
        /\ d.phase.by = "switch" /\ e.phase.wake = FALSE
        /\ d.held = e.held /\ d.ops = e.ops /\ d.inbox = e.inbox
        /\ d.transcript = e.transcript /\ d.runtime = e.runtime /\ d.waiting = e.waiting
    BY <1>2, <1>3, <1>4, <1>7, MaintainedOwned
  <2> HIDE DEF d
  <2>3. Conserved(d, sent, discarded)
    BY <1>2, <1>3, <1>6, <2>2, ConservedSame DEF Core
  <2>4. WakesLatched(d)
    BY <1>1, <1>2, <1>3, <1>7, <2>2 DEF Ready, WakesLatched, Pending
  <2>5. d.at.op = Now.at.op
    BY <1>3, <2>2 DEF Flows
  <2>6. Paired(d)
    BY <1>2, <1>3, <2>2, <2>5 DEF Ready, Paired
  <2>7. d.ops.pending <= Now.ops.pending
    BY <1>2, <1>3, <2>2, Fields
  <2>8. Keeps(Now, d)
    BY <1>2, <1>3, <1>5, <2>2, <2>5, <2>6, <2>7 DEF Keeps
  <2>9. Good(d, sent', discarded') /\ Clear(Now, d)
    BY <1>1, <1>3, <2>2, <2>3, <2>4 DEF Good, Clear
  <2>. QED BY <1>1, <2>1, <2>2, <2>8, <2>9, QuietStep DEF Core
<1>8. CASE phase.by = "turn"
  <2> DEFINE c == Cancelled(e)
             a == [c.at EXCEPT !.switch = "wait"]
             w == Append(c.waiting, "switch")
             d == [c EXCEPT !.at = a, !.waiting = w]
  <2>1. Become(WaitsIdle([c EXCEPT !.at.switch = "wait"], "switch"))
    BY <1>8 DEF TransitionSandboxMode
  <2>2. kept' = [kept EXCEPT !.switch = @ \cup Pending(Now)]
    BY <1>8 DEF TransitionSandboxMode
  <2> HIDE DEF e
  <2>3. /\ c \in Control /\ Owned(c) /\ SyncsOwned(c)
        /\ c.at = at /\ c.held = "quiet" /\ c.ops = Now.ops /\ c.inbox = Now.inbox
        /\ c.transcript = Now.transcript /\ c.syncs = Now.syncs /\ c.waiting = Now.waiting
        /\ c.runtime.life = Now.runtime.life /\ c.phase.by = Now.phase.by
        /\ ClearAt(c, closing)
    BY <1>2, <1>3, <1>4, CancelledIs
  <2> HIDE DEF c
  <2>4. Become(d)
    <3>1. d = WaitsIdle([c EXCEPT !.at.switch = "wait"], "switch")
      BY <2>3 DEF WaitsIdle, Control
    <3>. QED BY <2>1, <3>1
  <2>5. /\ a \in [Flows -> Places] /\ a.switch = "wait" /\ a.op = at.op
        /\ \A g \in Flows : g # "switch" => a[g] = at[g]
    BY <1>2, <2>3 DEF Places, Flows
  <2>6. w \in Seq(Callers) /\ "switch" \in Callers /\ w = Append(Now.waiting, "switch")
        /\ Now.waiting \in Seq(Callers)
    BY <1>2, <2>3, Fields DEF Callers, Flows
  <2> HIDE DEF a, w
  <2>7. /\ d \in Control /\ d.at = a /\ d.waiting = w /\ d.held = "quiet" /\ d.ops = Now.ops
        /\ d.phase = c.phase /\ d.inbox = Now.inbox /\ d.transcript = Now.transcript
        /\ d.syncs = Now.syncs /\ d.runtime = c.runtime
    BY <2>3, <2>5, <2>6 DEF Control
  <2> HIDE DEF d
  <2>8. d.phase.by = "turn"
    BY <1>2, <1>8, <2>3, <2>7
  <2>9. Owned(d)
    <3>1. \A f \in Flows : d.at[f] \in Owning => at[f] \in Owning
      BY <2>5, <2>7 DEF Owning, Starting
    <3>2. \A f \in Flows : at[f] \in Owning => f = "turn"
      BY <1>2, <1>8 DEF Owned
    <3>. QED BY <2>8, <3>1, <3>2 DEF Owned
  <2>10. SyncsOwned(d)
    <3>1. at.switch \notin Owning /\ "switch" \in Flows
      BY <1>5 DEF Owning, Starting, Flows
    <3>. QED BY <1>2, <2>5, <2>7, <3>1, SyncsMoved
  <2>11. ClearAt(d, closing)
    BY <2>3, <2>7 DEF ClearAt
  <2>12. LatchedAt(d, closing, kept'.caller \cup kept'.switch)
    <3>1. Pending(d) \subseteq kept'.switch
      BY <2>2, <2>7 DEF Pending, TypeOK
    <3>. QED BY <3>1 DEF LatchedAt
  <2>13. Conserved(d, sent, discarded)
    BY <1>2, <2>7, ConservedSame
  <2>14. /\ Placed(w, released, "op") /\ (In(w, "op") <=> In(Now.waiting, "op"))
         /\ Placed(w, released, "close") /\ (In(w, "close") <=> In(Now.waiting, "close"))
         /\ Placed(w, released, "switch")
    <3>1. /\ Placed(Now.waiting, released, "op") /\ Placed(Now.waiting, released, "close")
          /\ Placed(Now.waiting, released, "switch") /\ released \in Seq(Callers)
      BY <1>2 DEF OpsQueued, SwitchReserved, Awaits, Winding, TypeOK
    <3>. QED BY <1>5, <2>6, <3>1, PlacedAppend
  <2>15. OpsQueued(d, released)
    BY <1>2, <2>5, <2>7, <2>14 DEF OpsQueued, Awaits
  <2>16. SwitchReserved(d, released)
    BY <2>5, <2>7, <2>14 DEF SwitchReserved, Awaits
  <2>17. Winding(d, released, closing)
    BY <1>1, <1>2, <1>8, <2>7, <2>8, <2>14 DEF Winding
  <2>18. ClaimsClear
    BY <2>4, <2>7, NowIs DEF ClaimsClear, Become
  <2>. QED BY <1>1, <2>4, <2>7, <2>9, <2>10, <2>11, <2>12, <2>13, <2>15, <2>16, <2>17, <2>18, Carried
<1>. QED BY <1>1, <1>7, <1>8

(***************************************************************************)
(* The flows that awaited whenIdle.                                        *)
(***************************************************************************)
LEMMA ReleaseStep ==
  ASSUME TypeOK, AgentInv, Release
  PROVE  Now' \in Control /\ AgentInv' /\ ClaimsClear
<1> DEFINE none == <<>>
           d == [Now EXCEPT !.waiting = none]
<1>1. /\ released = <<>> /\ released' = Now.waiting /\ phase.by = "idle" /\ waiting' = none
      /\ closing' = closing /\ kept' = kept /\ sent' = sent /\ discarded' = discarded
      /\ transcript' = transcript
  BY NowIs DEF Release, IdleReached, input
<1>2. /\ Now \in Control /\ Ready(Now) /\ SyncsOwned(Now) /\ Conserved(Now, sent, discarded)
      /\ sent \in SUBSET Messages /\ discarded \in SUBSET Messages
      /\ Now.phase = phase /\ Now.waiting \in Seq(Callers)
      /\ OpsQueued(Now, released) /\ SwitchReserved(Now, released) /\ Winding(Now, released, closing)
  BY NowReady, NowIs, Fields DEF AgentInv
<1>3. none \in Seq(Callers)
  OBVIOUS
<1>4. /\ \A f \in Callers : ~In(none, f)
      /\ \A f \in Callers : Placed(Now.waiting, none, f) => Placed(none, Now.waiting, f)
  <2>1. \A f \in Callers : ~In(<<>>, f)
    BY DEF In
  <2>2. ASSUME NEW f \in Callers, Placed(Now.waiting, <<>>, f) PROVE Placed(<<>>, Now.waiting, f)
    <3>1. Now.waiting \in Seq(Callers)
      BY <1>2
    <3> HIDE DEF d
    <3>. QED BY <2>2, <3>1, PlacedRelease
  <2>. QED BY <2>1, <2>2
<1>5. /\ \A f \in Callers : Placed(Now.waiting, released, f) => Placed(none, released', f)
  BY <1>1, <1>4
<1> HIDE DEF none
<1>7. /\ d \in Control /\ d.phase = Now.phase /\ d.at = Now.at /\ d.held = Now.held
      /\ d.ops = Now.ops /\ d.inbox = Now.inbox /\ d.transcript = Now.transcript
      /\ d.syncs = Now.syncs /\ d.waiting = none /\ d.runtime = Now.runtime
  BY <1>2, <1>3 DEF Control
<1>15. d.sandbox = Now.sandbox /\ d.goal = Now.goal
  BY <1>2 DEF Control
<1> HIDE DEF d
<1>6. Become(d)
  BY <1>1, <1>7, <1>15, NowIs DEF Become, Release
<1>8. Owned(d) /\ SyncsOwned(d) /\ ClearAt(d, closing')
  BY <1>1, <1>2, <1>7 DEF Ready, Owned, SyncsOwned, TurnIsClear, ClearAt
<1>9. LatchedAt(d, closing', kept'.caller \cup kept'.switch)
  BY <1>1, <1>2, <1>7 DEF Ready, WakesLatched, LatchedAt, Latched, Pending
<1>10. Conserved(d, sent', discarded')
  BY <1>1, <1>2, <1>7, ConservedSame
<1>11. "op" \in Callers /\ "switch" \in Callers /\ "close" \in Callers
  BY DEF Callers, Flows
<1>12. OpsQueued(d, released') /\ SwitchReserved(d, released')
  BY <1>1, <1>2, <1>4, <1>5, <1>7, <1>11 DEF OpsQueued, SwitchReserved, Awaits
<1>13. Winding(d, released', closing')
  BY <1>1, <1>2, <1>4, <1>5, <1>7, <1>11 DEF Winding
<1>14. ClaimsClear
  BY <1>1 DEF ClaimsClear
<1>. QED BY <1>6, <1>7, <1>8, <1>9, <1>10, <1>12, <1>13, <1>14, Carried

LEMMA TailKept ==
  ASSUME TypeOK, AgentInv, NEW f \in {"op", "switch", "close"}, Resumed(f)
  PROVE  LET gone == Tail(released) IN
         /\ released' = gone /\ gone \in Seq(Callers)
         /\ OpsQueued(Now, gone) /\ SwitchReserved(Now, gone) /\ Winding(Now, gone, closing)
         /\ In(released, f) /\ ~In(gone, f) /\ ~In(Now.waiting, f)
         /\ f \in {"op", "switch"} => at[f] = "wait"
<1> DEFINE gone == Tail(released)
<1>1. /\ Now \in Control /\ Now.waiting \in Seq(Callers) /\ released \in Seq(Callers) /\ Now.at = at
      /\ OpsQueued(Now, released) /\ SwitchReserved(Now, released) /\ Winding(Now, released, closing)
  BY NowReady, NowIs, Fields DEF AgentInv, TypeOK
<1>2. released # <<>> /\ Head(released) = f /\ released' = gone
  BY DEF Resumed
<1>3. \A g \in Callers : Placed(Now.waiting, released, g) =>
        /\ gone \in Seq(Callers)
        /\ Placed(Now.waiting, gone, g) /\ (In(gone, g) => In(released, g))
        /\ Head(released) = g => In(released, g) /\ ~In(gone, g) /\ ~In(Now.waiting, g)
  BY <1>1, <1>2, PlacedTail
<1> HIDE DEF gone
<1>4. "op" \in Callers /\ "switch" \in Callers /\ "close" \in Callers
  BY DEF Callers, Flows
<1>6. OpsQueued(Now, gone) /\ SwitchReserved(Now, gone)
  BY <1>1, <1>3, <1>4 DEF OpsQueued, SwitchReserved, Awaits
<1>7. Winding(Now, gone, closing)
  BY <1>1, <1>3, <1>4 DEF Winding
<1>8. In(released, f) /\ ~In(gone, f) /\ ~In(Now.waiting, f) /\ gone \in Seq(Callers)
  BY <1>1, <1>2, <1>3, <1>4 DEF OpsQueued, SwitchReserved, Awaits, Winding
<1>. QED BY <1>1, <1>2, <1>6, <1>7, <1>8 DEF OpsQueued, SwitchReserved, Awaits, gone

(* The flow f, let go, resumes with the call that gives d.                  *)
LEMMA ResumedStep ==
  ASSUME TypeOK, AgentInv, NEW f \in {"op", "switch"}, Resumed(f),
         NEW c \in Control, Alike([Now EXCEPT !.at[f] = "run"], c),
         NEW d \in Control, Become(d), Good(d, sent, discarded), Keeps(c, d), Clear(Now, d),
         closing' = closing, kept' = kept, sent' = sent, discarded' = discarded
  PROVE  Now' \in Control /\ AgentInv' /\ ClaimsClear
<1> DEFINE gone == Tail(released)
<1>1. /\ released' = gone /\ gone \in Seq(Callers)
      /\ OpsQueued(Now, gone) /\ SwitchReserved(Now, gone) /\ Winding(Now, gone, closing)
      /\ ~In(gone, f) /\ ~In(Now.waiting, f) /\ at[f] = "wait"
  BY TailKept
<1>2. Now \in Control /\ Now.at = at /\ at \in [Flows -> Places]
  BY NowReady, NowIs, Fields
<1> HIDE DEF gone
<1>3. /\ c.phase = Now.phase /\ c.held = Now.held /\ c.ops = Now.ops /\ c.waiting = Now.waiting
      /\ c.runtime.life = Now.runtime.life
      /\ c.at[f] = "run" /\ \A g \in Flows : g # f => c.at[g] = at[g]
  BY <1>2 DEF Alike, Flows, Control
<1>4. OpsQueued(c, gone) /\ SwitchReserved(c, gone)
  BY <1>1, <1>2, <1>3 DEF OpsQueued, SwitchReserved, Awaits, Flows
<1>5. Winding(c, gone, closing)
  BY <1>1, <1>3 DEF Winding
<1>6. OpsQueued(d, gone) /\ SwitchReserved(d, gone) /\ Winding(d, gone, closing)
  BY <1>1, <1>4, <1>5, QueuesKept
<1>7. ClearAt(d, closing') /\ LatchedAt(d, closing', kept'.caller \cup kept'.switch)
  BY DEF Good, Core, TurnIsClear, ClearAt, WakesLatched, LatchedAt, Latched
<1>8. Now' \in Control /\ AgentInv'
  BY <1>1, <1>6, <1>7, Carried DEF Good, Core
<1>9. ClaimsClear
  BY NowIs DEF ClaimsClear, Clear, Become
<1>. QED BY <1>8, <1>9

(* A maintenance of a flow that awaited an idle agent.                      *)
LEMMA ResumedMaintained ==
  ASSUME TypeOK, AgentInv, NEW f \in {"op", "switch"}, Resumed(f), phase.by = "idle",
         NEW mode \in Modes, Become(Maintained(Now, f, mode)),
         closing' = closing, kept' = kept, sent' = sent, discarded' = discarded
  PROVE  Now' \in Control /\ AgentInv' /\ ClaimsClear
<1> DEFINE c == With(Now, [at EXCEPT ![f] = "run"], Now.runtime, Now.syncs, Now.goal, Now.sandbox)
           d == Maintained(Now, f, mode)
<1>1. /\ Now \in Control /\ Ready(Now) /\ SyncsOwned(Now) /\ Conserved(Now, sent, discarded)
      /\ Owned(Now) /\ sent \in SUBSET Messages /\ discarded \in SUBSET Messages
      /\ Now.phase = phase /\ Now.at = at /\ at \in [Flows -> Places]
  BY NowReady, NowIs, Fields DEF Ready
<1>2. at[f] = "wait"
  BY TailKept
<1>3. /\ c \in Control /\ c.at = [at EXCEPT ![f] = "run"] /\ Beside(Now, c) /\ c.runtime = Now.runtime
      /\ c.syncs = Now.syncs
  <2>1. [at EXCEPT ![f] = "run"] \in [Flows -> Places]
    BY <1>1 DEF Places
  <2>2. Fit([at EXCEPT ![f] = "run"], Now.runtime, Now.syncs, Now.goal, Now.sandbox)
    BY <1>1, <2>1, Fields DEF Fit
  <2>. QED BY <1>1, <2>2, Replaced DEF Beside, Ready, Paired
<1> HIDE DEF c
<1>4. Alike([Now EXCEPT !.at[f] = "run"], c)
  BY <1>1, <1>3 DEF Alike, Beside, Control
<1>5. /\ Core(d) /\ d.at[f] \in {"close", "sync"}
      /\ \A g \in Flows : g # f => d.at[g] = Now.at[g]
      /\ d.phase.by = f /\ Now.phase.wake = FALSE
      /\ d.held = Now.held /\ d.ops = Now.ops /\ d.inbox = Now.inbox
      /\ d.transcript = Now.transcript /\ d.runtime = Now.runtime /\ d.waiting = Now.waiting
  BY <1>1, MaintainedOwned
<1> HIDE DEF d
<1>6. Conserved(d, sent, discarded)
  BY <1>1, <1>5, ConservedSame DEF Core
<1>7. WakesLatched(d)
  BY <1>1, <1>5 DEF Ready, WakesLatched, Pending
<1>8. Paired(d)
  BY <1>1, <1>2, <1>5 DEF Ready, Paired, Flows
<1>9. d.ops.pending <= Now.ops.pending
  BY <1>1, <1>5, Fields
<1>10. \A g \in {"op", "switch"} : c.at[g] = "wait" => d.at[g] = "wait"
  BY <1>1, <1>3, <1>5 DEF Flows
<1>11. Keeps(c, d)
  BY <1>3, <1>5, <1>8, <1>9, <1>10 DEF Keeps, Beside
<1>12. Good(d, sent, discarded) /\ Clear(Now, d) /\ d \in Control
  BY <1>5, <1>6, <1>7 DEF Good, Clear, Core
<1>. QED BY <1>3, <1>4, <1>11, <1>12, ResumedStep DEF d

LEMMA ResumeOpStep ==
  ASSUME TypeOK, AgentInv, ResumeOp
  PROVE  Now' \in Control /\ AgentInv' /\ ClaimsClear
<1> DEFINE c == With(Now, [at EXCEPT !.op = "run"], Now.runtime, Now.syncs, Now.goal, Now.sandbox)
<1>1. /\ Resumed("op") /\ closing' = closing /\ kept' = kept
      /\ sent' = sent /\ discarded' = discarded
  BY DEF ResumeOp, input
<1>2. /\ Now \in Control /\ Ready(Now) /\ SyncsOwned(Now) /\ Conserved(Now, sent, discarded)
      /\ Owned(Now) /\ sent \in SUBSET Messages /\ discarded \in SUBSET Messages
      /\ Now.phase = phase /\ Now.at = at /\ at \in [Flows -> Places] /\ sandbox \in Modes
  BY NowReady, NowIs, Fields DEF Ready
<1>3. at.op = "wait"
  BY <1>1, TailKept
<1>4. /\ c \in Control /\ c.at = [at EXCEPT !.op = "run"] /\ Beside(Now, c) /\ c.runtime = Now.runtime
      /\ c.syncs = Now.syncs
  <2>1. [at EXCEPT !.op = "run"] \in [Flows -> Places]
    BY <1>2 DEF Places
  <2>2. Fit([at EXCEPT !.op = "run"], Now.runtime, Now.syncs, Now.goal, Now.sandbox)
    BY <1>2, <2>1, Fields DEF Fit
  <2>. QED BY <1>2, <2>2, Replaced DEF Beside, Ready, Paired
<1>5. c = [Now EXCEPT !.at.op = "run"]
  BY <1>2 DEF With, Control
<1> HIDE DEF c
<1>6. Alike([Now EXCEPT !.at["op"] = "run"], c)
  BY <1>2, <1>4 DEF Alike, Beside, Control
<1>7. Now.phase.by # "op" /\ Now.ops.pending \in Nat /\ Now.ops.pending > 0
  <2>1. Now.phase.by # "op"
    BY <1>2, <1>3 DEF Owned, Owning, Starting
  <2>2. Now.ops.pending # 0 /\ Now.ops.pending \in Nat
    BY <1>2, <1>3, Fields DEF Ready, Paired
  <2>. QED BY <2>1, <2>2
<1>8. CASE ~NeedsRestart(Now)
  <2>1. Become(c)
    BY <1>5, <1>8 DEF ResumeOp
  <2>2. Owned(c)
    BY <1>2, <1>4 DEF Owned, Beside, Owning, Starting, Flows
  <2>3. SyncsOwned(c)
    <3>1. at.op \notin Owning /\ "op" \in Flows
      BY <1>3 DEF Owning, Starting, Flows
    <3>2. \A g \in Flows : g # "op" => c.at[g] = Now.at[g]
      BY <1>2, <1>4
    <3>. QED BY <1>2, <1>4, <3>1, <3>2, SyncsMoved
  <2>4. TurnIsClear(c) /\ WakesLatched(c)
    BY <1>2, <1>4 DEF Ready, Beside, TurnIsClear, WakesLatched, Pending
  <2>5. Conserved(c, sent, discarded)
    BY <1>2, <1>4, ConservedSame DEF Beside
  <2>6. Good(c, sent, discarded) /\ Clear(Now, c)
    BY <1>4, <2>2, <2>3, <2>4, <2>5 DEF Good, Core, Clear, Beside
  <2>7. Paired(c) /\ c.ops.pending <= c.ops.pending
    BY <1>2, <1>3, <1>4, <1>7 DEF Paired, Ready, Beside, Flows
  <2>8. Keeps(c, c)
    BY <2>7 DEF Keeps
  <2>. QED BY <1>1, <1>4, <1>6, <2>1, <2>6, <2>8, ResumedStep
<1>9. CASE NeedsRestart(Now) /\ phase.by = "idle"
  <2>1. Become(Maintained(Now, "op", sandbox))
    BY <1>9 DEF ResumeOp
  <2>. QED BY <1>1, <1>2, <1>9, <2>1, ResumedMaintained
<1>10. CASE NeedsRestart(Now) /\ phase.by # "idle"
  <2> DEFINE d == FinishModelOperation(Now)
  <2>1. Become(d)
    BY <1>10 DEF ResumeOp
  <2>2. /\ Core(d) /\ Conserved(d, sent, discarded) /\ Clear(Now, d) /\ NoNewTurn(Now, d)
        /\ WakesLatched(d)
        /\ HeadMoved(Now, d, Now.ops.pending - 1) /\ d.runtime = Now.runtime
        /\ d.at.switch = Now.at.switch
        /\ d.held = "no" <=> Now.held = "no"
    BY <1>2, <1>7, FinishOwned DEF Ready
  <2> HIDE DEF d
  <2>3. Paired(d)
    BY <1>2, <1>7, <2>2 DEF Paired, HeadMoved, Ready
  <2>4. d.ops.pending <= c.ops.pending
    BY <1>4, <1>7, <2>2 DEF HeadMoved, Beside
  <2>5. c.at.op = "run" /\ c.at.switch = at.switch
    BY <1>2, <1>4 DEF Flows
  <2>6. Keeps(c, d)
    BY <1>2, <1>4, <2>2, <2>3, <2>4, <2>5 DEF Keeps, HeadMoved, NoNewTurn, Beside
  <2>7. Good(d, sent, discarded) /\ d \in Control
    BY <2>2 DEF Good, Core
  <2>. QED BY <1>1, <1>4, <1>6, <2>1, <2>2, <2>6, <2>7, ResumedStep
<1>. QED BY <1>8, <1>9, <1>10

LEMMA ResumeSwitchStep ==
  ASSUME TypeOK, AgentInv, ResumeSwitch
  PROVE  Now' \in Control /\ AgentInv' /\ ClaimsClear
<1> DEFINE c == With(Now, [at EXCEPT !.switch = "run"], Now.runtime, Now.syncs, Now.goal, Now.sandbox)
<1>1. /\ Resumed("switch") /\ closing' = closing /\ kept' = kept
      /\ sent' = sent /\ discarded' = discarded
  BY DEF ResumeSwitch, input
<1>2. /\ Now \in Control /\ Ready(Now) /\ SyncsOwned(Now) /\ Conserved(Now, sent, discarded)
      /\ Owned(Now) /\ sent \in SUBSET Messages /\ discarded \in SUBSET Messages
      /\ Now.phase = phase /\ Now.at = at /\ at \in [Flows -> Places] /\ goal \in Modes
  BY NowReady, NowIs, Fields DEF Ready
<1>3. at.switch = "wait"
  BY <1>1, TailKept
<1>4. CASE phase.by = "idle" /\ Become(Maintained(Now, "switch", goal))
  BY <1>1, <1>2, <1>4, ResumedMaintained
<1>5. CASE Become(SwitchEnded(Now))
  <2> DEFINE d == SwitchEnded(Now)
  <2>1. /\ c \in Control /\ c.at = [at EXCEPT !.switch = "run"] /\ Beside(Now, c)
        /\ c.runtime = Now.runtime /\ c.syncs = Now.syncs
    <3>1. [at EXCEPT !.switch = "run"] \in [Flows -> Places]
      BY <1>2 DEF Places
    <3>2. Fit([at EXCEPT !.switch = "run"], Now.runtime, Now.syncs, Now.goal, Now.sandbox)
      BY <1>2, <3>1, Fields DEF Fit
    <3>. QED BY <1>2, <3>2, Replaced DEF Beside, Ready, Paired
  <2> HIDE DEF c
  <2>2. Alike([Now EXCEPT !.at["switch"] = "run"], c)
    BY <1>2, <2>1 DEF Alike, Beside, Control
  <2>3. Now.phase.by # "switch"
    BY <1>2, <1>3 DEF Owned, Owning, Starting
  <2>4. /\ Core(d) /\ Conserved(d, sent, discarded) /\ Frame(Now, d) /\ Clear(Now, d)
        /\ NoNewTurn(Now, d)
        /\ WakesLatched(d) /\ d.at.op = Now.at.op /\ d.held = "no" /\ d.at.switch = "none"
    <3>1. Core(Now) /\ WakesLatched(Now)
      BY <1>2 DEF Ready, Core
    <3>. QED BY <1>2, <2>3, <3>1, SwitchEndedOwned
  <2> HIDE DEF d
  <2>5. Paired(d)
    BY <1>2, <2>4 DEF Paired, Ready, Frame
  <2>6. d.ops.pending <= c.ops.pending
    BY <1>2, <2>1, <2>4, Fields DEF Frame, Beside
  <2>7. c.at.switch = "run" /\ c.at.op = at.op
    BY <1>2, <2>1 DEF Flows
  <2>8. Keeps(c, d)
    BY <1>2, <2>1, <2>4, <2>5, <2>6, <2>7 DEF Keeps, Frame, NoNewTurn, Beside
  <2>9. Good(d, sent, discarded) /\ d \in Control
    BY <2>4 DEF Good, Core
  <2>. QED BY <1>1, <1>5, <2>1, <2>2, <2>4, <2>8, <2>9, ResumedStep DEF d
<1>. QED BY <1>4, <1>5 DEF ResumeSwitch

(***************************************************************************)
(* Disposal.                                                               *)
(***************************************************************************)
LEMMA ResumeCloseStep ==
  ASSUME TypeOK, AgentInv, ResumeClose
  PROVE  Now' \in Control /\ AgentInv' /\ ClaimsClear
<1> DEFINE r == IF closing = "idle" THEN Now.runtime ELSE [Now.runtime EXCEPT !.retired = TRUE]
           d == With(Now, Now.at, r, Now.syncs, Now.goal, Now.sandbox)
           gone == Tail(released)
<1>1. /\ Resumed("close") /\ kept' = kept /\ sent' = sent /\ discarded' = discarded
      /\ closing' = IF closing = "idle" THEN "ops" ELSE "process"
  BY DEF ResumeClose, input
<1>2. /\ Now \in Control /\ Ready(Now) /\ SyncsOwned(Now) /\ Conserved(Now, sent, discarded)
      /\ Owned(Now) /\ sent \in SUBSET Messages /\ discarded \in SUBSET Messages
      /\ Now.phase = phase /\ Now.at = at /\ Now.runtime \in Runtimes
      /\ Winding(Now, released, closing)
  BY NowReady, NowIs, Fields DEF Ready, AgentInv
<1>3. /\ released' = gone
      /\ OpsQueued(Now, gone) /\ SwitchReserved(Now, gone) /\ Winding(Now, gone, closing)
      /\ In(released, "close") /\ ~In(gone, "close") /\ ~In(Now.waiting, "close")
  BY <1>1, TailKept
<1>4. closing \in {"idle", "idle again"} /\ Now.phase.by # "turn"
  BY <1>2, <1>3 DEF Winding
<1>5. r \in Runtimes /\ r.life = Now.runtime.life
  BY <1>2 DEF Runtimes
<1>6. Become(d)
  BY <1>2, NowIs DEF Become, With, ResumeClose, Control
<1> HIDE DEF r, gone
<1>7. Fit(Now.at, r, Now.syncs, Now.goal, Now.sandbox)
  BY <1>2, <1>5, Fields DEF Fit
<1>8. /\ d \in Control /\ Alike(Now, d) /\ d.inbox = Now.inbox /\ d.transcript = Now.transcript
  BY <1>2, <1>5, <1>7, Replaced DEF Alike
<1> HIDE DEF d
<1>9. Core(d)
  BY <1>2, <1>8, AlikeOwned DEF Ready
<1>10. closing' \in {"ops", "process"} /\ (closing' = "process" => closing = "idle again")
  BY <1>1, <1>4
<1>11. ClearAt(d, closing') /\ LatchedAt(d, closing', kept'.caller \cup kept'.switch)
  BY <1>4, <1>8, <1>10 DEF ClearAt, LatchedAt, Alike
<1>12. Conserved(d, sent', discarded')
  BY <1>1, <1>2, <1>8, ConservedSame
<1>13. OpsQueued(d, released') /\ SwitchReserved(d, released') /\ Winding(d, gone, closing)
  BY <1>2, <1>3, <1>8, AlikeQueues
<1>14. Winding(d, released', closing')
  BY <1>3, <1>4, <1>8, <1>10, <1>13 DEF Winding, Alike
<1>15. ClaimsClear
  BY <1>6, <1>8, NowIs DEF ClaimsClear, Become
<1>. QED BY <1>6, <1>8, <1>9, <1>11, <1>12, <1>13, <1>14, <1>15, Carried DEF Core

(* The inbox is dropped and the owner of the phase is cancelled.            *)
LEMMA DisposedIs ==
  ASSUME TypeOK, AgentInv
  PROVE  LET d == Disposed(Now) IN
         /\ d \in Control /\ Owned(d) /\ SyncsOwned(d) /\ \A stage : ClearAt(d, stage)
         /\ d.at = at /\ d.held = held /\ d.ops = ops /\ d.transcript = transcript
         /\ d.syncs = syncs /\ d.waiting = waiting
         /\ d.runtime.life = runtime.life /\ d.phase.by = phase.by
         /\ Conserved(d, sent, discarded \cup Pending(Now))
         /\ OpsQueued(d, released) /\ SwitchReserved(d, released) /\ Winding(d, released, closing)
<1> DEFINE e == Cleared(Now)
           d == Cancelled(e)
<1>1. /\ Now \in Control /\ Ready(Now) /\ SyncsOwned(Now) /\ Owned(Now)
      /\ sent \in SUBSET Messages
      /\ OpsQueued(Now, released) /\ SwitchReserved(Now, released) /\ Winding(Now, released, closing)
  BY NowReady DEF Ready, AgentInv
<1>2. d = Disposed(Now)
  BY DEF Disposed, Cleared
<1>3. /\ e \in Control /\ Alike(Now, e) /\ e.transcript = transcript
      /\ Conserved(e, sent, discarded \cup Pending(Now))
      /\ discarded \cup Pending(Now) \in SUBSET Messages
  BY ClearedIs
<1> HIDE DEF e
<1>4. Owned(e) /\ SyncsOwned(e)
  BY <1>1, <1>3, AlikeOwned DEF Ready, Core
<1>5. OpsQueued(e, released) /\ SwitchReserved(e, released) /\ Winding(e, released, closing)
  BY <1>1, <1>3, AlikeQueues
<1>6. /\ d \in Control /\ Owned(d) /\ SyncsOwned(d)
      /\ d.at = e.at /\ d.held = e.held /\ d.ops = e.ops /\ d.inbox = e.inbox
      /\ d.transcript = e.transcript /\ d.syncs = e.syncs /\ d.waiting = e.waiting
      /\ d.runtime.life = e.runtime.life /\ d.phase.by = e.phase.by
      /\ \A stage : ClearAt(d, stage)
  BY <1>3, <1>4, CancelledIs
<1> HIDE DEF d
<1>7. Conserved(d, sent, discarded \cup Pending(Now))
  BY <1>1, <1>3, <1>6, ConservedSame
<1>8. OpsQueued(d, released) /\ SwitchReserved(d, released) /\ Winding(d, released, closing)
  BY <1>5, <1>6 DEF OpsQueued, SwitchReserved, Awaits, Winding
<1>. QED BY <1>2, <1>3, <1>6, <1>7, <1>8, NowIs DEF Alike

LEMMA CloseProviderSessionStep ==
  ASSUME TypeOK, AgentInv, CloseProviderSession
  PROVE  Now' \in Control /\ AgentInv' /\ ClaimsClear
<1> DEFINE d == Disposed(Now)
<1>1. /\ Become(d) /\ discarded' = discarded \cup Pending(Now) /\ closing = "open"
      /\ closing' = "session" /\ released' = released /\ sent' = sent
  BY DEF CloseProviderSession
<1>2. /\ d \in Control /\ Owned(d) /\ SyncsOwned(d) /\ ClearAt(d, closing')
      /\ d.transcript = transcript
      /\ Conserved(d, sent, discarded \cup Pending(Now))
      /\ OpsQueued(d, released) /\ SwitchReserved(d, released) /\ Winding(d, released, closing)
  BY DisposedIs
<1> HIDE DEF d
<1>3. LatchedAt(d, closing', kept'.caller \cup kept'.switch)
  BY <1>1 DEF LatchedAt
<1>4. Winding(d, released', closing')
  BY <1>1, <1>2 DEF Winding
<1>5. ClaimsClear
  BY <1>1, <1>2 DEF ClaimsClear, Become
<1>. QED BY <1>1, <1>2, <1>3, <1>4, <1>5, Carried

LEMMA CallerAppended ==
  ASSUME NEW s \in Seq(Callers), NEW f \in Callers
  PROVE  Append(s, f) \in Seq(Callers)
OBVIOUS

(* Disposal joins the flows that await whenIdle.                            *)
LEMMA CloseWaits ==
  ASSUME TypeOK, AgentInv, NEW c \in Control, Owned(c), SyncsOwned(c), \A stage : ClearAt(c, stage),
         c.transcript = transcript, Conserved(c, sent', discarded'),
         OpsQueued(c, released), SwitchReserved(c, released), Winding(c, released, closing),
         sent' \in SUBSET Messages, discarded' \in SUBSET Messages,
         closing \in {"session", "ops"}, closing' \in {"idle", "idle again"},
         closing' = "idle again" => closing = "ops" /\ c.ops.pending = 0,
         Become(WaitsIdle(c, "close")), released' = released
  PROVE  Now' \in Control /\ AgentInv' /\ ClaimsClear
<1> DEFINE w == Append(c.waiting, "close")
           d == [c EXCEPT !.waiting = w]
<1> HIDE DEF d
<1>1. c.waiting \in Seq(Callers) /\ released \in Seq(Callers) /\ "close" \in Callers
  BY Fields DEF TypeOK, Callers
<1>2. w \in Seq(Callers)
  BY <1>1, CallerAppended
<1>3. ~In(c.waiting, "close") /\ ~In(released, "close")
  BY DEF Winding
<1>4. \A f \in {"op", "switch", "close"} : Placed(c.waiting, released, f)
  BY DEF OpsQueued, SwitchReserved, Awaits, Winding
<1>5. \A f \in {"op", "switch", "close"} :
        Placed(w, released, f) /\ (In(w, f) <=> In(c.waiting, f) \/ "close" = f)
  <2> SUFFICES ASSUME NEW f \in {"op", "switch", "close"}
               PROVE  Placed(w, released, f) /\ (In(w, f) <=> In(c.waiting, f) \/ "close" = f)
    OBVIOUS
  <2>1. Placed(c.waiting, released, f)
    BY <1>4
  <2>2. "close" = f => ~In(c.waiting, f) /\ ~In(released, f)
    BY <1>3
  <2>. QED BY <1>1, <2>1, <2>2, PlacedAppend
<1> USE DEF d
<1>6. Become(d)
  BY DEF WaitsIdle
<1> HIDE DEF w
<1>7. /\ d \in Control /\ d.phase = c.phase /\ d.at = c.at /\ d.held = c.held /\ d.ops = c.ops
      /\ d.inbox = c.inbox /\ d.transcript = c.transcript /\ d.syncs = c.syncs
      /\ d.waiting = w /\ d.runtime = c.runtime
  BY <1>2 DEF Control
<1> HIDE DEF d
<1>8. Owned(d) /\ SyncsOwned(d) /\ ClearAt(d, closing')
  <2>1. Owned(d) /\ SyncsOwned(d)
    <3>1. Owned(d)
      BY <1>7 DEF Owned
    <3>2. SyncsOwned(d)
      BY <1>7 DEF SyncsOwned
    <3>. QED BY <3>1, <3>2
  <2>2. ClearAt(c, closing')
    OBVIOUS
  <2>3. ClearAt(d, closing')
    BY <1>7, <2>2 DEF ClearAt
  <2>. QED BY <2>1, <2>3
<1>9. LatchedAt(d, closing', kept'.caller \cup kept'.switch)
  BY DEF LatchedAt
<1>10. Conserved(d, sent', discarded')
  BY <1>7, ConservedSame
<1>11. OpsQueued(d, released') /\ SwitchReserved(d, released')
  BY <1>5, <1>7 DEF OpsQueued, SwitchReserved, Awaits
<1>12. Winding(d, released', closing')
  BY <1>3, <1>5, <1>7 DEF Winding
<1>13. ClaimsClear
  BY <1>6, <1>7 DEF ClaimsClear, Become
<1>. QED BY <1>6, <1>7, <1>8, <1>9, <1>10, <1>11, <1>12, <1>13, Carried

LEMMA CloseStep ==
  ASSUME TypeOK, AgentInv, Close
  PROVE  Now' \in Control /\ AgentInv' /\ ClaimsClear
<1> DEFINE c == Disposed(Now)
<1>1. /\ Become(WaitsIdle(c, "close")) /\ discarded' = discarded \cup Pending(Now)
      /\ closing = "session" /\ closing' = "idle" /\ released' = released /\ sent' = sent
  BY DEF Close
<1>2. /\ c \in Control /\ Owned(c) /\ SyncsOwned(c) /\ \A stage : ClearAt(c, stage)
      /\ c.transcript = transcript /\ Conserved(c, sent, discarded \cup Pending(Now))
      /\ OpsQueued(c, released) /\ SwitchReserved(c, released) /\ Winding(c, released, closing)
  BY DisposedIs
<1>3. sent \in SUBSET Messages /\ discarded \cup Pending(Now) \in SUBSET Messages
  BY ClearedIs, NowReady
<1> HIDE DEF c
<1>. QED BY <1>1, <1>2, <1>3, CloseWaits

LEMMA OperationsDrainedStep ==
  ASSUME TypeOK, AgentInv, OperationsDrained
  PROVE  Now' \in Control /\ AgentInv' /\ ClaimsClear
<1>1. /\ Become(WaitsIdle(Now, "close")) /\ discarded' = discarded /\ sent' = sent
      /\ closing = "ops" /\ closing' = "idle again" /\ released' = released
      /\ ops.pending = 0
  BY DEF OperationsDrained, input
<1>2. /\ Now \in Control /\ Owned(Now) /\ SyncsOwned(Now)
      /\ sent \in SUBSET Messages /\ discarded \in SUBSET Messages
      /\ Now.transcript = transcript /\ Conserved(Now, sent, discarded) /\ Now.ops = ops
      /\ OpsQueued(Now, released) /\ SwitchReserved(Now, released) /\ Winding(Now, released, closing)
  BY NowReady, NowIs DEF Ready, AgentInv
<1>3. \A stage : ClearAt(Now, stage)
  BY <1>1, <1>2 DEF Winding, ClearAt
<1>. QED BY <1>1, <1>2, <1>3, CloseWaits

LEMMA ProcessClosedStep ==
  ASSUME TypeOK, AgentInv, ProcessClosed
  PROVE  Now' \in Control /\ AgentInv' /\ ClaimsClear
<1> DEFINE r == [Now.runtime EXCEPT !.life = IF @ = "none" THEN "none" ELSE "closed"]
           d == With(Now, Now.at, r, Now.syncs, Now.goal, Now.sandbox)
<1>1. /\ closing = "process" /\ closing' = "closed" /\ released' = released
      /\ kept' = kept /\ sent' = sent /\ discarded' = discarded
  BY DEF ProcessClosed, input
<1>2. /\ Now \in Control /\ Ready(Now) /\ SyncsOwned(Now) /\ Conserved(Now, sent, discarded)
      /\ Owned(Now) /\ sent \in SUBSET Messages /\ discarded \in SUBSET Messages
      /\ Now.runtime \in Runtimes
      /\ OpsQueued(Now, released) /\ SwitchReserved(Now, released) /\ Winding(Now, released, closing)
  BY NowReady, Fields DEF Ready, AgentInv
<1>3. Become(d)
  <2>1. d = [Now EXCEPT !.runtime.life = IF @ = "none" THEN "none" ELSE "closed"]
    BY <1>2 DEF Control, With
  <2>. QED BY <2>1 DEF ProcessClosed
<1>4. r \in Runtimes /\ r.life \in {"none", "closed"}
  BY <1>2 DEF Runtimes
<1> HIDE DEF r
<1>5. Fit(Now.at, r, Now.syncs, Now.goal, Now.sandbox)
  BY <1>2, <1>4, Fields DEF Fit
<1>6. /\ d \in Control /\ d.phase = Now.phase /\ d.at = Now.at /\ d.held = Now.held
      /\ d.ops = Now.ops /\ d.inbox = Now.inbox /\ d.transcript = Now.transcript
      /\ d.syncs = Now.syncs /\ d.waiting = Now.waiting /\ d.runtime = r
  BY <1>2, <1>5, Replaced
<1> HIDE DEF d
<1>7. Owned(d) /\ SyncsOwned(d)
  BY <1>2, <1>6 DEF Owned, SyncsOwned
<1>8. ClearAt(d, closing') /\ LatchedAt(d, closing', kept'.caller \cup kept'.switch)
  BY <1>1, <1>2, <1>6 DEF ClearAt, LatchedAt, Winding
<1>9. Conserved(d, sent', discarded')
  BY <1>1, <1>2, <1>6, ConservedSame
<1>10. OpsQueued(d, released') /\ SwitchReserved(d, released')
  BY <1>1, <1>2, <1>6 DEF OpsQueued, SwitchReserved, Awaits
<1>11. Winding(d, released', closing')
  BY <1>1, <1>2, <1>4, <1>6 DEF Winding
<1>12. ClaimsClear
  BY <1>3, <1>6, NowIs DEF ClaimsClear, Become
<1>. QED BY <1>3, <1>6, <1>7, <1>8, <1>9, <1>10, <1>11, <1>12, Carried

(***************************************************************************)
(* The rest of the state.                                                  *)
(***************************************************************************)
Rest ==
  /\ released \in Seq(Callers)
  /\ closing \in {"open", "session", "idle", "ops", "idle again", "process", "closed"}
  /\ steering \subseteq Messages /\ sent \subseteq Messages /\ discarded \subseteq Messages
  /\ kept \in [caller : SUBSET Messages, switch : SUBSET Messages] /\ used \in 0..MaxEvents

LEMMA RestOfTypes == TypeOK <=> Now \in Control /\ Rest
BY DEF TypeOK, Rest

LEMMA RestSame ==
  ASSUME Rest, UNCHANGED <<released, input, closing, used>>
  PROVE  Rest'
BY DEF Rest, input

LEMMA CallerTail ==
  ASSUME NEW s \in Seq(Callers), s # <<>>
  PROVE  Tail(s) \in Seq(Callers)
OBVIOUS

LEMMA RestTail ==
  ASSUME Rest, NEW f \in Callers, Resumed(f), UNCHANGED <<input, used>>,
         closing' \in {"open", "session", "idle", "ops", "idle again", "process", "closed"}
  PROVE  Rest'
<1>1. released' = Tail(released) /\ released # <<>> /\ released \in Seq(Callers)
  BY DEF Resumed, Rest
<1>2. Tail(released) \in Seq(Callers)
  BY <1>1, CallerTail
<1>. QED BY <1>1, <1>2 DEF Rest, input

LEMMA RestEvent ==
  ASSUME Rest, Event, closing' = closing,
         steering' \subseteq Messages, sent' \subseteq Messages, discarded' \subseteq Messages,
         kept' \in [caller : SUBSET Messages, switch : SUBSET Messages]
  PROVE  Rest'
<1>1. released' = released /\ used < MaxEvents /\ used' = used + 1
  BY DEF Event
<1>2. used' \in 0..MaxEvents
  <2>1. used \in 0..MaxEvents /\ MaxEvents \in Nat
    BY AgentAssumption DEF Rest
  <2>. QED BY <1>1, <2>1
<1>. QED BY <1>1, <1>2 DEF Rest

LEMMA CallTyped ==
  ASSUME TypeOK, AgentInv, Call
  PROVE  Rest'
<1>1. Rest /\ Pending(Now) \subseteq Messages
  BY RestOfTypes, ClearedIs
<1>2. ASSUME NEW m \in Messages, Followup(m) \/ Steer(m) PROVE Rest'
  <2>1. UNCHANGED <<released, discarded, kept, closing, used>>
    BY <1>2 DEF Followup, Steer
  <2>2. sent' = sent \cup {m} /\ steering' \in {steering, steering \cup {m}}
    BY <1>2 DEF Followup, Steer, Send
  <2>. QED BY <1>1, <2>1, <2>2 DEF Rest
<1>3. ASSUME NEW keep \in BOOLEAN, Cancel(keep) PROVE Rest'
  <2>1. /\ Event /\ closing' = closing /\ steering' = steering /\ sent' = sent
        /\ discarded' \in {discarded, discarded \cup Pending(Now)}
        /\ kept' \in {kept, [kept EXCEPT !.caller = @ \cup Pending(Now)]}
    BY <1>3 DEF Cancel
  <2>. QED BY <1>1, <2>1, RestEvent DEF Rest
<1>4. ASSUME NEW mode \in Modes, SetSandbox(mode) PROVE Rest'
  <2>1. /\ Event /\ closing' = closing /\ steering' = steering /\ sent' = sent
        /\ discarded' = discarded
        /\ kept' \in {kept, [kept EXCEPT !.caller = @ \cup Pending(Now)]}
    BY <1>4 DEF SetSandbox
  <2>. QED BY <1>1, <2>1, RestEvent DEF Rest
<1>5. ASSUME NEW mode \in Modes, TransitionSandboxMode(mode) PROVE Rest'
  <2>1. /\ Event /\ closing' = closing /\ steering' = steering /\ sent' = sent
        /\ discarded' = discarded
        /\ kept' \in {kept, [kept EXCEPT !.switch = @ \cup Pending(Now)]}
    BY <1>5 DEF TransitionSandboxMode
  <2>. QED BY <1>1, <2>1, RestEvent DEF Rest
<1>6. ASSUME NEW mode \in Modes, ProviderMode(mode) PROVE Rest'
  BY <1>1, <1>6, RestEvent DEF ProviderMode, input, Rest
<1>7. CASE ModelOperation \/ ConnectionLost
  BY <1>1, <1>7, RestEvent DEF ModelOperation, ConnectionLost, input, Rest
<1>8. CASE CloseProviderSession
  BY <1>1, <1>8 DEF CloseProviderSession, Rest
<1>. QED BY <1>2, <1>3, <1>4, <1>5, <1>6, <1>7, <1>8 DEF Call

LEMMA ProceedTyped ==
  ASSUME TypeOK, AgentInv, Proceed
  PROVE  Rest'
<1>1. /\ Rest /\ Pending(Now) \subseteq Messages /\ waiting \in Seq(Callers)
      /\ "op" \in Callers /\ "switch" \in Callers /\ "close" \in Callers
  BY RestOfTypes, ClearedIs, NowReady, NowIs, Fields DEF Callers, Flows
<1>2. CASE Release
  BY <1>1, <1>2 DEF Release, Rest, input
<1>3. CASE ResumeOp \/ ResumeSwitch
  <2>1. closing \in {"open", "session", "idle", "ops", "idle again", "process", "closed"}
    BY <1>1 DEF Rest
  <2>. QED BY <1>1, <1>3, <2>1, RestTail DEF ResumeOp, ResumeSwitch
<1>4. CASE ResumeClose
  <2>1. closing' \in {"ops", "process"}
    BY <1>4 DEF ResumeClose
  <2>. QED BY <1>1, <1>4, <2>1, RestTail DEF ResumeClose
<1>5. ASSUME NEW m \in Messages, SteerAnswered(m) PROVE Rest'
  BY <1>1, <1>5 DEF SteerAnswered, Rest
<1>6. ASSUME NEW f \in Flows,
             ReplaceRuntime(f) \/ Initialized(f) \/ Loaded(f) \/ Started(f) \/ StartFails(f)
      PROVE  Rest'
  BY <1>1, <1>6, RestSame DEF ReplaceRuntime, Initialized, Loaded, Started, StartFails, Answer
<1>7. CASE SyncAnswered \/ PromptSent \/ PromptAnswered \/ OperationAnswered
  BY <1>1, <1>7, RestSame DEF SyncAnswered, PromptSent, PromptAnswered, OperationAnswered, Answer
<1>8. CASE Close
  BY <1>1, <1>8 DEF Close, Rest
<1>9. CASE OperationsDrained \/ ProcessClosed
  BY <1>1, <1>9 DEF OperationsDrained, ProcessClosed, input, Rest
<1>. QED BY <1>2, <1>3, <1>4, <1>5, <1>6, <1>7, <1>8, <1>9 DEF Proceed

(***************************************************************************)
(* The invariant.                                                          *)
(***************************************************************************)
LEMMA AgentBegins ==
  ASSUME Init
  PROVE  TypeOK /\ AgentInv
<1> DEFINE none == <<>>
<1>1. /\ none \in Seq(Callers) /\ none \in Seq(Requests) /\ none \in Seq(Messages) /\ Len(none) = 0
      /\ 1..Len(none) = {}
  OBVIOUS
<1>2. /\ phase = Idle /\ at = [f \in Flows |-> "none"] /\ held = "no" /\ ops = [pending |-> 0, wake |-> FALSE]
      /\ inbox = [turn |-> none, step |-> {}] /\ transcript = [m \in Messages |-> 0]
      /\ sandbox \in Modes /\ goal \in Modes
      /\ runtime = [life |-> "up", mode |-> sandbox, retired |-> FALSE, restart |-> FALSE]
      /\ syncs = none /\ waiting = none /\ released = none /\ steering = {}
      /\ closing = "open" /\ sent = {} /\ discarded = {}
      /\ kept = [caller |-> {}, switch |-> {}] /\ used = 0
  BY DEF Init
<1> HIDE DEF none
<1>3. Now \in Control
  <2>1. phase \in Phases /\ at \in [Flows -> Places] /\ ops \in Counts
    BY <1>2 DEF Idle, Phases, Places, Counts
  <2>2. inbox \in Inboxes /\ transcript \in [Messages -> Nat] /\ runtime \in Runtimes
    BY <1>1, <1>2 DEF Inboxes, Runtimes
  <2>. QED BY <1>1, <1>2, <2>1, <2>2 DEF Now, Control
<1>4. Rest
  BY <1>1, <1>2, AgentAssumption DEF Rest
<1>5. /\ Now.phase = Idle /\ Now.at = [f \in Flows |-> "none"] /\ Now.held = "no"
      /\ Now.ops.pending = 0 /\ Now.inbox.turn = none /\ Now.inbox.step = {}
      /\ Now.transcript = [m \in Messages |-> 0] /\ Now.syncs = none /\ Now.waiting = none
  BY <1>2, NowIs
<1>6. Owned(Now) /\ TurnIsClear(Now)
  BY <1>5 DEF Owned, TurnIsClear, Idle, Flows, Owning, Starting
<1>7. SyncsOwned(Now)
  BY <1>1, <1>5 DEF SyncsOwned
<1>8. Pending(Now) = {} /\ Distinct(Now)
  BY <1>1, <1>5 DEF Pending, Distinct
<1>9. WakesLatched(Now) /\ Conserved(Now, sent, discarded)
  BY <1>2, <1>5, <1>8 DEF WakesLatched, Conserved, Recorded
<1>10. \A f : Placed(none, none, f) /\ ~In(none, f)
  BY <1>1 DEF Placed, Once, In
<1>11. OpsQueued(Now, released) /\ SwitchReserved(Now, released)
  BY <1>2, <1>5, <1>10 DEF OpsQueued, SwitchReserved, Awaits, Flows
<1>12. Winding(Now, released, closing)
  BY <1>2, <1>5, <1>10 DEF Winding
<1>. QED BY <1>3, <1>4, <1>6, <1>7, <1>9, <1>11, <1>12, RestOfTypes DEF AgentInv

LEMMA CallStep ==
  ASSUME TypeOK, AgentInv, Call
  PROVE  Now' \in Control /\ AgentInv' /\ ClaimsClear
<1>1. ASSUME NEW m \in Messages, Followup(m) PROVE Now' \in Control /\ AgentInv' /\ ClaimsClear
  BY <1>1, FollowupStep
<1>2. ASSUME NEW m \in Messages, Steer(m) PROVE Now' \in Control /\ AgentInv' /\ ClaimsClear
  BY <1>2, SteerStep
<1>3. ASSUME NEW keep \in BOOLEAN, Cancel(keep) PROVE Now' \in Control /\ AgentInv' /\ ClaimsClear
  BY <1>3, CancelStep
<1>4. ASSUME NEW mode \in Modes, SetSandbox(mode) PROVE Now' \in Control /\ AgentInv' /\ ClaimsClear
  BY <1>4, SetSandboxStep
<1>5. ASSUME NEW mode \in Modes, TransitionSandboxMode(mode)
      PROVE  Now' \in Control /\ AgentInv' /\ ClaimsClear
  BY <1>5, TransitionStep
<1>6. ASSUME NEW mode \in Modes, ProviderMode(mode) PROVE Now' \in Control /\ AgentInv' /\ ClaimsClear
  BY <1>6, ProviderModeStep
<1>. QED BY <1>1, <1>2, <1>3, <1>4, <1>5, <1>6, ModelOperationStep, ConnectionLostStep,
            CloseProviderSessionStep DEF Call

LEMMA ProceedStep ==
  ASSUME TypeOK, AgentInv, Proceed
  PROVE  Now' \in Control /\ AgentInv' /\ ClaimsClear
<1>1. CASE Release \/ ResumeOp \/ ResumeSwitch \/ ResumeClose
  BY <1>1, ReleaseStep, ResumeOpStep, ResumeSwitchStep, ResumeCloseStep
<1>2. ASSUME NEW m \in Messages, SteerAnswered(m) PROVE Now' \in Control /\ AgentInv' /\ ClaimsClear
  BY <1>2, SteerAnsweredStep
<1>3. ASSUME NEW f \in Flows,
             ReplaceRuntime(f) \/ Initialized(f) \/ Loaded(f) \/ Started(f) \/ StartFails(f)
      PROVE  Now' \in Control /\ AgentInv' /\ ClaimsClear
  BY <1>3, ReplaceRuntimeStep, InitializedStep, LoadedStep, StartedStep, StartFailsStep
<1>4. CASE SyncAnswered \/ PromptSent \/ PromptAnswered \/ OperationAnswered
  BY <1>4, SyncAnsweredStep, PromptSentStep, PromptAnsweredStep, OperationAnsweredStep
<1>5. CASE Close \/ OperationsDrained \/ ProcessClosed
  BY <1>5, CloseStep, OperationsDrainedStep, ProcessClosedStep
<1>. QED BY <1>1, <1>2, <1>3, <1>4, <1>5 DEF Proceed

LEMMA AgentSteps ==
  ASSUME TypeOK, AgentInv, [Next]_vars
  PROVE  TypeOK' /\ AgentInv' /\ (ClaimsClear \/ UNCHANGED vars)
<1>1. ASSUME Next PROVE Now' \in Control /\ AgentInv' /\ ClaimsClear /\ Rest'
  BY <1>1, CallStep, ProceedStep, CallTyped, ProceedTyped DEF Next
<1>2. ASSUME Next PROVE TypeOK'
  BY <1>1, <1>2 DEF TypeOK, Rest
<1>3. ASSUME UNCHANGED vars PROVE TypeOK' /\ AgentInv'
  <2>1. /\ UNCHANGED control /\ closing' = closing /\ kept' = kept /\ released' = released
        /\ sent' = sent /\ discarded' = discarded /\ UNCHANGED <<released, input, closing, used>>
    BY <1>3 DEF vars, input
  <2>2. Now' \in Control /\ AgentInv'
    BY <2>1, SameStep
  <2>3. Rest'
    BY <2>1, RestOfTypes, RestSame
  <2>. QED BY <2>2, <2>3 DEF TypeOK, Rest
<1>. QED BY <1>1, <1>2, <1>3

(* The types and the reasons together hold in every state.                  *)
THEOREM AgentInductive == Spec => [](TypeOK /\ AgentInv)
<1>1. Init => TypeOK /\ AgentInv
  BY AgentBegins
<1>2. TypeOK /\ AgentInv /\ [Next]_vars => (TypeOK /\ AgentInv)'
  BY AgentSteps
<1>. QED BY <1>1, <1>2, PTL DEF Spec

(* Every variable has its type.                                             *)
THEOREM AgentTypes == Spec => []TypeOK
BY AgentInductive, PTL

(* The reasons hold: who owns the phase, what is queued for it, what the    *)
(* log holds, and who will wake what is pending.                            *)
THEOREM AgentInvariant == Spec => []AgentInv
BY AgentInductive, PTL

(* Turns, model operations and switches replace the provider's process or   *)
(* change its mode one at a time: only the owner of the phase does.         *)
THEOREM ReplacementsAreExclusive == Spec => []OneOwner
<1>1. AgentInv => OneOwner
  BY NowIs DEF AgentInv, Owned, OneOwner
<1>. QED BY <1>1, AgentInductive, PTL

(* Whatever interrupts a turn, each message sent is pending, dropped by a   *)
(* cancellation, or in the log exactly once.                                *)
THEOREM InputIsConserved == Spec => []InputConserved
<1>1. TypeOK /\ AgentInv => InputConserved
  <2> SUFFICES ASSUME TypeOK, AgentInv, NEW m \in sent
               PROVE  transcript[m] = IF m \in Pending(Now) \cup discarded THEN 0 ELSE 1
    BY DEF InputConserved
  <2>1. m \in Messages
    BY DEF TypeOK
  <2>2. Now.transcript[m] = IF m \in sent \ (Pending(Now) \cup discarded) THEN 1 ELSE 0
    BY <2>1 DEF AgentInv, Conserved, Recorded
  <2>. QED BY <2>2, NowIs
<1>. QED BY <1>1, AgentInductive, PTL

(* When nothing runs, every message that asked for a turn has had one or    *)
(* was parked by a cancellation: no deferral forgets a wake.                *)
THEOREM DeferredWakesAlwaysArrive == Spec => []DeferredWakesArrive
<1>1. AgentInv => DeferredWakesArrive
  <2> SUFFICES ASSUME AgentInv, Resting
               PROVE  Pending(Now) \subseteq kept.caller \cup kept.switch
    BY DEF DeferredWakesArrive
  <2>1. /\ closing = "open" /\ Now.phase.by = "idle" /\ Now.held = "no" /\ Now.ops.pending = 0
    BY NowIs DEF Resting
  <2>2. Now.phase = Idle
    BY <2>1 DEF AgentInv, Owned
  <2>3. Now.phase.wake = FALSE
    BY <2>2 DEF Idle
  <2>. QED BY <2>1, <2>3 DEF AgentInv, WakesLatched
<1>. QED BY <1>1, AgentInductive, PTL

(* Disposal leaves no process, no turn and no operation.                    *)
THEOREM DisposalIsQuiet == Spec => []ClosedIsQuiet
<1>1. AgentInv => ClosedIsQuiet
  <2> SUFFICES ASSUME AgentInv, closing = "closed"
               PROVE  /\ runtime.life \in {"none", "closed"}
                      /\ phase.by \notin {"turn", "op"} /\ ops.pending = 0
    BY DEF ClosedIsQuiet
  <2>1. /\ Now.runtime.life \in {"none", "closed"} /\ Now.phase.by # "turn" /\ Now.ops.pending = 0
    BY DEF AgentInv, Winding
  <2>2. Now.at.op = "none"
    BY <2>1 DEF AgentInv, OpsQueued
  <2>3. Now.phase.by # "op"
    BY <2>2 DEF AgentInv, Owned, Owning, Starting
  <2>. QED BY <2>1, <2>3, NowIs
<1>. QED BY <1>1, AgentInductive, PTL

(* No step lets a turn claim input while a switch is reserved, operations   *)
(* are pending or the agent is being disposed.                              *)
THEOREM TurnsAlwaysClaimClear == Spec => TurnsClaimClear
<1>1. TypeOK /\ AgentInv /\ [Next]_vars =>
        [transcript' # transcript /\ steering' = steering =>
           held' = "no" /\ ops'.pending = 0 /\ closing' = "open"]_vars
  BY AgentSteps DEF ClaimsClear
<1>. QED BY <1>1, AgentInductive, PTL DEF Spec, TurnsClaimClear

(***************************************************************************)
(* A running prompt is confined.                                           *)
(***************************************************************************)
(* What holds of the runtime whoever runs on it.                            *)
Spawned(c) == c.runtime.life = "none" => c.runtime.retired

LEMMA RunsAlike ==
  ASSUME NEW c, NEW d, Confined(c), d.at.turn = c.at.turn, d.phase.aborted = c.phase.aborted,
         d.runtime = c.runtime, d.syncs = c.syncs, d.sandbox = c.sandbox
  PROVE  Confined(d)
BY DEF Confined, Narrowed

(* A request no wider than the sandbox narrows.                             *)
LEMMA QueuedNarrows ==
  ASSUME NEW c \in Control, NEW f \in Flows \cup {"watch"}, NEW mode \in Modes
  PROVE  LET d == Queued(c, f, mode) IN
         /\ d \in Control /\ (mode = c.sandbox => Narrowed(d))
         /\ d.at = c.at /\ d.phase = c.phase /\ d.runtime = c.runtime /\ d.ops = c.ops
         /\ d.sandbox = c.sandbox /\ d.held = c.held
<1> DEFINE d == Queued(c, f, mode)
           s == [by |-> f, mode |-> mode]
<1>1. /\ d.syncs = Append(c.syncs, s)
      /\ d.at = c.at /\ d.phase = c.phase /\ d.runtime = c.runtime /\ d.ops = c.ops
      /\ d.sandbox = c.sandbox /\ d.held = c.held
  BY DEF Queued, Control
<1>2. s \in Requests /\ s.mode = mode
  BY DEF Requests
<1>3. d = [c EXCEPT !.syncs = d.syncs]
  BY <1>1 DEF Queued
<1> HIDE DEF s
<1>4. /\ d.syncs \in Seq(Requests) /\ d.syncs # <<>>
      /\ d.syncs[Len(d.syncs)] = s
  BY <1>1, <1>2, Fields
<1> HIDE DEF d
<1>5. d \in Control
  BY <1>3, <1>4 DEF Control
<1>6. mode = c.sandbox => Narrowed(d)
  <2>1. mode \in Nat
    BY AgentAssumption DEF AgentAssumption
  <2>. QED BY <1>1, <1>2, <1>4, <2>1 DEF Narrowed
<1>. QED BY <1>1, <1>5, <1>6 DEF d

(* A turn enters with a request for its sandbox; no other flow enters while *)
(* a turn runs.                                                             *)
LEMMA EnterConfines ==
  ASSUME NEW c \in Control, NEW f \in Flows, NEW mode \in Modes, Spawned(c),
         f = "turn" => mode = c.sandbox, f # "turn" => c.at.turn = "none"
  PROVE  LET d == Enter(c, f, mode) IN
         /\ d \in Control /\ Confined(d)
         /\ d.phase = c.phase /\ d.runtime = c.runtime /\ d.ops = c.ops
         /\ d.sandbox = c.sandbox /\ d.held = c.held
<1> DEFINE d == Enter(c, f, mode)
           e == [c EXCEPT !.at[f] = "sync", !.goal = mode]
<1>1. CASE NeedsRestart(c)
  <2>1. d = [c EXCEPT !.at[f] = "close", !.goal = mode]
    BY <1>1 DEF Enter
  <2>2. /\ d.at = [c.at EXCEPT ![f] = "close"] /\ d.goal = mode
        /\ d.phase = c.phase /\ d.runtime = c.runtime /\ d.ops = c.ops
        /\ d.sandbox = c.sandbox /\ d.held = c.held
    BY <2>1 DEF Control
  <2>3. d.at \in [Flows -> Places] /\ d.at.turn \in {"close", "none"}
    BY <2>2, Fields DEF Places, Owning, Flows
  <2>4. d = [c EXCEPT !.at = d.at, !.goal = mode]
    BY <2>1, <2>2
  <2>5. d \in Control
    BY <2>3, <2>4 DEF Control
  <2>. QED BY <2>2, <2>3, <2>5 DEF Confined, Spawned
<1>2. CASE ~NeedsRestart(c)
  <2>1. d = Queued(e, f, mode)
    BY <1>2 DEF Enter, Synced
  <2>2. /\ e.at = [c.at EXCEPT ![f] = "sync"] /\ e.goal = mode
        /\ e.phase = c.phase /\ e.runtime = c.runtime /\ e.ops = c.ops
        /\ e.sandbox = c.sandbox /\ e.held = c.held
    BY DEF Control
  <2>3. e.at \in [Flows -> Places] /\ (f # "turn" => e.at.turn = "none")
    BY <2>2, Fields DEF Places, Owning, Flows
  <2>4. e = [c EXCEPT !.at = e.at, !.goal = mode]
    BY <2>2
  <2> HIDE DEF e
  <2>5. e \in Control
    BY <2>3, <2>4 DEF Control
  <2>6. /\ d \in Control /\ (mode = e.sandbox => Narrowed(d))
        /\ d.at = e.at /\ d.phase = e.phase /\ d.runtime = e.runtime /\ d.ops = e.ops
        /\ d.sandbox = e.sandbox /\ d.held = e.held
    BY <2>1, <2>5, QueuedNarrows
  <2>. QED BY <2>2, <2>3, <2>6 DEF Confined, Spawned
<1>. QED BY <1>1, <1>2

LEMMA TurnBegunConfines ==
  ASSUME NEW c \in Control, Spawned(c)
  PROVE  LET d == TurnBegun(c) IN
         d \in Control /\ Confined(d) /\ d.runtime = c.runtime /\ d.ops = c.ops /\ d.held = c.held
<1> DEFINE queue == c.inbox.turn
           batch == Batch(c)
           e == [c EXCEPT
                  !.inbox = [turn |-> IF @.turn = <<>> THEN <<>> ELSE Tail(@.turn), step |-> {}],
                  !.transcript = [m \in Messages |-> @[m] + (IF m \in batch THEN 1 ELSE 0)]]
<1>1. TurnBegun(c) = Enter(e, "turn", c.sandbox)
  BY DEF TurnBegun, Batch
<1>2. /\ e.inbox = [turn |-> IF queue = <<>> THEN <<>> ELSE Tail(queue), step |-> {}]
      /\ e.transcript = [m \in Messages |-> c.transcript[m] + (IF m \in batch THEN 1 ELSE 0)]
      /\ e.sandbox = c.sandbox /\ e.runtime = c.runtime /\ e.ops = c.ops /\ e.held = c.held
  BY DEF Control
<1>3. e = [c EXCEPT !.inbox = e.inbox, !.transcript = e.transcript]
  BY <1>2
<1> HIDE DEF e
<1>4. e.inbox \in Inboxes
  <2>1. queue \in Seq(Messages)
    BY Fields
  <2>2. queue # <<>> => Tail(queue) \in Seq(Messages)
    BY <2>1
  <2>3. <<>> \in Seq(Messages)
    OBVIOUS
  <2>. QED BY <1>2, <2>1, <2>2, <2>3 DEF Inboxes
<1>5. e \in Control
  <2>1. e.transcript \in [Messages -> Nat]
    BY <1>2, Fields
  <2>. QED BY <1>3, <1>4, <2>1 DEF Control
<1>6. Spawned(e) /\ c.sandbox \in Modes /\ "turn" \in Flows
  BY <1>2, Fields DEF Spawned, Flows
<1>. QED BY <1>1, <1>2, <1>5, <1>6, EnterConfines

LEMMA WokenConfines ==
  ASSUME NEW c \in Control, Confined(c)
  PROVE  LET d == Woken(c) IN
         /\ d \in Control /\ Confined(d) /\ d.runtime = c.runtime
         /\ d.ops.pending = c.ops.pending
<1> DEFINE h == [c EXCEPT !.held = "wake"]
           o == [c EXCEPT !.ops = [c.ops EXCEPT !.wake = TRUE]]
           p == [c EXCEPT !.phase = [c.phase EXCEPT !.wake = TRUE]]
           e == [c EXCEPT !.phase = [Idle EXCEPT !.by = "turn"]]
<1>1. Woken(c) \in {c, h, o, p, TurnBegun(e)}
  BY DEF Woken
<1>2. h \in Control /\ Confined(h) /\ h.runtime = c.runtime /\ h.ops.pending = c.ops.pending
  <2>1. h \in Control /\ h.at = c.at /\ h.phase = c.phase /\ h.runtime = c.runtime
        /\ h.syncs = c.syncs /\ h.sandbox = c.sandbox /\ h.ops = c.ops
    BY DEF Control
  <2> HIDE DEF h
  <2>. QED BY <2>1, RunsAlike
<1>3. o \in Control /\ Confined(o) /\ o.runtime = c.runtime /\ o.ops.pending = c.ops.pending
  <2>1. o.ops \in Counts /\ o.ops.pending = c.ops.pending
    <3>1. o.ops = [c.ops EXCEPT !.wake = TRUE]
      BY DEF Control
    <3>2. c.ops \in Counts
      BY Fields
    <3> HIDE DEF o
    <3>. QED BY <3>1, <3>2 DEF Counts
  <2>2. /\ o = [c EXCEPT !.ops = o.ops] /\ o.at = c.at /\ o.phase = c.phase
        /\ o.runtime = c.runtime /\ o.syncs = c.syncs /\ o.sandbox = c.sandbox
    BY DEF Control
  <2> HIDE DEF o
  <2>3. o \in Control
    BY <2>1, <2>2 DEF Control
  <2>. QED BY <2>1, <2>2, <2>3, RunsAlike
<1>4. p \in Control /\ Confined(p) /\ p.runtime = c.runtime /\ p.ops.pending = c.ops.pending
  <2>1. p.phase \in Phases /\ p.phase.aborted = c.phase.aborted
    <3>1. p.phase = [c.phase EXCEPT !.wake = TRUE]
      BY DEF Control
    <3>2. c.phase \in Phases
      BY Fields
    <3> HIDE DEF p
    <3>. QED BY <3>1, <3>2 DEF Phases
  <2>2. /\ p = [c EXCEPT !.phase = p.phase] /\ p.at = c.at /\ p.ops = c.ops
        /\ p.runtime = c.runtime /\ p.syncs = c.syncs /\ p.sandbox = c.sandbox
    BY DEF Control
  <2> HIDE DEF p
  <2>3. p \in Control
    BY <2>1, <2>2 DEF Control
  <2>. QED BY <2>1, <2>2, <2>3, RunsAlike
<1>5. /\ TurnBegun(e) \in Control /\ Confined(TurnBegun(e))
      /\ TurnBegun(e).runtime = c.runtime /\ TurnBegun(e).ops.pending = c.ops.pending
  <2>1. e \in Control /\ e.runtime = c.runtime /\ e.ops = c.ops
    BY DEF Control, Phases, Idle, Flows
  <2> HIDE DEF e
  <2>2. Spawned(e)
    BY <2>1 DEF Spawned, Confined
  <2>. QED BY <2>1, <2>2, TurnBegunConfines
<1> HIDE DEF h, o, p, e
<1>6. CASE Woken(c) = c
  BY <1>6
<1>. QED BY <1>1, <1>2, <1>3, <1>4, <1>5, <1>6

LEMMA WokenIfConfines ==
  ASSUME NEW c \in Control, Confined(c), NEW requested
  PROVE  LET d == WokenIf(c, requested) IN
         /\ d \in Control /\ Confined(d) /\ d.runtime = c.runtime
         /\ d.ops.pending = c.ops.pending
<1>1. WokenIf(c, requested) \in {c, Woken(c)}
  BY DEF WokenIf
<1>. QED BY <1>1, WokenConfines

LEMMA PhaseOverConfines ==
  ASSUME NEW c \in Control, NEW f \in Flows, Spawned(c), f = "turn" \/ c.at.turn = "none"
  PROVE  LET d == PhaseOver(c, f) IN
         /\ d \in Control /\ Confined(d) /\ d.runtime = c.runtime
         /\ d.ops.pending = c.ops.pending
<1> DEFINE e == [c EXCEPT !.phase = Idle, !.at[f] = "none"]
<1>1. /\ e.phase = Idle /\ e.at = [c.at EXCEPT ![f] = "none"] /\ e.runtime = c.runtime
      /\ e.ops = c.ops
  BY DEF Control
<1>2. e.at \in [Flows -> Places] /\ e.at.turn = "none"
  BY <1>1, Fields DEF Places, Flows
<1>3. e = [c EXCEPT !.phase = Idle, !.at = e.at]
  BY <1>1
<1> HIDE DEF e
<1>4. e \in Control
  <2>1. Idle \in Phases
    BY DEF Idle, Phases
  <2>. QED BY <1>2, <1>3, <2>1 DEF Control
<1>5. Confined(e)
  BY <1>1, <1>2 DEF Confined, Spawned
<1>. QED BY <1>1, <1>4, <1>5, WokenIfConfines DEF PhaseOver, e

LEMMA TurnOverConfines ==
  ASSUME NEW c \in Control, Spawned(c)
  PROVE  LET d == TurnOver(c) IN d \in Control /\ Confined(d) /\ d.runtime = c.runtime
<1> DEFINE e == [c EXCEPT !.ops.wake = TRUE]
<1>1. TurnOver(c) \in {PhaseOver(c, "turn"), PhaseOver(e, "turn"), TurnBegun(c)}
  BY DEF TurnOver
<1>2. e \in Control /\ e.runtime = c.runtime
  BY Fields DEF Control, Counts
<1>3. "turn" \in Flows
  BY DEF Flows
<1> HIDE DEF e
<1>4. Spawned(e)
  BY <1>2 DEF Spawned
<1>. QED BY <1>1, <1>2, <1>3, <1>4, PhaseOverConfines, TurnBegunConfines

LEMMA OpHeadConfines ==
  ASSUME NEW c \in Control, Confined(c)
  PROVE  LET d == OpHead(c) IN d \in Control /\ Confined(d) /\ d.runtime = c.runtime
<1> DEFINE d == OpHead(c)
<1>1. /\ \/ d.at = [c.at EXCEPT !.op = "run"] /\ d.waiting = c.waiting
         \/ d.at = [c.at EXCEPT !.op = "wait"] /\ d.waiting = Append(c.waiting, "op")
      /\ d.phase = c.phase /\ d.syncs = c.syncs /\ d.runtime = c.runtime
      /\ d.sandbox = c.sandbox
  BY DEF OpHead, WaitsIdle, Control
<1>2. d.waiting \in Seq(Callers)
  <2>1. c.waiting \in Seq(Callers) /\ "op" \in Callers
    BY Fields DEF Callers, Flows
  <2>2. Append(c.waiting, "op") \in Seq(Callers)
    BY <2>1
  <2>. QED BY <1>1, <2>1, <2>2
<1>3. d.at \in [Flows -> Places] /\ d.at.turn = c.at.turn
  <2>1. c.at \in [Flows -> Places] /\ "run" \in Places /\ "wait" \in Places
    BY Fields DEF Places
  <2>2. d.at = [c.at EXCEPT !.op = "run"] \/ d.at = [c.at EXCEPT !.op = "wait"]
    BY <1>1
  <2>. QED BY <2>1, <2>2 DEF Flows
<1>4. d = [c EXCEPT !.at = d.at, !.waiting = d.waiting]
  BY <1>1 DEF OpHead, WaitsIdle, Control
<1> HIDE DEF d
<1>5. d \in Control
  BY <1>2, <1>3, <1>4 DEF Control
<1>. QED BY <1>1, <1>3, <1>5, RunsAlike DEF d

LEMMA FinishConfines ==
  ASSUME NEW c \in Control, Confined(c), c.ops.pending > 0
  PROVE  LET d == FinishModelOperation(c) IN
         d \in Control /\ Confined(d) /\ d.runtime = c.runtime
<1> DEFINE e == [c EXCEPT !.at.op = "none", !.ops.pending = @ - 1]
           b == [e EXCEPT !.ops.wake = FALSE]
<1>1. FinishModelOperation(c) \in {OpHead(e), WokenIf(b, c.ops.wake)}
  BY DEF FinishModelOperation
<1>2. /\ e.at = [c.at EXCEPT !.op = "none"] /\ e.ops = [c.ops EXCEPT !.pending = @ - 1]
      /\ e.phase = c.phase /\ e.syncs = c.syncs /\ e.runtime = c.runtime
      /\ e.sandbox = c.sandbox
  BY DEF Control
<1>3. e = [c EXCEPT !.at = e.at, !.ops = e.ops]
  BY <1>2
<1>4. e.at \in [Flows -> Places] /\ e.at.turn = c.at.turn
  <2>1. c.at \in [Flows -> Places] /\ "none" \in Places
    BY Fields DEF Places
  <2>. QED BY <1>2, <2>1 DEF Flows
<1>5. e.ops \in Counts
  <2>1. c.ops \in Counts /\ c.ops.pending - 1 \in Nat
    BY Fields
  <2>. QED BY <1>2, <2>1 DEF Counts
<1> HIDE DEF e
<1>6. e \in Control
  BY <1>3, <1>4, <1>5 DEF Control
<1>7. Confined(e)
  BY <1>2, <1>4, RunsAlike
<1>8. b \in Control /\ b.at = e.at /\ b.phase = e.phase /\ b.syncs = e.syncs
      /\ b.runtime = e.runtime /\ b.sandbox = e.sandbox
  BY <1>6, Fields DEF Control, Counts
<1> HIDE DEF b
<1>9. Confined(b)
  BY <1>7, <1>8, RunsAlike
<1>. QED BY <1>1, <1>2, <1>6, <1>7, <1>8, <1>9, OpHeadConfines, WokenIfConfines

LEMMA OpOverConfines ==
  ASSUME NEW c \in Control, Confined(c), c.ops.pending > 0,
         c.phase.by = "op" => c.at.turn = "none"
  PROVE  LET d == OpOver(c) IN d \in Control /\ Confined(d) /\ d.runtime = c.runtime
<1>1. CASE c.phase.by = "op"
  <2> DEFINE e == PhaseOver(c, "op")
  <2>1. e \in Control /\ Confined(e) /\ e.runtime = c.runtime /\ e.ops.pending = c.ops.pending
    BY <1>1, PhaseOverConfines DEF Flows, Confined, Spawned
  <2> HIDE DEF e
  <2>2. FinishModelOperation(e) \in Control /\ Confined(FinishModelOperation(e))
        /\ FinishModelOperation(e).runtime = e.runtime
    BY <2>1, FinishConfines
  <2>3. OpOver(c) = FinishModelOperation(e)
    BY <1>1 DEF OpOver, e
  <2>. QED BY <2>1, <2>2, <2>3
<1>2. CASE c.phase.by # "op"
  BY <1>2, FinishConfines DEF OpOver
<1>. QED BY <1>1, <1>2

LEMMA SwitchEndedConfines ==
  ASSUME NEW c \in Control, Confined(c)
  PROVE  LET d == SwitchEnded(c) IN d \in Control /\ Confined(d) /\ d.runtime = c.runtime
<1> DEFINE e == [c EXCEPT !.held = "no", !.at.switch = "none"]
<1>1. /\ e.held = "no" /\ e.at = [c.at EXCEPT !.switch = "none"]
      /\ e.phase = c.phase /\ e.syncs = c.syncs /\ e.runtime = c.runtime
      /\ e.sandbox = c.sandbox
  BY DEF Control
<1>2. e = [c EXCEPT !.held = "no", !.at = e.at]
  BY <1>1
<1>3. e.at \in [Flows -> Places] /\ e.at.turn = c.at.turn
  <2>1. c.at \in [Flows -> Places] /\ "none" \in Places
    BY Fields DEF Places
  <2>. QED BY <1>1, <2>1 DEF Flows
<1> HIDE DEF e
<1>4. e \in Control
  BY <1>2, <1>3 DEF Control
<1>5. Confined(e)
  BY <1>1, <1>3, RunsAlike
<1>. QED BY <1>1, <1>4, <1>5, WokenIfConfines DEF SwitchEnded, e

(* What the owner of the phase awaits fails: its turn is over, or no turn   *)
(* was running.                                                             *)
LEMMA FailedConfines ==
  ASSUME NEW c \in Control, NEW f \in Flows, Spawned(c), f # "turn" => c.at.turn = "none",
         f = "op" => c.ops.pending > 0
  PROVE  Confined(Failed(c, f))
<1>1. CASE f = "turn"
  BY <1>1, TurnOverConfines DEF Failed
<1>2. CASE f = "op"
  <2>1. Confined(c)
    BY <1>2 DEF Confined, Spawned
  <2>. QED BY <1>2, <2>1, OpOverConfines DEF Failed
<1>3. CASE f = "switch"
  <2> DEFINE r == Retired(c)
             e == PhaseOver(r, "switch")
  <2>1. r \in Control /\ r.at = c.at
    BY RetiredSame
  <2>2. Spawned(r)
    BY DEF Retired, Control, Runtimes, Spawned
  <2> HIDE DEF r
  <2>3. e \in Control /\ Confined(e)
    BY <1>3, <2>1, <2>2, PhaseOverConfines
  <2> HIDE DEF e
  <2>4. Confined(SwitchEnded(e))
    BY <2>3, SwitchEndedConfines
  <2>. QED BY <1>3, <2>4 DEF Failed, e, r
<1>. QED BY <1>1, <1>2, <1>3 DEF Flows

(* What the steps need of the state they start from.                        *)
Begins(c) ==
  /\ c \in Control /\ Confined(c) /\ Spawned(c)
  /\ \A f \in Flows : c.at[f] \in Owning /\ f # "turn" => c.at.turn = "none"
  /\ c.phase.by # "turn" => c.at.turn = "none"
  /\ c.at.op # "none" => c.ops.pending > 0

LEMMA NowBegins ==
  ASSUME TypeOK, AgentInv, Confined(Now)
  PROVE  Begins(Now)
<1>1. Now \in Control /\ Owned(Now) /\ OpsQueued(Now, released) /\ Spawned(Now)
  BY NowReady DEF AgentInv, Confined, Spawned
<1>2. Now.at.op # "none" => Now.ops.pending > 0
  BY <1>1, Fields DEF OpsQueued
<1>3. \A f \in Flows : Now.at[f] \in Owning /\ f # "turn" => Now.at.turn = "none"
  BY <1>1 DEF Owned
<1>. QED BY <1>1, <1>2, <1>3 DEF Begins, Owned

LEMMA BecameConfined ==
  ASSUME NEW d, Become(d), Confined(d)
  PROVE  Confined(Now)'
<1>1. /\ Now'.at = d.at /\ Now'.phase = d.phase /\ Now'.runtime = d.runtime
      /\ Now'.syncs = d.syncs /\ Now'.sandbox = d.sandbox
  BY DEF Become, Now
<1>. QED BY <1>1 DEF Confined, Narrowed

(* A flow that runs no prompt confines nothing.                             *)
LEMMA NothingRuns ==
  ASSUME NEW d, Spawned(d), d.at.turn \notin {"sync", "build", "prompt"}
  PROVE  Confined(d)
BY DEF Confined, Spawned

LEMMA CancelledConfines ==
  ASSUME NEW c \in Control, c.phase.by = "idle" => Confined(c)
  PROVE  Confined(Cancelled(c))
<1>1. CASE c.phase.by = "idle"
  BY <1>1 DEF Cancelled
<1>2. CASE c.phase.by # "idle"
  <2> DEFINE r == Retired(c)
             d == [r EXCEPT !.phase.aborted = TRUE]
  <2>1. r \in Control /\ r.runtime.retired
    BY RetiredSame DEF Retired, Control, Runtimes
  <2> HIDE DEF r
  <2>2. d.phase.aborted /\ d.runtime = r.runtime
    BY <2>1 DEF Control, Phases
  <2>3. Cancelled(c) = d
    BY <1>2 DEF Cancelled, r
  <2> HIDE DEF d
  <2>. QED BY <2>1, <2>2, <2>3 DEF Confined
<1>. QED BY <1>1, <1>2

LEMMA MaintainedConfines ==
  ASSUME NEW c \in Control, Spawned(c), c.at.turn = "none",
         NEW f \in {"op", "switch"}, NEW mode \in Modes
  PROVE  Confined(Maintained(c, f, mode))
<1> DEFINE p == [Idle EXCEPT !.by = f]
           e == [c EXCEPT !.phase = p]
<1>1. p \in Phases /\ f \in Flows /\ f # "turn"
  BY DEF Phases, Idle, Flows
<1>2. Maintained(c, f, mode) = Enter(e, f, mode)
  BY DEF Maintained
<1> HIDE DEF p
<1>3. e \in Control /\ e.at = c.at /\ e.runtime = c.runtime
  BY <1>1 DEF Control
<1> HIDE DEF e
<1>4. Spawned(e)
  BY <1>3 DEF Spawned
<1>. QED BY <1>1, <1>2, <1>3, <1>4, EnterConfines

(* The run goes on beside the step.                                         *)
LEMMA RunGoesOn ==
  ASSUME Confined(Now), at'.turn = at.turn, phase'.aborted = phase.aborted,
         runtime' = runtime, syncs' = syncs, sandbox' = sandbox
  PROVE  Confined(Now)'
BY DEF Confined, Narrowed, Now

LEMMA SendConfines ==
  ASSUME TypeOK, AgentInv, Confined(Now), NEW m \in Messages, NEW target \in {"turn", "step"},
         Send(m, target)
  PROVE  Confined(Now)'
<1> DEFINE e == Inserted(m, target)
<1>1. m \notin sent /\ Become(Woken(e))
  BY DEF Send
<1>2. e \in Control /\ Alike(Now, e) /\ e.runtime = runtime
  BY <1>1, InsertedIs
<1>3. e.sandbox = Now.sandbox
  BY DEF Inserted, Now
<1> HIDE DEF e
<1>4. Confined(e)
  BY <1>2, <1>3, NowIs, RunsAlike DEF Alike
<1>. QED BY <1>1, <1>2, <1>4, WokenConfines, BecameConfined

LEMMA SteerAnsweredConfines ==
  ASSUME Confined(Now), NEW m \in Messages, SteerAnswered(m)
  PROVE  Confined(Now)'
<1>1. CASE UNCHANGED control
  BY <1>1, RunGoesOn DEF control
<1>2. CASE Become(Injected(m))
  <2>1. /\ phase' = phase /\ at' = at /\ runtime' = runtime /\ syncs' = syncs
        /\ sandbox' = sandbox
    BY <1>2 DEF Become, Injected, Now
  <2>. QED BY <2>1, RunGoesOn
<1>. QED BY <1>1, <1>2 DEF SteerAnswered

(* A cancellation drops the inbox, or not.                                  *)
LEMMA ClearedConfines ==
  ASSUME TypeOK, AgentInv, Confined(Now)
  PROVE  LET e == [Now EXCEPT !.inbox = [turn |-> <<>>, step |-> {}]] IN
         e \in Control /\ Confined(e)
<1> DEFINE e == Cleared(Now)
<1>1. e \in Control /\ Alike(Now, e)
  BY ClearedIs
<1>2. e.runtime = Now.runtime /\ e.sandbox = Now.sandbox
  BY DEF Cleared, Now
<1>3. e = [Now EXCEPT !.inbox = [turn |-> <<>>, step |-> {}]]
  BY DEF Cleared
<1> HIDE DEF e
<1>4. Confined(e)
  BY <1>1, <1>2, RunsAlike DEF Alike
<1>. QED BY <1>1, <1>3, <1>4

LEMMA CancelConfines ==
  ASSUME TypeOK, AgentInv, Confined(Now), NEW keep \in BOOLEAN, Cancel(keep)
  PROVE  Confined(Now)'
<1> DEFINE e == [Now EXCEPT !.inbox = [turn |-> <<>>, step |-> {}]]
<1>1. Become(Cancelled(Now)) \/ Become(Cancelled(e))
  BY DEF Cancel
<1>2. /\ e \in Control /\ Confined(e)
      /\ Now \in Control
  BY ClearedConfines, NowReady
<1> HIDE DEF e
<1>. QED BY <1>1, <1>2, CancelledConfines, BecameConfined

LEMMA SetSandboxConfines ==
  ASSUME TypeOK, AgentInv, Confined(Now), NEW mode \in Modes, SetSandbox(mode)
  PROVE  Confined(Now)'
<1> DEFINE next == [Now EXCEPT !.sandbox = mode]
<1>1. Now \in Control /\ Spawned(Now)
  BY NowBegins DEF Begins
<1>2. /\ next \in Control /\ next.phase = phase /\ next.runtime = runtime
      /\ next.sandbox = mode
  BY <1>1, NowIs DEF Control
<1>3. \/ phase.by = "turn" /\ Become(Cancelled(next))
      \/ Become(Queued(next, "watch", mode))
  BY DEF SetSandbox
<1> HIDE DEF next
<1>4. CASE phase.by = "turn" /\ Become(Cancelled(next))
  BY <1>2, <1>4, CancelledConfines, BecameConfined
<1>5. CASE Become(Queued(next, "watch", mode))
  <2> DEFINE d == Queued(next, "watch", mode)
  <2>1. Narrowed(d) /\ d.runtime = runtime
    BY <1>2, QueuedNarrows
  <2> HIDE DEF d
  <2>2. Confined(d)
    BY <1>1, <2>1, NowIs DEF Confined, Spawned
  <2>. QED BY <1>5, <2>2, BecameConfined DEF d
<1>. QED BY <1>3, <1>4, <1>5

LEMMA ModelOperationConfines ==
  ASSUME TypeOK, AgentInv, Confined(Now), ModelOperation
  PROVE  Confined(Now)'
<1> DEFINE count == [Now.ops EXCEPT !.pending = @ + 1]
           e == [Now EXCEPT !.ops = count]
<1>1. Now \in Control /\ Now.ops \in Counts
  BY NowReady, Fields
<1>2. count \in Counts
  BY <1>1 DEF Counts
<1>3. e = [Now EXCEPT !.ops.pending = @ + 1]
  BY <1>1 DEF Control
<1>4. Become(OpHead(e)) \/ Become(e)
  BY <1>3 DEF ModelOperation
<1> HIDE DEF count
<1>5. /\ e \in Control /\ e.at = Now.at /\ e.phase = Now.phase /\ e.runtime = Now.runtime
      /\ e.syncs = Now.syncs /\ e.sandbox = Now.sandbox
  BY <1>1, <1>2 DEF Control
<1> HIDE DEF e
<1>6. Confined(e)
  BY <1>5, RunsAlike
<1>. QED BY <1>4, <1>5, <1>6, OpHeadConfines, BecameConfined

LEMMA TransitionConfines ==
  ASSUME TypeOK, AgentInv, Confined(Now), NEW target \in Modes, TransitionSandboxMode(target)
  PROVE  Confined(Now)'
<1> DEFINE e == [Now EXCEPT !.held = "quiet", !.goal = target]
<1>1. /\ Now \in Control /\ Spawned(Now)
      /\ phase.by # "turn" => Now.at.turn = "none"
  BY NowBegins, NowIs DEF Begins
<1>2. /\ e \in Control /\ e.at = Now.at /\ e.phase = phase /\ e.runtime = Now.runtime
  BY <1>1, NowIs DEF Control
<1>3. \/ phase.by = "idle" /\ Become(Maintained(e, "switch", target))
      \/ phase.by = "turn"
         /\ Become(WaitsIdle([Cancelled(e) EXCEPT !.at.switch = "wait"], "switch"))
  BY DEF TransitionSandboxMode
<1> HIDE DEF e
<1>4. CASE phase.by = "idle" /\ Become(Maintained(e, "switch", target))
  <2>1. Spawned(e) /\ e.at.turn = "none"
    BY <1>1, <1>2, <1>4 DEF Spawned
  <2>. QED BY <1>2, <1>4, <2>1, MaintainedConfines, BecameConfined
<1>5. CASE phase.by = "turn"
           /\ Become(WaitsIdle([Cancelled(e) EXCEPT !.at.switch = "wait"], "switch"))
  <2> DEFINE c == Cancelled(e)
             d == WaitsIdle([c EXCEPT !.at.switch = "wait"], "switch")
  <2>1. c \in Control /\ Confined(c)
    <3>1. c = [Retired(e) EXCEPT !.phase.aborted = TRUE]
      BY <1>2, <1>5 DEF Cancelled
    <3>2. Retired(e) \in Control
      BY <1>2, RetiredSame
    <3>3. c \in Control
      BY <3>1, <3>2 DEF Control, Phases
    <3>. QED BY <1>2, <1>5, <3>3, CancelledConfines
  <2> HIDE DEF c
  <2>2. /\ d.at.turn = c.at.turn /\ d.phase = c.phase /\ d.runtime = c.runtime
        /\ d.syncs = c.syncs /\ d.sandbox = c.sandbox
    BY <2>1 DEF WaitsIdle, Control, Flows
  <2> HIDE DEF d
  <2>3. Confined(d)
    BY <2>1, <2>2, RunsAlike
  <2>. QED BY <1>5, <2>3, BecameConfined DEF d, c
<1>. QED BY <1>3, <1>4, <1>5

LEMMA ProviderModeConfines ==
  ASSUME TypeOK, AgentInv, Confined(Now), NEW mode \in Modes, ProviderMode(mode)
  PROVE  Confined(Now)'
<1> DEFINE e == [Now EXCEPT !.runtime.mode = mode]
           d == Queued(e, "watch", sandbox)
<1>1. Now \in Control /\ Spawned(Now) /\ Now.runtime \in Runtimes /\ sandbox \in Modes
  BY NowBegins, Fields, NowIs DEF Begins
<1>2. e.runtime = [Now.runtime EXCEPT !.mode = mode] /\ e = [Now EXCEPT !.runtime = e.runtime]
      /\ e.sandbox = sandbox
  BY <1>1, NowIs DEF Control
<1> HIDE DEF e
<1>3. e.runtime \in Runtimes /\ e.runtime.life = Now.runtime.life
      /\ e.runtime.retired = Now.runtime.retired
  BY <1>1, <1>2 DEF Runtimes
<1>4. e \in Control
  BY <1>1, <1>2, <1>3 DEF Control
<1>5. Narrowed(d) /\ d.runtime = e.runtime
  BY <1>1, <1>2, <1>4, QueuedNarrows
<1>6. Become(d)
  BY DEF ProviderMode, e
<1> HIDE DEF d
<1>7. Confined(d)
  BY <1>1, <1>3, <1>5 DEF Confined, Spawned
<1>. QED BY <1>6, <1>7, BecameConfined

LEMMA ConnectionLostConfines ==
  ASSUME TypeOK, AgentInv, Confined(Now), ConnectionLost
  PROVE  Confined(Now)'
<1> DEFINE d == [Now EXCEPT !.runtime.life = "lost"]
<1>1. Now \in Control /\ Now.runtime \in Runtimes
  BY NowReady, Fields
<1>2. /\ d.runtime = [Now.runtime EXCEPT !.life = "lost"] /\ d.at = Now.at
      /\ d.phase = Now.phase /\ d.syncs = Now.syncs /\ d.sandbox = Now.sandbox
  BY <1>1 DEF Control
<1>3. Become(d)
  BY DEF ConnectionLost
<1> HIDE DEF d
<1>4. /\ d.runtime.life = "lost" /\ d.runtime.mode = Now.runtime.mode
      /\ d.runtime.retired = Now.runtime.retired
  BY <1>1, <1>2 DEF Runtimes
<1>5. Confined(d)
  BY <1>2, <1>4 DEF Confined, Narrowed
<1>. QED BY <1>3, <1>5, BecameConfined

LEMMA ResumedConfines ==
  ASSUME TypeOK, AgentInv, Confined(Now), ResumeOp \/ ResumeSwitch
  PROVE  Confined(Now)'
<1>1. /\ Now \in Control /\ Spawned(Now) /\ sandbox \in Modes /\ goal \in Modes
      /\ phase.by = "idle" => Now.at.turn = "none"
  BY NowBegins, NowIs, Fields DEF Begins
<1>2. CASE ResumeOp
  <2> DEFINE a == [Now.at EXCEPT !.op = "run"]
             d == [Now EXCEPT !.at = a]
  <2>1. Now.ops.pending > 0
    <3>1. In(released, "op")
      <4>1. /\ released \in Seq(Callers) /\ released # <<>> /\ Head(released) = "op"
        BY <1>2 DEF ResumeOp, Resumed, TypeOK
      <4>2. 1 \in 1..Len(released) /\ released[1] = "op"
        BY <4>1
      <4>. QED BY <4>2 DEF In
    <3>2. Now.at.op = "wait"
      BY <3>1 DEF AgentInv, OpsQueued, Awaits
    <3>. QED BY <3>2, NowBegins DEF Begins
  <2>2. \/ Become(d)
        \/ phase.by = "idle" /\ Become(Maintained(Now, "op", sandbox))
        \/ Become(FinishModelOperation(Now))
    <3>1. d = [Now EXCEPT !.at.op = "run"]
      BY <1>1 DEF Control
    <3>. QED BY <1>2, <3>1 DEF ResumeOp
  <2>3. Confined(d)
    <3>1. /\ d.at.turn = Now.at.turn /\ d.phase = Now.phase /\ d.runtime = Now.runtime
          /\ d.syncs = Now.syncs /\ d.sandbox = Now.sandbox
      BY <1>1 DEF Control, Flows
    <3> HIDE DEF d
    <3>. QED BY <3>1, RunsAlike
  <2> HIDE DEF d
  <2>. QED BY <1>1, <2>1, <2>2, <2>3, MaintainedConfines, FinishConfines, BecameConfined
<1>3. CASE ResumeSwitch
  <2>1. \/ phase.by = "idle" /\ Become(Maintained(Now, "switch", goal))
        \/ Become(SwitchEnded(Now))
    BY <1>3 DEF ResumeSwitch
  <2>. QED BY <1>1, <2>1, MaintainedConfines, SwitchEndedConfines, BecameConfined
<1>. QED BY <1>2, <1>3

(* The owner f of the phase goes on while no prompt runs.                   *)
LEMMA StartingConfines ==
  ASSUME TypeOK, AgentInv, Confined(Now), NEW f \in Flows, at[f] \in Owning,
         NEW p \in {"start", "load", "mode"}, at' = [at EXCEPT ![f] = p],
         runtime'.life # "none"
  PROVE  Confined(Now)'
<1>1. at \in [Flows -> Places] /\ (f # "turn" => at.turn = "none")
  BY NowBegins, NowIs, Fields DEF Begins
<1>2. CASE f = "turn"
  <2>1. at'.turn = p
    BY <1>1, <1>2
  <2>. QED BY <2>1 DEF Confined, Now
<1>3. CASE f # "turn"
  <2>1. at'.turn = "none"
    BY <1>1, <1>3 DEF Flows
  <2>. QED BY <2>1 DEF Confined, Now
<1>. QED BY <1>2, <1>3

(* What the owner f of the phase awaited fails in the state c.              *)
LEMMA OwnerFails ==
  ASSUME TypeOK, AgentInv, Confined(Now), NEW f \in Flows, at[f] \in Owning, NEW c \in Control,
         Spawned(c), c.at = at, c.ops = ops, Become(Failed(c, f))
  PROVE  Confined(Now)'
<1>1. f # "turn" => c.at.turn = "none"
  BY NowBegins, NowIs DEF Begins
<1>2. f = "op" => c.ops.pending > 0
  BY NowBegins, NowIs DEF Begins, Owning, Starting
<1>. QED BY <1>1, <1>2, FailedConfines, BecameConfined

LEMMA ReplaceRuntimeConfines ==
  ASSUME TypeOK, AgentInv, Confined(Now), NEW f \in Flows, ReplaceRuntime(f)
  PROVE  Confined(Now)'
<1> DEFINE empty == <<>>
           closed == [Now.runtime EXCEPT !.life = IF @ = "none" THEN "none" ELSE "closed"]
           gone == [Now.runtime EXCEPT !.life = "none", !.retired = TRUE]
           c == With(Now, Now.at, closed, Now.syncs, Now.goal, Now.sandbox)
           e == With(Now, Now.at, gone, empty, Now.goal, Now.sandbox)
           d == [Now EXCEPT !.at[f] = "start", !.syncs = empty,
                   !.runtime = [@ EXCEPT !.life = "spawned", !.retired = FALSE]]
<1>1. /\ Now \in Control /\ Now.runtime \in Runtimes /\ Spawned(Now) /\ at[f] \in Owning
      /\ Now.at = at /\ Now.ops = ops
  BY NowBegins, Fields, NowIs DEF Begins, ReplaceRuntime, Owning
<1>2. Become(Failed(c, f)) \/ Become(Failed(e, f)) \/ Become(d)
  <2>1. c = [Now EXCEPT !.runtime.life = IF @ = "none" THEN "none" ELSE "closed"]
    BY <1>1 DEF Control, With
  <2>2. e = [Now EXCEPT !.runtime.life = "none", !.runtime.retired = TRUE, !.syncs = <<>>]
    BY <1>1 DEF Control, With
  <2>. QED BY <2>1, <2>2 DEF ReplaceRuntime
<1>3. CASE Become(Failed(c, f))
  <2>1. closed \in Runtimes /\ (closed.life = "none" => closed.retired)
    BY <1>1 DEF Runtimes, Spawned
  <2> HIDE DEF closed
  <2>2. Fit(Now.at, closed, Now.syncs, Now.goal, Now.sandbox)
    BY <1>1, <2>1, Fields DEF Fit
  <2>3. c \in Control /\ c.at = at /\ c.runtime = closed /\ c.ops = ops
    BY <1>1, <2>2, Replaced
  <2> HIDE DEF c
  <2>4. Spawned(c)
    BY <2>1, <2>3 DEF Spawned
  <2>. QED BY <1>1, <1>3, <2>3, <2>4, OwnerFails
<1>4. CASE Become(Failed(e, f))
  <2>1. gone \in Runtimes /\ gone.retired
    BY <1>1 DEF Runtimes
  <2>2. empty \in Seq(Requests)
    OBVIOUS
  <2> HIDE DEF gone, empty
  <2>3. Fit(Now.at, gone, empty, Now.goal, Now.sandbox)
    BY <1>1, <2>1, <2>2, Fields DEF Fit
  <2>4. e \in Control /\ e.at = at /\ e.runtime = gone /\ e.ops = ops
    BY <1>1, <2>3, Replaced, NowIs
  <2> HIDE DEF e
  <2>5. Spawned(e)
    BY <2>1, <2>4 DEF Spawned
  <2>. QED BY <1>1, <1>4, <2>4, <2>5, OwnerFails
<1>5. CASE Become(d)
  <2>1. /\ at' = [at EXCEPT ![f] = "start"]
        /\ runtime' = [Now.runtime EXCEPT !.life = "spawned", !.retired = FALSE]
    BY <1>1, <1>5 DEF Become, Control
  <2>2. runtime'.life # "none"
    BY <1>1, <2>1 DEF Runtimes
  <2> HIDE DEF d
  <2>. QED BY <1>1, <2>1, <2>2, StartingConfines
<1>. QED BY <1>2, <1>3, <1>4, <1>5

LEMMA ConnectedConfines ==
  ASSUME TypeOK, AgentInv, Confined(Now), NEW f \in Flows, Initialized(f) \/ Loaded(f)
  PROVE  Confined(Now)'
<1>1. Now \in Control /\ Now.runtime \in Runtimes /\ Now.at = at /\ Now.runtime = runtime
  BY NowReady, Fields, NowIs
<1>2. CASE Initialized(f)
  <2>1. /\ at[f] \in Owning /\ at' = [at EXCEPT ![f] = "load"]
        /\ runtime' = [runtime EXCEPT !.life = "linked"]
    BY <1>2, <1>1 DEF Initialized, Become, Now, Owning, Starting
  <2>2. runtime'.life # "none"
    BY <1>1, <2>1 DEF Runtimes
  <2>. QED BY <2>1, <2>2, StartingConfines
<1>3. CASE Loaded(f)
  <2>1. PICK mode \in Modes :
          Become([Now EXCEPT !.at[f] = "mode", !.runtime.life = "up", !.runtime.mode = mode])
    BY <1>3 DEF Loaded
  <2>2. /\ at[f] \in Owning /\ at' = [at EXCEPT ![f] = "mode"]
        /\ runtime' = [runtime EXCEPT !.life = "up", !.mode = mode]
    BY <1>3, <1>1, <2>1 DEF Loaded, Become, Now, Owning, Starting
  <2>3. runtime'.life # "none"
    BY <1>1, <2>2 DEF Runtimes
  <2>. QED BY <2>2, <2>3, StartingConfines
<1>. QED BY <1>2, <1>3

(* A turn that has its runtime asks it for the sandbox.                     *)
LEMMA StartedConfines ==
  ASSUME TypeOK, AgentInv, Confined(Now), NEW f \in Flows, Started(f)
  PROVE  Confined(Now)'
<1> DEFINE r == [Now.runtime EXCEPT !.mode = goal, !.restart = FALSE]
           mode == IF f = "switch" THEN goal ELSE sandbox
           a == [Now.at EXCEPT ![f] = "sync"]
           e == With(Now, a, r, Now.syncs, mode, Now.sandbox)
           d == Queued(e, f, mode)
<1>1. /\ Now \in Control /\ Now.runtime \in Runtimes /\ Spawned(Now) /\ at[f] \in Owning
      /\ Now.at = at /\ at \in [Flows -> Places] /\ goal \in Modes /\ sandbox \in Modes
      /\ Now.sandbox = sandbox /\ (f # "turn" => at.turn = "none")
  BY NowBegins, Fields, NowIs DEF Begins, Started, Owning, Starting
<1>2. Become(d)
  <2>1. e = [[Now EXCEPT !.runtime.mode = goal, !.runtime.restart = FALSE]
               EXCEPT !.at[f] = "sync", !.goal = mode]
    BY <1>1 DEF Control, With
  <2>. QED BY <2>1 DEF Started, Synced
<1>3. r \in Runtimes /\ (r.life = "none" => r.retired)
  BY <1>1 DEF Runtimes, Spawned
<1>4. a \in [Flows -> Places] /\ (f # "turn" => a.turn = "none")
  BY <1>1 DEF Places, Owning, Flows
<1>5. mode \in Modes /\ (f = "turn" => mode = sandbox)
  BY <1>1
<1> HIDE DEF r, a, mode
<1>6. Fit(a, r, Now.syncs, mode, Now.sandbox)
  BY <1>1, <1>3, <1>4, <1>5, Fields DEF Fit
<1>7. e \in Control /\ e.at = a /\ e.runtime = r /\ e.sandbox = sandbox
  BY <1>1, <1>6, Replaced
<1> HIDE DEF e
<1>8. (mode = e.sandbox => Narrowed(d)) /\ d.at = e.at /\ d.runtime = e.runtime
  BY <1>5, <1>7, QueuedNarrows
<1> HIDE DEF d
<1>9. Confined(d)
  BY <1>3, <1>4, <1>5, <1>7, <1>8 DEF Confined
<1>. QED BY <1>2, <1>9, BecameConfined

LEMMA StartFailsConfines ==
  ASSUME TypeOK, AgentInv, Confined(Now), NEW f \in Flows, StartFails(f)
  PROVE  Confined(Now)'
<1> DEFINE r == [Now.runtime EXCEPT !.life = "none", !.retired = TRUE]
           c == With(Now, Now.at, r, Now.syncs, Now.goal, Now.sandbox)
<1>1. /\ Now \in Control /\ Now.runtime \in Runtimes /\ at[f] \in Owning
      /\ Now.at = at /\ Now.ops = ops
  BY NowReady, Fields, NowIs DEF StartFails, Owning
<1>2. Become(Failed(c, f))
  <2>1. c = [Now EXCEPT !.runtime.life = "none", !.runtime.retired = TRUE]
    BY <1>1 DEF Control, With
  <2>. QED BY <2>1 DEF StartFails
<1>3. r \in Runtimes /\ r.retired
  BY <1>1 DEF Runtimes
<1> HIDE DEF r
<1>4. Fit(Now.at, r, Now.syncs, Now.goal, Now.sandbox)
  BY <1>1, <1>3, Fields DEF Fit
<1>5. c \in Control /\ c.at = at /\ c.runtime = r /\ c.ops = ops
  BY <1>1, <1>4, Replaced
<1> HIDE DEF c
<1>6. Spawned(c)
  BY <1>3, <1>5 DEF Spawned
<1>. QED BY <1>1, <1>2, <1>5, <1>6, OwnerFails

(* Taking the head off the chain leaves the last request the last, or leaves *)
(* the mode that the head asked for.                                         *)
LEMMA TailNarrows ==
  ASSUME NEW c \in Control, NEW d, c.syncs # <<>>, Narrowed(c), d.syncs = Tail(c.syncs),
         d.sandbox = c.sandbox, d.runtime.mode = Head(c.syncs).mode
  PROVE  Narrowed(d)
<1> DEFINE q == c.syncs
           t == Tail(q)
<1>1. /\ q \in Seq(Requests) /\ Len(q) \in Nat /\ Len(q) > 0 /\ Head(q) = q[1]
      /\ t \in Seq(Requests) /\ Len(t) = Len(q) - 1
      /\ \A i \in 1..Len(t) : t[i] = q[i + 1]
  BY Fields
<1>2. q[Len(q)].mode <= c.sandbox
  BY DEF Narrowed
<1> HIDE DEF q, t
<1>3. CASE t = <<>>
  <2>1. Len(q) = 1
    BY <1>1, <1>3
  <2>. QED BY <1>1, <1>2, <1>3, <2>1 DEF Narrowed, q, t
<1>4. CASE t # <<>>
  <2>1. Len(t) \in 1..Len(t) /\ Len(t) + 1 = Len(q)
    BY <1>1, <1>4
  <2>2. t[Len(t)] = q[Len(q)]
    BY <1>1, <2>1
  <2>. QED BY <1>2, <1>4, <2>2 DEF Narrowed, q, t
<1>. QED BY <1>3, <1>4

LEMMA SyncOkConfines ==
  ASSUME TypeOK, AgentInv, Confined(Now), NEW s \in Requests, s = Head(Now.syncs),
         Now.syncs # <<>>, s.by # "watch" => at[s.by] = "sync" /\ ~phase.aborted,
         ~runtime.retired, NEW c \in Control,
         c.at = at, c.phase = phase, c.sandbox = sandbox, c.ops = ops,
         c.runtime.life = runtime.life, c.runtime.retired = runtime.retired,
         c.runtime.mode = s.mode, c.syncs = Tail(Now.syncs),
         Become(SyncOk(c, s.by))
  PROVE  Confined(Now)'
<1>1. /\ Now \in Control /\ Spawned(Now) /\ Now.at = at /\ Now.phase = phase
      /\ Now.runtime = runtime /\ Now.sandbox = sandbox /\ at \in [Flows -> Places]
      /\ \A f \in Flows : at[f] \in Owning /\ f # "turn" => at.turn = "none"
  BY NowBegins, Fields, NowIs DEF Begins
<1>2. Narrowed(Now) => Narrowed(c)
  BY <1>1, TailNarrows
<1>3. Spawned(c) /\ Confined(c)
  <2>1. Spawned(c)
    BY <1>1 DEF Spawned
  <2>2. at.turn \in {"sync", "build", "prompt"} => phase.aborted \/ Narrowed(Now)
    BY <1>1 DEF Confined
  <2>. QED BY <1>2, <2>1, <2>2 DEF Confined, Spawned
<1>4. CASE s.by = "turn"
  <2> DEFINE d == [c EXCEPT !.at.turn = "build"]
  <2>1. Become(d)
    BY <1>4 DEF SyncOk
  <2>2. /\ d.phase = c.phase /\ d.runtime = c.runtime /\ d.syncs = c.syncs
        /\ d.sandbox = c.sandbox
    BY DEF Control
  <2>3. Narrowed(c)
    BY <1>1, <1>2, <1>4 DEF Confined
  <2> HIDE DEF d
  <2>4. Confined(d)
    BY <1>3, <2>2, <2>3 DEF Confined, Narrowed, Spawned
  <2>. QED BY <2>1, <2>4, BecameConfined
<1>5. CASE s.by = "op"
  <2> DEFINE d == [c EXCEPT !.at.op = "run"]
  <2>1. Become(d)
    BY <1>5 DEF SyncOk
  <2>2. /\ d.phase = c.phase /\ d.runtime = c.runtime /\ d.syncs = c.syncs
        /\ d.sandbox = c.sandbox /\ d.at.turn = c.at.turn
    BY DEF Control, Flows
  <2> HIDE DEF d
  <2>3. Confined(d)
    BY <1>3, <2>2, RunsAlike
  <2>. QED BY <2>1, <2>3, BecameConfined
<1>6. CASE s.by = "switch"
  <2> DEFINE b == [c EXCEPT !.sandbox = c.goal]
             e == Queued(b, "watch", c.goal)
             p == PhaseOver(e, "switch")
  <2>1. Become(SwitchEnded(p))
    BY <1>6 DEF SyncOk, Committed
  <2>2. c.goal \in Modes
    BY Fields
  <2>3. b \in Control /\ b.at = at /\ b.runtime = c.runtime
    BY <2>2 DEF Control
  <2> HIDE DEF b
  <2>4. e \in Control /\ e.at = at /\ e.runtime = c.runtime
    BY <2>2, <2>3, QueuedNarrows
  <2> HIDE DEF e
  <2>5. at.turn = "none"
    BY <1>1, <1>6 DEF Flows, Owning
  <2>6. Spawned(e) /\ "switch" \in Flows
    BY <1>3, <2>4 DEF Spawned, Flows
  <2>7. p \in Control /\ Confined(p)
    BY <2>4, <2>5, <2>6, PhaseOverConfines
  <2> HIDE DEF p
  <2>. QED BY <2>1, <2>7, SwitchEndedConfines, BecameConfined
<1>7. CASE s.by = "watch"
  <2>1. Become(c)
    BY <1>7 DEF SyncOk
  <2>. QED BY <1>3, <2>1, BecameConfined
<1>. QED BY <1>4, <1>5, <1>6, <1>7 DEF Requests, Flows

(* A failed request retires the generation, or a turn that still runs is    *)
(* cancelled or retired already.                                            *)
LEMMA WatchConfines ==
  ASSUME TypeOK, AgentInv, Confined(Now), NEW c \in Control,
         c.at = at, c.phase = phase, c.runtime = runtime, Become(Failed(c, "watch"))
  PROVE  Confined(Now)'
<1>1. /\ Spawned(Now) /\ Now.at = at /\ Now.phase = phase /\ Now.runtime = runtime
      /\ phase.by # "turn" => at.turn = "none"
  BY NowBegins, NowIs DEF Begins
<1>2. (Become(c) /\ (c.runtime.retired \/ Ended)) \/ Become(Retired(c))
  BY <1>1 DEF Failed, Spawned
<1>3. CASE Become(c) /\ (c.runtime.retired \/ Ended)
  <2>1. Ended => phase.aborted \/ at.turn = "none"
    BY <1>1 DEF Ended, AgentInv, TurnIsClear
  <2>2. Confined(c)
    BY <1>1, <1>3, <2>1 DEF Confined, Spawned
  <2>. QED BY <1>3, <2>2, BecameConfined
<1>4. CASE Become(Retired(c))
  <2>1. Retired(c).runtime.retired
    BY DEF Retired, Control, Runtimes
  <2>. QED BY <1>4, <2>1, BecameConfined DEF Confined
<1>. QED BY <1>2, <1>3, <1>4

LEMMA SyncAnsweredConfines ==
  ASSUME TypeOK, AgentInv, Confined(Now), SyncAnswered
  PROVE  Confined(Now)'
<1> DEFINE s == Head(Now.syncs)
           rest == Tail(Now.syncs)
           r == [Now.runtime EXCEPT !.mode = s.mode]
           next == With(Now, Now.at, Now.runtime, rest, Now.goal, Now.sandbox)
           done == With(Now, Now.at, r, rest, Now.goal, Now.sandbox)
<1>1. /\ Now \in Control /\ Now.runtime \in Runtimes /\ Now.at = at /\ Now.phase = phase
      /\ Now.ops = ops /\ Now.sandbox = sandbox /\ Now.syncs = syncs /\ Now.runtime = runtime
      /\ syncs # <<>> /\ SyncsOwned(Now) /\ Spawned(Now)
  BY NowBegins, NowReady, Fields, NowIs DEF Begins, SyncAnswered
<1>2. \/ ~SyncAborted(s.by) /\ Become(SyncOk(done, s.by))
      \/ Become(Failed(next, s.by))
  <2>1. /\ next = [Now EXCEPT !.syncs = Tail(@)]
        /\ done = [[Now EXCEPT !.syncs = Tail(@)] EXCEPT !.runtime.mode = s.mode]
    BY <1>1 DEF Control, With
  <2>. QED BY <1>1, <2>1 DEF SyncAnswered
<1>3. /\ s \in Requests /\ rest \in Seq(Requests)
      /\ s.by # "watch" => at[s.by] = "sync"
  <2>1. Now.syncs \in Seq(Requests) /\ Now.syncs # <<>>
    BY <1>1, Fields
  <2>2. /\ s = Now.syncs[1] /\ 1 \in 1..Len(Now.syncs) /\ s \in Requests
        /\ rest \in Seq(Requests)
    BY <2>1
  <2>. QED BY <1>1, <2>2 DEF SyncsOwned
<1>4. /\ r \in Runtimes /\ r.life = runtime.life /\ r.retired = runtime.retired
      /\ r.mode = s.mode
  BY <1>1, <1>3 DEF Runtimes, Requests
<1> HIDE DEF r, s, rest
<1>5. /\ Fit(Now.at, Now.runtime, rest, Now.goal, Now.sandbox)
      /\ Fit(Now.at, r, rest, Now.goal, Now.sandbox)
  BY <1>1, <1>3, <1>4, Fields DEF Fit
<1>6. /\ next \in Control /\ next.at = at /\ next.phase = phase /\ next.runtime = runtime
      /\ next.ops = ops
  BY <1>1, <1>5, Replaced
<1>7. /\ done \in Control /\ done.at = at /\ done.phase = phase /\ done.runtime = r
      /\ done.sandbox = sandbox /\ done.ops = ops /\ done.syncs = rest
  BY <1>1, <1>5, Replaced
<1> HIDE DEF next, done
<1>8. CASE ~SyncAborted(s.by) /\ Become(SyncOk(done, s.by))
  <2>1. ~runtime.retired /\ (s.by # "watch" => ~phase.aborted)
    BY <1>8 DEF SyncAborted
  <2>. QED BY <1>1, <1>3, <1>4, <1>7, <1>8, <2>1, SyncOkConfines DEF s, rest
<1>9. CASE Become(Failed(next, s.by))
  <2>1. CASE s.by = "watch"
    BY <1>6, <1>9, <2>1, WatchConfines
  <2>2. CASE s.by # "watch"
    <3>1. s.by \in Flows /\ at[s.by] \in Owning
      BY <1>3, <2>2 DEF Requests, Owning
    <3>2. Spawned(next)
      BY <1>1, <1>6 DEF Spawned
    <3>. QED BY <1>6, <1>9, <3>1, <3>2, OwnerFails
  <2>. QED BY <2>1, <2>2
<1>. QED BY <1>2, <1>8, <1>9

LEMMA PromptConfines ==
  ASSUME TypeOK, AgentInv, Confined(Now), PromptSent \/ PromptAnswered
  PROVE  Confined(Now)'
<1> DEFINE d == [Now EXCEPT !.at.turn = "prompt"]
<1>1. Now \in Control /\ Spawned(Now)
  BY NowBegins DEF Begins
<1>2. Become(TurnOver(Now)) \/ (at.turn = "build" /\ Become(d))
  BY DEF PromptSent, PromptAnswered
<1>3. /\ d.phase = Now.phase /\ d.runtime = Now.runtime /\ d.syncs = Now.syncs
      /\ d.sandbox = Now.sandbox
  BY <1>1 DEF Control
<1> HIDE DEF d
<1>4. at.turn = "build" => Confined(d)
  BY <1>3, NowIs DEF Confined, Narrowed
<1>. QED BY <1>1, <1>2, <1>4, TurnOverConfines, BecameConfined

LEMMA OperationAnsweredConfines ==
  ASSUME TypeOK, AgentInv, Confined(Now), OperationAnswered
  PROVE  Confined(Now)'
<1> DEFINE r == [Now.runtime EXCEPT !.restart = TRUE]
           c == With(Now, Now.at, r, Now.syncs, Now.goal, Now.sandbox)
<1>1. /\ Now \in Control /\ Now.runtime \in Runtimes /\ Now.ops.pending > 0
      /\ Now.phase.by # "turn" => Now.at.turn = "none"
  BY NowBegins, NowIs, Fields DEF Begins, OperationAnswered
<1>2. c = [Now EXCEPT !.runtime.restart = TRUE]
  BY <1>1 DEF Control, With
<1>3. Become(OpOver(Now)) \/ Become(OpOver(c))
  BY <1>2 DEF OperationAnswered
<1>4. /\ r \in Runtimes /\ r.life = Now.runtime.life /\ r.retired = Now.runtime.retired
      /\ r.mode = Now.runtime.mode
  BY <1>1 DEF Runtimes
<1> HIDE DEF r
<1>5. Fit(Now.at, r, Now.syncs, Now.goal, Now.sandbox)
  BY <1>1, <1>4, Fields DEF Fit
<1>6. /\ c \in Control /\ c.at = Now.at /\ c.runtime = r /\ c.syncs = Now.syncs
      /\ c.sandbox = Now.sandbox /\ c.phase = Now.phase /\ c.ops = Now.ops
  BY <1>1, <1>5, Replaced
<1> HIDE DEF c
<1>7. Confined(c)
  BY <1>4, <1>6 DEF Confined, Narrowed
<1>. QED BY <1>1, <1>3, <1>6, <1>7, OpOverConfines, BecameConfined

LEMMA DisposalConfines ==
  ASSUME TypeOK, AgentInv, Confined(Now),
         ResumeClose \/ CloseProviderSession \/ Close \/ OperationsDrained \/ ProcessClosed
  PROVE  Confined(Now)'
<1> DEFINE e == [Now EXCEPT !.inbox = [turn |-> <<>>, step |-> {}]]
<1>1. /\ Now \in Control /\ Now.runtime \in Runtimes /\ Spawned(Now) /\ Now.runtime = runtime
      /\ Now.at = at /\ Now.phase = phase /\ Now.syncs = syncs /\ Now.sandbox = sandbox
  BY NowBegins, Fields, NowIs DEF Begins
<1>2. Confined(Disposed(Now))
  <2>1. e \in Control /\ Confined(e)
    BY ClearedConfines
  <2> HIDE DEF e
  <2>2. Confined(Cancelled(e))
    BY <2>1, CancelledConfines
  <2>. QED BY <2>2 DEF Disposed, e
<1>3. CASE ResumeClose
  <2>1. runtime' = runtime \/ runtime'.retired
    BY <1>1, <1>3 DEF ResumeClose, Runtimes
  <2>2. UNCHANGED <<phase, at, syncs, sandbox>>
    BY <1>3 DEF ResumeClose
  <2>. QED BY <2>1, <2>2, RunGoesOn DEF Confined, Now
<1>4. CASE CloseProviderSession
  BY <1>2, <1>4, BecameConfined DEF CloseProviderSession
<1>5. CASE Close
  <2> DEFINE c == Disposed(Now)
             d == WaitsIdle(c, "close")
  <2>1. /\ c \in Control
    BY DisposedIs
  <2> HIDE DEF c
  <2>2. /\ d.at = c.at /\ d.phase = c.phase /\ d.runtime = c.runtime
        /\ d.syncs = c.syncs /\ d.sandbox = c.sandbox
    BY <2>1 DEF WaitsIdle, Control
  <2> HIDE DEF d
  <2>3. Confined(d)
    BY <1>2, <2>2, RunsAlike DEF c
  <2>. QED BY <1>5, <2>3, BecameConfined DEF Close, d, c
<1>6. CASE OperationsDrained
  <2>1. UNCHANGED <<phase, at, runtime, syncs, sandbox>>
    BY <1>6 DEF OperationsDrained, Become, WaitsIdle, Now
  <2>. QED BY <2>1, RunGoesOn
<1>7. CASE ProcessClosed
  <2> DEFINE r == [Now.runtime EXCEPT !.life = IF @ = "none" THEN "none" ELSE "closed"]
  <2>1. UNCHANGED <<phase, at, syncs, sandbox>> /\ runtime' = r
    BY <1>7 DEF ProcessClosed, Become, Now
  <2>2. /\ r.life = "none" => Now.runtime.life = "none"
        /\ r.retired = Now.runtime.retired /\ r.mode = Now.runtime.mode
    BY <1>1 DEF Runtimes
  <2> HIDE DEF r
  <2>. QED BY <1>1, <2>1, <2>2 DEF Confined, Narrowed, Now
<1>. QED BY <1>3, <1>4, <1>5, <1>6, <1>7

LEMMA StepConfines ==
  ASSUME TypeOK, AgentInv, Confined(Now), [Next]_vars
  PROVE  Confined(Now)'
<1>1. CASE Call
  BY <1>1, SendConfines, CancelConfines, SetSandboxConfines, TransitionConfines,
     ProviderModeConfines, ModelOperationConfines, ConnectionLostConfines, DisposalConfines
     DEF Call, Followup, Steer
<1>2. CASE Release
  BY <1>2, RunGoesOn DEF Release
<1>3. CASE Proceed /\ ~Release
  BY <1>3, ResumedConfines, SteerAnsweredConfines, ReplaceRuntimeConfines, ConnectedConfines,
     StartedConfines, StartFailsConfines, SyncAnsweredConfines, PromptConfines,
     OperationAnsweredConfines, DisposalConfines DEF Proceed
<1>4. CASE UNCHANGED vars
  BY <1>4, RunGoesOn DEF vars, control
<1>. QED BY <1>1, <1>2, <1>3, <1>4 DEF Next

LEMMA ConfinedBegins ==
  ASSUME Init
  PROVE  Confined(Now)
<1>1. Now.at.turn = "none" /\ Now.runtime.life = "up"
  BY NowIs DEF Init, Flows
<1>. QED BY <1>1 DEF Confined

LEMMA LastNarrows ==
  ASSUME NEW c \in Control, Narrowed(c), c.runtime.mode > c.sandbox
  PROVE  \E i \in 1..Len(c.syncs) : c.syncs[i].mode <= c.sandbox
<1>1. c.sandbox \in Nat /\ c.runtime.mode \in Nat
  BY Fields, AgentAssumption DEF Runtimes
<1>2. ~(c.runtime.mode <= c.sandbox)
  BY <1>1
<1>3. c.syncs # <<>> /\ c.syncs[Len(c.syncs)].mode <= c.sandbox
  BY <1>2 DEF Narrowed
<1>4. Len(c.syncs) \in 1..Len(c.syncs)
  <2>1. c.syncs \in Seq(Requests)
    BY Fields
  <2>. QED BY <1>3, <2>1
<1>. QED BY <1>3, <1>4

(* A prompt runs under a wider mode than its sandbox only while it is       *)
(* cancelled, its generation is retired or a request that narrows the mode  *)
(* is on its way: the last request of the chain, whoever queued it, is no   *)
(* wider than the sandbox, or the mode that no request will change is not.  *)
THEOREM PromptsAreConfined == Spec => []PromptConfined
<1>1. Init => Confined(Now)
  BY ConfinedBegins
<1>2. TypeOK /\ AgentInv /\ Confined(Now) /\ [Next]_vars => Confined(Now)'
  BY StepConfines
<1>3. TypeOK /\ Confined(Now) => PromptConfined
  <2> SUFFICES ASSUME TypeOK, Confined(Now), at.turn = "prompt", runtime.mode > sandbox,
                      ~phase.aborted, ~runtime.retired
               PROVE  \E i \in 1..Len(syncs) : syncs[i].mode <= sandbox
    BY DEF PromptConfined
  <2>1. Now \in Control /\ Narrowed(Now) /\ Now.runtime.mode > Now.sandbox
    BY NowIs DEF TypeOK, Confined
  <2>. QED BY <2>1, LastNarrows, NowIs
<1>. QED BY <1>1, <1>2, <1>3, AgentInductive, PTL DEF Spec
================================================================================
