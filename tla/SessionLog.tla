------------------------------ MODULE SessionLog ------------------------------
(***************************************************************************)
(* One session's event log and the path that makes it durable: the live    *)
(* Session (packages/core/session), the write-behind controller and the    *)
(* coordinator that serve it (packages/session/session-persistence), the   *)
(* JSONL file (packages/session/session-persistence-jsonl) and the policy  *)
(* that checkpoints before a model request and before a tool body          *)
(* (packages/session/session-checkpoint-policy).  Any file operation may   *)
(* fail, and the host may die at any step, in the middle of an append as   *)
(* well; the next process repairs the log and resumes the session.         *)
(*                                                                         *)
(* An event is known by its kind and its position in the log, which is its *)
(* seq.  An "assistant" message carries one tool call; "note" stands for   *)
(* every event that no turn boundary or call depends on, a message without *)
(* calls among them.                                                       *)
(***************************************************************************)
EXTENDS Naturals, Sequences, FiniteSets

CONSTANTS
  Seeds,      \* the events a fresh session may be created with
  Setups,     \* the events a resumed session gains before it is published
  Compressed, \* whether the file is a sequence of Zstandard frames
  MaxEvents,  \* bound on the length of the live log
  MaxNotes,   \* bound on the notes among the events of one life
  MaxCrashes, MaxFaults \* how often the environment interferes

Opening == {"start"}
Ending == {"end", "interrupted"}
Answers == {"result", "unknown", "notStarted"}
Kinds == {"note", "step", "assistant", "call", "stepEnd"}
           \cup Opening \cup Ending \cup Answers

ASSUME EventsAssumption == Seeds \subseteq Seq(Kinds) /\ Setups \subseteq Seq(Kinds)

VARIABLES
  lines,   \* the events in the file's complete lines (and frames)
  tail,    \* the events that can be recovered from a torn last frame
  torn,    \* whether the file ends in a torn line or frame
  phase,   \* the process is "down"; or it is up and the session is "cold",
           \* "live", "retiring", "stuck" after a failed retirement, or the
           \* persistence service is "closing"
  log,     \* the live session's events
  seeded,  \* how many of them its initialization has to find or make durable
  init,    \* that initialization: "pending", "done" or "failed"
  cursor,  \* how many events the coordinator knows to be durable
  materialized, \* whether it knows of a file
  w,       \* the write-behind controller
  call,    \* the flush each caller is waiting for
  mark,    \* history: how long the log was when it asked
  repair,  \* the next step of a resume's repair, if one is under way
  rest,    \* the events that repair is to append
  ran,     \* history: the positions of the calls whose tool body ran
  acked,   \* history: how many events a successful flush has covered
  interference \* how often the environment has interfered

file == <<lines, tail, torn>>
memory == <<phase, log, seeded, init, cursor, materialized>>
flushes == <<call, mark>>
repairing == <<repair, rest>>
history == <<ran, acked>>
vars == <<file, memory, w, flushes, repairing, history, interference>>

Callers == {"loop", "reader", "drain"}

Idle == [pending |-> <<>>, active |-> <<>>, timer |-> FALSE,
         expired |-> FALSE, paused |-> FALSE, barrier |-> "none"]

-----------------------------------------------------------------------------
(* Reading a log: what is open at its end, and the repair of an interrupted *)
(* turn.                                                                    *)

LastOf(events, kinds) ==
  LET at == {i \in DOMAIN events : events[i] \in kinds}
  IN IF at = {} THEN 0 ELSE CHOOSE i \in at : \A j \in at : j <= i

TurnOpen(events) == LastOf(events, Opening) > LastOf(events, Ending)
StepOpen(events) ==
  LastOf(events, {"step"}) > LastOf(events, {"stepEnd"} \cup Opening \cup Ending)
CallPending(events) ==
  LastOf(events, {"assistant"})
    > LastOf(events, {"stepEnd"} \cup Opening \cup Ending \cup Answers)
CallStarted(events) ==
  LastOf(events, {"call"}) > LastOf(events, {"assistant"})

(* Slip: a finished step leaves its calls to the next ones.              *)
ClosersOfAllSteps(events) ==
  IF ~TurnOpen(events) THEN <<>>
  ELSE (IF LastOf(events, {"assistant"}) <= LastOf(events, Opening \cup Ending \cup Answers)
        THEN <<>>
        ELSE IF CallStarted(events) THEN <<"unknown">> ELSE <<"notStarted">>)
    \o (IF StepOpen(events) THEN <<"stepEnd">> ELSE <<>>)
    \o <<"interrupted">>

Closers(events) ==
  IF ~TurnOpen(events) THEN <<>>
  ELSE (IF ~CallPending(events) THEN <<>>
        ELSE IF CallStarted(events) THEN <<"unknown">> ELSE <<"notStarted">>)
    \o (IF StepOpen(events) THEN <<"stepEnd">> ELSE <<>>)
    \o <<"interrupted">>

Recovered == lines \o tail
Boundary(events) ==
  LET last == LastOf(events, Kinds \ {"note"})
  IN IF last = 0 THEN "end" ELSE events[last]

-----------------------------------------------------------------------------
(* The write-behind controller.                                            *)

(* Slip: an event after a failure does not start a new window.           *)
EnqueueAsleep(c, event) ==
  LET queued == [c EXCEPT !.pending = Append(@, event)]
  IN IF c.barrier # "none" THEN queued
     ELSE IF c.paused THEN [queued EXCEPT !.paused = FALSE, !.expired = FALSE]
     ELSE [queued EXCEPT !.timer = @ \/ c.pending = <<>>]

Enqueue(c, event) ==
  LET queued == [c EXCEPT !.pending = Append(@, event)]
  IN IF c.barrier # "none" THEN queued
     ELSE IF c.paused
     THEN [queued EXCEPT !.paused = FALSE, !.expired = FALSE, !.timer = TRUE]
     ELSE [queued EXCEPT !.timer = @ \/ c.pending = <<>>]

CancelAutomaticWait(c) == [c EXCEPT !.timer = FALSE, !.expired = FALSE]

StartWrite(c) ==
  [CancelAutomaticWait(c) EXCEPT !.active = c.pending, !.pending = <<>>]

Drain(c) ==
  IF c.pending = <<>> THEN [c EXCEPT !.barrier = "none"]
  ELSE [StartWrite(c) EXCEPT !.barrier = "drain"]

Flush(c) ==
  LET awake == [CancelAutomaticWait(c) EXCEPT !.paused = FALSE]
  IN IF c.barrier # "none" THEN c
     ELSE IF c.active # <<>> THEN [awake EXCEPT !.barrier = "overlap"]
     ELSE Drain(awake)

OnDeadline(c) ==
  LET fired == [c EXCEPT !.timer = FALSE]
  IN IF c.active # <<>> THEN [fired EXCEPT !.expired = TRUE] ELSE StartWrite(fired)

WriteSucceeded(c) ==
  LET settled == [c EXCEPT !.active = <<>>]
  IN IF c.barrier = "none" /\ c.expired THEN StartWrite(settled) ELSE settled

(* Slip: a failed batch is not put back.                                 *)
WriteFailedDrops(c) ==
  [CancelAutomaticWait(c) EXCEPT
     !.active = <<>>, !.paused = TRUE,
     !.barrier = IF @ = "drain" THEN "failed" ELSE @]

WriteFailed(c) ==
  [CancelAutomaticWait(c) EXCEPT
     !.pending = c.active \o @, !.active = <<>>, !.paused = TRUE,
     !.barrier = IF @ = "drain" THEN "failed" ELSE @]

(* Slip: the barrier ends with the write that was under way.             *)
DrainBarrierOnce(c) == [c EXCEPT !.barrier = "none", !.paused = FALSE]

DrainBarrier(c) ==
  IF c.barrier = "failed" THEN [c EXCEPT !.barrier = "none"]
  ELSE Drain([c EXCEPT !.paused = @ /\ c.barrier # "overlap"])

(* The callers that waited for a barrier learn how it ended; "loop" and     *)
(* "drain" act on it, a reader only wants the log to be durable.            *)
Answered(k, outcome) == IF k = "reader" THEN "idle" ELSE outcome
Waiting(k) == call[k] \in {"init", "barrier"}

Settle(waiters, outcome) ==
  /\ call' = [k \in Callers |-> IF k \in waiters THEN Answered(k, outcome) ELSE call[k]]
  /\ mark' = [k \in Callers |-> IF k \in waiters THEN 0 ELSE mark[k]]
  /\ acked' = IF outcome = "failed" \/ waiters = {} THEN acked
              ELSE LET covered == {acked} \cup {mark[k] : k \in waiters}
                   IN CHOOSE n \in covered : \A m \in covered : m <= n

-----------------------------------------------------------------------------
(* Appending to the file.                                                  *)

(* A batch is in order, so what is already stored is at its start.         *)
Fresh(batch) ==
  LET stored == Cardinality({i \in DOMAIN batch : batch[i] <= cursor})
  IN SubSeq(batch, stored + 1, Len(batch))
SeedBatch == [i \in 1..(seeded - cursor) |-> cursor + i]
Continues(batch, n) == \A i \in DOMAIN batch : batch[i] = n + i
Events(batch) == [i \in DOMAIN batch |-> log[batch[i]]]

Interfere(kind, limit) ==
  /\ interference[kind] < limit
  /\ interference' = [interference EXCEPT ![kind] = @ + 1]

(* A file that the coordinator does not know of is never written over.     *)
Refused == ~materialized /\ lines # <<>>

Store(batch) ==
  /\ Continues(batch, cursor)
  /\ batch # <<>> => ~Refused
  /\ lines' = lines \o Events(batch)
  /\ cursor' = cursor + Len(batch)
  /\ materialized' = (materialized \/ batch # <<>>)
  /\ UNCHANGED <<tail, torn>>

(* An append that fails is rolled back; a first write that fails may have   *)
(* published the file before the directory was synchronized.                *)
StoreFails(batch) ==
  /\ batch # <<>>
  /\ \/ (~Continues(batch, cursor) \/ Refused) /\ UNCHANGED <<lines, interference>>
     \/ /\ Interfere("fault", MaxFaults)
        /\ \/ UNCHANGED lines
           \/ ~materialized /\ lines = <<>> /\ lines' = Events(batch)
  /\ UNCHANGED <<tail, torn, cursor, materialized>>

-----------------------------------------------------------------------------
Init ==
  /\ lines = <<>> /\ tail = <<>> /\ torn = FALSE
  /\ phase = "cold" /\ log = <<>> /\ seeded = 0
  /\ init = "done" /\ cursor = 0 /\ materialized = FALSE
  /\ w = Idle
  /\ call = [k \in Callers |-> "idle"]
  /\ mark = [k \in Callers |-> 0]
  /\ repair = "none" /\ rest = <<>>
  /\ ran = {} /\ acked = 0
  /\ interference = [kind \in {"crash", "fault"} |-> 0]

(* A session that was never stored becomes live with its seed.             *)
Create(seed) ==
  /\ phase = "cold" /\ lines = <<>> /\ ~torn
  /\ phase' = "live" /\ log' = seed /\ seeded' = Len(seed)
  /\ init' = "pending" /\ cursor' = 0 /\ materialized' = FALSE
  /\ UNCHANGED <<file, w, flushes, repairing, history, interference>>

InitSucceeds ==
  /\ init = "pending" /\ init' = "done"
  /\ Store(SeedBatch)
  /\ UNCHANGED <<phase, log, seeded, w, flushes, repairing, history, interference>>

(* Its append fails, or a look for a stored log under the same id.         *)
InitFails ==
  /\ init = "pending" /\ init' = "failed"
  /\ \/ StoreFails(SeedBatch)
     \/ /\ ~materialized /\ Interfere("fault", MaxFaults)
        /\ UNCHANGED <<file, cursor, materialized>>
  /\ UNCHANGED <<phase, log, seeded, w, flushes, repairing, history>>

-----------------------------------------------------------------------------
(* The agent loop's events: each joins the log and, while the service       *)
(* listens, the controller's queue.                                         *)

Notes == Cardinality({i \in DOMAIN log : log[i] = "note"})

(* A call may be skipped or finish before its body: then nothing is         *)
(* checkpointed between it and its result.  A step may also end right behind *)
(* its message, or behind a call that gets no result.                       *)
Legal(kind) ==
  LET last == Boundary(log)
  IN CASE kind = "note" -> Notes < MaxNotes
       [] kind = "start" -> last \in Ending
       [] kind = "step" -> last \in {"start", "stepEnd"} /\ call["loop"] = "ok"
       [] kind = "assistant" -> last = "step" /\ call["loop"] = "ok"
       [] kind = "call" -> last = "assistant"
       [] kind = "result" -> last = "call"
       [] kind = "stepEnd" -> last \in {"step", "assistant", "call"} \cup Answers
       [] kind = "end" -> last \in {"start", "stepEnd"}
       [] OTHER -> FALSE

Emit(kind) ==
  /\ phase = "live" /\ Len(log) < MaxEvents
  /\ kind # "note" => ~Waiting("loop")
  /\ Legal(kind)
  /\ log' = log \o <<kind>>
  /\ w' = Enqueue(w, Len(log) + 1)
  /\ call' = IF kind = "note" THEN call ELSE [call EXCEPT !["loop"] = "idle"]
  /\ UNCHANGED <<file, phase, seeded, init, cursor, materialized, mark,
                 repairing, history, interference>>

(* The tool body runs once the checkpoint after its recorded call is done.  *)
(* Slip: the body runs without waiting for the checkpoint.               *)
RunToolEagerly ==
  /\ phase = "live" /\ Boundary(log) = "call"
  /\ LastOf(log, {"call"}) \notin ran
  /\ ran' = ran \cup {LastOf(log, {"call"})}
  /\ UNCHANGED <<file, memory, w, flushes, repairing, acked, interference>>

RunTool ==
  /\ phase = "live" /\ Boundary(log) = "call" /\ call["loop"] = "ok"
  /\ LastOf(log, {"call"}) \notin ran
  /\ ran' = ran \cup {LastOf(log, {"call"})}
  /\ UNCHANGED <<file, memory, w, flushes, repairing, acked, interference>>

-----------------------------------------------------------------------------
(* Flushes and background writes.                                          *)

AskFlush(k) ==
  /\ call[k] = "idle"
  /\ call' = [call EXCEPT ![k] = "init"]
  /\ mark' = [mark EXCEPT ![k] = Len(log)]
  /\ w' = CancelAutomaticWait(w)

(* Before a step, a model request and a tool body.                         *)
Checkpoint ==
  /\ phase = "live" /\ Boundary(log) \in {"start", "stepEnd", "step", "call"}
  /\ AskFlush("loop")
  /\ UNCHANGED <<file, memory, repairing, history, interference>>

ReaderFlush ==
  /\ phase = "live"
  /\ AskFlush("reader")
  /\ UNCHANGED <<file, memory, repairing, history, interference>>

JoinFlush(k) ==
  /\ call[k] = "init" /\ init # "pending"
  /\ w' = IF init = "done" THEN Flush(w) ELSE CancelAutomaticWait(w)
  /\ IF init = "failed" THEN Settle({k}, "failed")
     ELSE IF w'.barrier = "none" THEN Settle({k}, "ok")
     ELSE /\ call' = [call EXCEPT ![k] = "barrier"]
          /\ UNCHANGED <<mark, acked>>
  /\ UNCHANGED <<file, memory, repairing, ran, interference>>

DrainStep ==
  /\ w.active = <<>> /\ w.barrier # "none"
  /\ w' = DrainBarrier(w)
  /\ Settle(IF w'.barrier = "none" THEN {k \in Callers : call[k] = "barrier"} ELSE {},
            IF w.barrier = "failed" THEN "failed" ELSE "ok")
  /\ UNCHANGED <<file, memory, repairing, ran, interference>>

Deadline ==
  /\ w.timer
  /\ w' = OnDeadline(w)
  /\ UNCHANGED <<file, memory, flushes, repairing, history, interference>>

WriteStores ==
  /\ w.active # <<>> /\ init = "done"
  /\ Store(Fresh(w.active))
  /\ w' = WriteSucceeded(w)
  /\ UNCHANGED <<phase, log, seeded, init, flushes, repairing, history, interference>>

WriteIsLost ==
  /\ w.active # <<>>
  /\ \/ init = "done" /\ StoreFails(Fresh(w.active))
     \/ init = "failed" /\ UNCHANGED <<file, cursor, materialized, interference>>
  /\ w' = WriteFailed(w)
  /\ UNCHANGED <<phase, log, seeded, init, flushes, repairing, history>>

-----------------------------------------------------------------------------
(* The end of a session's life, and of the persistence service's.           *)

Forget ==
  /\ log' = <<>> /\ seeded' = 0 /\ init' = "done"
  /\ cursor' = 0 /\ materialized' = FALSE
  /\ w' = Idle
  /\ call' = [k \in Callers |-> "idle"]
  /\ mark' = [k \in Callers |-> 0]

Retire ==
  /\ phase = "live" /\ Boundary(log) \in Ending /\ ~Waiting("loop")
  /\ phase' = "retiring"
  /\ AskFlush("drain")
  /\ UNCHANGED <<file, log, seeded, init, cursor, materialized,
                 repairing, history, interference>>

(* Slip: retirement releases the session however its flush ended.        *)
RetiredAnyway ==
  /\ phase = "retiring" /\ call["drain"] \in {"ok", "failed"}
  /\ phase' = "cold"
  /\ Forget
  /\ UNCHANGED <<file, repairing, history, interference>>

Retired ==
  /\ phase = "retiring" /\ call["drain"] = "ok"
  /\ phase' = "cold"
  /\ Forget
  /\ UNCHANGED <<file, repairing, history, interference>>

RetirementFails ==
  /\ phase = "retiring" /\ call["drain"] = "failed"
  /\ phase' = "stuck"
  /\ call' = [call EXCEPT !["drain"] = "idle"]
  /\ UNCHANGED <<file, log, seeded, init, cursor, materialized, w, mark,
                 repairing, history, interference>>

Close ==
  /\ phase \in {"live", "stuck"}
  /\ phase' = "closing"
  /\ AskFlush("drain")
  /\ UNCHANGED <<file, log, seeded, init, cursor, materialized,
                 repairing, history, interference>>

Closed ==
  /\ phase = "closing" /\ call["drain"] \in {"ok", "failed"}
  /\ w.active = <<>> /\ \A k \in Callers : ~Waiting(k)
  /\ phase' = "down"
  /\ Forget
  /\ UNCHANGED <<file, repairing, history, interference>>

-----------------------------------------------------------------------------
(* A crash, and the next process: repair, then resume.                     *)

Running ==
  IF repair = "append" THEN rest
  ELSE IF init = "pending" THEN Events(SeedBatch)
  ELSE IF init = "done" THEN Events(Fresh(w.active)) ELSE <<>>

(* What an append that was under way leaves behind: nothing, all of it, or  *)
(* some of its lines or a torn frame from which some can be read, perhaps   *)
(* all of them; a first write is published as a whole.                      *)
Interrupted ==
  \/ UNCHANGED file
  \/ /\ lines = <<>> \/ materialized \/ repair = "append"
     /\ lines' = lines \o Running /\ UNCHANGED <<tail, torn>>
  \/ /\ materialized \/ repair = "append"
     /\ Running # <<>>
     /\ \E n \in 0..Len(Running) :
          IF Compressed
          THEN tail' = SubSeq(Running, 1, n) /\ torn' = TRUE /\ UNCHANGED lines
          ELSE /\ lines' = lines \o SubSeq(Running, 1, n) /\ UNCHANGED tail
               /\ torn' \in {FALSE, n < Len(Running)}

Crash ==
  /\ phase # "down" /\ Interfere("crash", MaxCrashes)
  /\ Interrupted
  /\ phase' = "down" /\ repair' = "none" /\ rest' = <<>>
  /\ Forget
  /\ UNCHANGED history

Boot ==
  /\ phase = "down" /\ phase' = "cold"
  /\ UNCHANGED <<file, log, seeded, init, cursor, materialized, w, flushes,
                 repairing, history, interference>>

Damaged == torn \/ Closers(Recovered) # <<>>

BeginRepair ==
  /\ phase = "cold" /\ repair = "none" /\ lines # <<>> /\ Damaged
  /\ rest' = tail \o Closers(Recovered)
  /\ repair' = IF torn THEN "truncate" ELSE "append"
  /\ UNCHANGED <<file, memory, w, flushes, history, interference>>

(* Slip: the cut is made one line too early.                             *)
TruncateTooFar ==
  /\ repair = "truncate"
  /\ tail' = <<>> /\ torn' = FALSE
  /\ lines' = SubSeq(lines, 1, Len(lines) - 1)
  /\ repair' = IF rest = <<>> THEN "none" ELSE "append"
  /\ UNCHANGED <<rest, memory, w, flushes, history, interference>>

Truncate ==
  /\ repair = "truncate"
  /\ tail' = <<>> /\ torn' = FALSE
  /\ repair' = IF rest = <<>> THEN "none" ELSE "append"
  /\ UNCHANGED <<lines, rest, memory, w, flushes, history, interference>>

AppendRest ==
  /\ repair = "append" /\ repair' = "none" /\ rest' = <<>>
  /\ lines' = lines \o rest
  /\ UNCHANGED <<tail, torn, memory, w, flushes, history, interference>>

RepairFails ==
  /\ repair # "none" /\ repair' = "none" /\ rest' = <<>>
  /\ Interfere("fault", MaxFaults)
  /\ UNCHANGED <<file, memory, w, flushes, history>>

Resume(setup) ==
  /\ phase = "cold" /\ repair = "none" /\ lines # <<>> /\ ~Damaged
  /\ setup # <<>> => Len(lines) + Len(setup) <= MaxEvents
  /\ phase' = "live" /\ log' = lines \o setup
  /\ cursor' = Len(lines) /\ seeded' = Len(log') /\ materialized' = TRUE
  /\ init' = IF setup = <<>> THEN "done" ELSE "pending"
  /\ UNCHANGED <<file, w, flushes, repairing, history, interference>>

Flushing == Checkpoint \/ ReaderFlush \/ (\E k \in Callers : JoinFlush(k)) \/ DrainStep
Writing == Deadline \/ WriteStores \/ WriteIsLost
Repairing == BeginRepair \/ Truncate \/ AppendRest \/ RepairFails
Starting ==
  \/ \E seed \in Seeds : Create(seed)
  \/ \E setup \in Setups : Resume(setup)
  \/ InitSucceeds \/ InitFails \/ Boot
Stopping == Retire \/ Retired \/ RetirementFails \/ Close \/ Closed \/ Crash

Next ==
  \/ Starting \/ Flushing \/ Writing \/ Repairing \/ Stopping
  \/ (\E kind \in Kinds : Emit(kind))
  \/ RunTool

Spec == Init /\ [][Next]_vars

-----------------------------------------------------------------------------
Up == phase \in {"live", "retiring", "stuck", "closing"}
Controller ==
  [pending : Seq(Nat), active : Seq(Nat), timer : BOOLEAN, expired : BOOLEAN,
   paused : BOOLEAN, barrier : {"none", "overlap", "drain", "failed"}]

(* Every variable has its type.                                            *)
TypeOK ==
  /\ {lines, tail, log, rest} \subseteq Seq(Kinds) /\ torn \in BOOLEAN
  /\ phase \in {"down", "cold", "live", "retiring", "stuck", "closing"}
  /\ init \in {"pending", "done", "failed"} /\ materialized \in BOOLEAN
  /\ {seeded, cursor, acked} \subseteq Nat /\ ran \subseteq Nat
  /\ w \in Controller
  /\ call \in [Callers -> {"idle", "init", "barrier", "ok", "failed"}]
  /\ mark \in [Callers -> Nat]
  /\ repair \in {"none", "truncate", "append"}
  /\ interference \in [{"crash", "fault"} -> Nat]

(* No event is ever out of both the file and the queue, or in both: behind  *)
(* the durable prefix come, in order, the batch being written and the       *)
(* events that wait, whatever has failed or been retried                    *)
(* (SessionWriteBehind.startWrite, appendLiveBatch).                        *)
Behind == IF init = "done" THEN cursor ELSE seeded
NothingLost ==
  Up => /\ w.active \o w.pending = [i \in 1..(Len(log) - Behind) |-> Behind + i]
        /\ lines = SubSeq(log, 1, Len(lines))
        /\ Refused \/ Len(lines) = cursor

(* What a successful flush has covered stays in the file's complete lines,  *)
(* through failed appends, crashes and repairs (docs: the flush checkpoint).*)
AckedSurvives == acked <= Len(lines)

(* A tool body never runs before its call is durable, so a resumed session  *)
(* is never told that a call was not started, and may be retried, when it   *)
(* had already had its effects (checkpoint policy, interruptedTurnClosers). *)
RanIsRecorded == \A at \in ran : at \in DOMAIN lines /\ lines[at] = "call"

(* Nothing waits for what will not come.  Events that wait have something   *)
(* to wake the controller: a timer, an active write that used up their      *)
(* window, or a flush; or they wait after a failure, for the next event or  *)
(* flush.  Whoever waits for a barrier waits for one that is still          *)
(* draining, also when it joined late or the drain has failed               *)
(* (write-behind.ts).                                                       *)
NothingStranded ==
  /\ w.pending # <<>> =>
       \/ w.timer \/ w.paused \/ w.barrier # "none"
       \/ w.expired /\ w.active # <<>>
       \/ \E k \in Callers : call[k] = "init"
       \/ init = "failed"
  /\ \A k \in Callers : call[k] = "barrier" => w.barrier # "none"

(* The stored log, with what a torn end gives back, always keeps the order  *)
(* of turns, steps and calls that packages/core/session/src/invariant.ts    *)
(* demands, so that every later resume accepts it: closing an interrupted   *)
(* turn twice, or a turn that goes on, would break it.  A call is recorded  *)
(* for a message that still awaits it, and once.                            *)
Fits(kind, before) ==
  CASE kind \in Opening -> ~TurnOpen(before)
    [] kind \in Ending \cup {"step"} -> TurnOpen(before) /\ ~StepOpen(before)
    [] kind \in {"stepEnd", "assistant"} -> StepOpen(before)
    [] kind \in {"call", "notStarted"} -> CallPending(before) /\ ~CallStarted(before)
    [] kind \in {"result", "unknown"} -> CallPending(before) /\ CallStarted(before)
    [] OTHER -> TRUE
WellFormed(events) == \A i \in DOMAIN events : Fits(events[i], SubSeq(events, 1, i - 1))
StoredIsWellFormed == WellFormed(Recovered)

(* A session is created with events in that order (invariant.ts seedSession *)
(* fails on any other); what joins a resumed log before it is published     *)
(* belongs to no turn.                                                      *)
ASSUME OriginsAssumption ==
  (\A seed \in Seeds : WellFormed(seed)) /\ Setups \subseteq Seq({"note"})

(* A session whose retirement succeeded has its whole log in the file       *)
(* (coordinator.ts retireCore).                                             *)
RetiredIsDurable == [][phase = "retiring" /\ phase' = "cold" => lines = log]_vars

(* The inductive invariant behind these.  Outside a session's life its     *)
(* memory is empty; during it the queue and the file share the log between *)
(* them; a repair works on a closed log; and whoever was told that the log *)
(* is durable was told so when all of it was.                              *)
RestInv ==
  ~Up => /\ log = <<>> /\ seeded = 0 /\ init = "done"
         /\ cursor = 0 /\ materialized = FALSE /\ w = Idle
         /\ \A k \in Callers : call[k] = "idle" /\ mark[k] = 0

InOrder(c, behind, length) ==
  /\ Continues(c.active, behind) /\ Continues(c.pending, behind + Len(c.active))
  /\ behind + Len(c.active) + Len(c.pending) = length
QueueInv == Up => InOrder(w, Behind, Len(log))

FileInv ==
  Up => /\ Len(lines) <= Len(log) /\ seeded <= Len(log)
        /\ \A i \in 1..Len(lines) : lines[i] = log[i]
        /\ IF materialized THEN Len(lines) = cursor /\ cursor > 0 ELSE cursor = 0
        /\ init # "done" => cursor <= seeded

RepairInv ==
  /\ ~torn => tail = <<>>
  /\ Up => ~torn /\ repair = "none"
  /\ repair # "none" => phase = "cold" /\ lines # <<>>
  /\ repair = "append" => ~torn

FlushInv ==
  /\ \A k \in Callers : mark[k] <= Len(log)
  /\ w.barrier # "none" => init = "done"
  /\ w.barrier = "failed" => w.paused
  /\ call["drain"] # "idle" => phase \in {"retiring", "closing"}
  /\ call["drain"] = "ok" => Len(log) <= Len(lines)
  /\ call["loop"] = "ok" =>
       \A i \in 1..Len(log) : log[i] # "note" => i <= Len(lines)

SessionInv ==
  /\ TypeOK /\ RestInv /\ QueueInv /\ FileInv /\ RepairInv /\ FlushInv
  /\ AckedSurvives /\ RanIsRecorded /\ NothingStranded

(* The order of the stored log, inductively: the live log keeps it, and so  *)
(* does the file with the rest that a repair still has to append.           *)
OrderInv ==
  /\ WellFormed(Recovered) /\ WellFormed(log)
  /\ repair # "none" => WellFormed(lines \o rest)

(* The persistence of one session implements DurableLog: the complete       *)
(* records are those of complete lines and frames.                          *)
Durable == INSTANCE DurableLog WITH stored <- Recovered, whole <- Len(lines), open <- Up
RefinesDurableLog == Durable!Spec
=============================================================================
