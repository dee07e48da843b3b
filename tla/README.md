# PaperAI in TLA+

PaperAI (`packages/paperai/*`) keeps an academic paper as a *Working DOCX* file,
a semantic index of its paragraphs and a chain of commits, and lets people and
agents change it at the same time.  This directory specifies the parts of it
whose correctness depends on the order of things: concurrent callers, awaits,
crashes, failing storage calls and editors outside the program.  Of the agent host
that PaperAI runs on, it specifies the two parts that everything else rests on: the
loop that drives one agent (`packages/core/agent-loop`) and the log that makes its
session durable (`packages/session`).  The rest of the host (`packages/host`,
`packages/client`, `packages/extensions`, ...) is user interface, adapters and generated
catalogues; see *Not modelled*.

Source paths below are relative to `src/packages/paperai/` unless they say
otherwise.

## The system

| component | state | operations | what is hard |
| --- | --- | --- | --- |
| `commit-service` | one FIFO per document; DOCX snapshots in the project | `submit`, `revert`, `captureExternal`, `recoverMissingWorking`, recovery at boot | a publication changes five durable places; each can fail or be cut off; editors write the file meanwhile |
| `repository` | tables of projects, documents, nodes, commits, publications, templates, conflicts | get, list, put, delete, `updateDocument` | no transaction over records |
| `document-service` | none of its own | import of a DOCX, rollback of a failed import, re-index, node identity | compensates by hand; not in the commit FIFO |
| `template-service` | template files, drafts, a library | compile, confirm, install, gate, validate association | install and confirm change files and records |
| `project-service` | project directories and records, git checkpoints | open, create, adopt, checkpoint | path identity, partial creation |
| `export-service` | exported files, a queue per project | export of a gated version | checks the head, the gate, then publishes a file |
| `workbench-service` | gate cache, per-document views | the API of the UI, establishing a document | cached gate against a moving head |
| `agent-acp` | per conversation: the phase (idle, turn, maintenance), an inbox, a FIFO of model operations, the provider's process and its mode | send, steer, cancel, model operations, permission switch, dispose | everybody may have to replace the process; wakes are deferred to three different owners; the sandbox changes under a running turn |
| `mcp` | leases of tool scopes | open, call, close | a call racing the end of its lease |
| `tool-document`, `template-pack-hit`, `document-engine`, `document-engine-officecli` | none that outlives a call | formatting, data, adapters | pure or external |
| `src/packages/core/agent-loop`, the inbox of `src/packages/core/agent` | phase, abort signal and latch of the driver; two message lists; one batch of tool calls | send, cancel, maintenance, dispose; turns, steps, tool calls | anybody may call at any await; a wake may find nobody to deliver it; calls settle out of order |
| `src/packages/session/*`, `src/packages/core/session` | the live log; a write-behind queue; a file | append, flush, retire, repair, resume; checkpoints before effects | failing and half-done appends, crashes, flushes that join each other |
| `src/packages/storage/storage-domain`, `storage-json`, `storage-sqlite` | records in memory and on the medium, a write chain | put, update, delete, close | durable before visible; failure after rename |

How they meet: `workbench-service`, `tool-document` and `mcp` call
`commit-service` to change a document; `commit-service` reads the index from
`document-service`, asks `template-service` for the gate and
`document-engine` for the new bytes, and writes `repository` and the file
system; `repository` is a typed view of one `storage-domain`.  The agent loop appends
its events to the `Session` of `core/session`; `session-persistence` queues each of
them and writes them behind the loop's back, and `session-checkpoint-policy` makes the
loop wait for that before a tool's body runs.

## The commit service: modules

| module | what it is |
| --- | --- |
| `CommitGraph` | commit objects as a graph; what `reachableHistory` can walk to |
| `DocumentHistory` | the abstract promise: a chain of versions that only grows, callers told only of versions in it |
| `PaperCommits` | the commit service of one document |
| `PaperCommitsInv` | its inductive invariant, in named parts |
| `MCPaperCommits` | the instances TLC checks |
| `PaperCommitsRecords`, `PaperCommitsHistory` | the proofs |

`PaperCommits` models one document.  FIFOs of different documents share no
record, no file and no snapshot whose loss could matter (snapshots are content
addressed and never removed), so they are independent.

State and code:

- `document`, `nodes`, `commits`, `journal` are the durable records of
  `repository` (`DocumentRecord`, `DocumentNode`, `DocumentCommit`,
  `DocumentCommitPublication`); `snapshots` is the content-addressed store under
  `.paperai/objects`; `working` is the Working DOCX.
- `queue` is the promise chain of `enqueue`; its head is the operation that
  runs.  `pc` is the await that operation has reached.  `staged` is the
  publication record built in `prepareAndPublish` and `publishCommit`; `seen`
  is the file as `recoverPublication` read it, `plan` what `replaceIndex` still
  has to write, `broken` its `failures` array, `cause` the caller that entered
  recovery (`Service.init`, the next FIFO operation, or the failed publication
  itself).
- `requests` holds each call and its answer.  `failed` is a rejection that
  tells the caller nothing was published; `unresolved` is the `AggregateError`
  of a recovery that did not converge; `lost` is a caller that died with the
  host.

Actions and code, in the order an operation runs: `Enqueue`; `BeginNext`
(recover a retained journal first); `StageSubmit`, `StageCapture`,
`StageRevert`, or `RestoreWorking`; `Refuse` (the operation's own checks);
`Verify` or `RejectChanged` (the last comparison of head, file and index);
`PutJournal`, `PutCommit`, `ReplaceWorking`, `PutNode`/`DeleteNode` one record at
a time, `UpdateDocument` (the publication point), `ClearJournal`; on an error
`PublicationFails`; then `RecoverRead`/`RecoverUnrecognized`, `RecoverCommit`,
node writes again, `RestoreOriginal`, `RecoverClear`, or `RollbackIndexFails` and
`RecoverFails`.  `Crash`, `Boot` and `EditWorking` are the world around it.

Abstractions:

- A DOCX image stands for its bytes and its SHA-256.  What the engine makes of
  the mutations is any image; what the indexer makes of an image is any set of
  `Layouts`.
- A node is known by the commit that stamped it: `validateRebuiltIndex` refuses
  an index that is not stamped throughout with the new commit.
- The awaits of staging write nothing but the snapshot, so they are one step;
  an edit between them is one before or after that step, and `Verify` looks
  again.
- A storage call happens or does not.  "Happened, then reported a failure" is
  the action followed by a failure of the next one.  PaperAI's own records are
  routed to SQLite (`bundle/paperai-web/cordis.patch.yml`), where a statement is
  one transaction; a journal write that is durable although it was reported as
  failed is not modelled.
- `storeSnapshot` of the original and `putCommitPublication` are one step: a
  snapshot by itself changes nothing a property sees.
- File modes, messages, actors and operations of a commit are left out.
- Only this service writes the records of the document (its re-index by
  `document-service` outside the FIFO is in the plan).

## The storage domain: modules

| module | what it is |
| --- | --- |
| `RecordStore` | the abstract promise: one memory, writes in the order they were asked for, a restart that keeps what was acknowledged |
| `StorageDomain` | one domain over one unit of the JSON backend, its inductive invariant and the refinement mapping |
| `MCStorageDomain` | the instance TLC checks |
| `StorageDomainProofs` | the proofs |

Paths in this section are below `src/packages/storage/`.  `records` is the memory of
`DomainImpl` (all tables, told apart by the key), `state` the `UnitState` of
`JsonKvUnit`, `file` the unit file, `possible` the files that a power failure
may leave behind: a rename whose directory is not synchronized can be undone.
`chain` is the promise chain of `enqueue`, `pc` the await its head has reached,
`previous` the closure variable of the rollback in `putRecord` and
`deleteRecord`.  `promised` and `strays` are history variables: the acknowledged
content of each record, and what unacknowledged writes have left on the medium
since.

`Open` is the facility's `open` over `openJsonUnit`; `Ask` is `enqueue`; a job is
`Skip` (nothing to delete or update) or `Begin` (the unit takes the record
over), `Rename` and `SyncDirectory` (`writeAtomic`), then `Remember` or
`PublishFails`; `Close` and `Drained` are the two halves of `runClose`.

Abstractions: an update's function is any function of the content, and does not throw
(one that throws is rejected like `Skip`, before anything is written); a global is a
record with a key of its own that is only ever put; the temporary file is invisible
until its rename, so writing it is part of `Rename` or of `PublishFails`; change events,
schemas and the JSON text are left out; directories are synchronized, as on every system
but Windows, where `storage-json/src/atomic.ts:45` returns without it. `storage-sqlite`
is a sibling of `storage-json` and is not modelled; the chain and the memory are the
same above it.

How it implements `RecordStore`: callers see the memory of an open domain and
the file of a closed one.  `Rename` is the abstract `Leave` (the medium holds a
write nobody was told of), `Remember` is `Commit`, `PublishFails` is `Reject`, and
both `Drained` and `Crash` are `Restart`, which for `Drained` holds because no
call is queued any more.

## Imports: modules

| module | what it is |
| --- | --- |
| `PaperImports` | imports into one project, from the staged files to the root commit or the last compensation |
| `MCPaperImports` | the instance TLC checks |
| `PaperImportsProofs` | their inductive invariant, in named parts, and the proofs |

One import is one process, `pc[i]` the await it has reached. In the order of the code:
`copy`, `link`, `unlink` and `seal` are the loop of `publishStagedDocument`
(`document-service/src/files.ts`), with `name` its `sequence` and `reserved` its
`reservedNames`; `store` is `persistImport`; `root`, `journaled` and `published` are the
submission in `establishDocument` (`workbench-service/src/index.ts`) as seen from
outside the commit service; `unnodes` is the `rollbackTasks` of `persistImport`;
`rollback`, `renodes` and `rerecord` are `rollbackImport`; `unsource` and `unwork` are
`removePublishedDocument`, which both compensations call. `sources` and `works` are the
two directories of the project and say which import created each file, `nodes`, `record`
and `journal` what the repository stores; `other` is a commit of the same document by
somebody else.

Two locks guard a document and neither contains the other.  Commits of a
document run one after another (the commit service's FIFO), `rollbackImport` and
`buildCandidateIndex` exclude each other (the document service's lease, `Leased`).
What makes them enough is the order of events: the root commit is the first in
the FIFO, since `establishDocument` submits in the very turn in which the import
returns; when it is rejected, `rollbackImport` asks for the lease in the microtasks
of that rejection, while the next commit in the FIFO has file reads before it asks
for the lease; and it then finds either no record or a compensation that has
ended.  `CommittedKept` fails as soon as the candidate index is built without
the lease.

Abstractions: staging is below a private directory and cannot be seen, so it is
one step; reading and checking the sealed pair is one step, and so is its failure
with both removals, which run concurrently and of which either or both may fail
(`files.ts:291`); one compensation runs once, since no caller repeats a
`rollbackImport` that failed; the commit service is reduced to
its journal and head (`PaperCommits` has the rest); nobody but PaperAI deletes
below `documents/`, though anybody may put a file at a free path (`Place`).

## Gates and exports: modules

| module | what it is |
| --- | --- |
| `PaperGates` | validations, exports and commits of one document, with its gate cache, and its inductive invariant |
| `MCPaperGates` | the instance TLC checks |
| `PaperGatesProofs` | the proofs |

A *call* is one use of the workbench's `validate`, `exportDocument` or `commit`, or of
an agent's tools, which export and commit without the workbench (kinds `agent` and
`tool`). `pc[c]` is the await it has reached. `slot` is the document's entry of
`gateCache`: the claim, the revision it was made on, and the cached report with its
revision (`by` names the call whose report it is). A revision contains the head, so it
is the number of a version here; 0 is none. A *path* is a destination as its caller
wrote it, `Target` the file that it resolves to: `exportDocument` queues by the first
(`export-service/src/index.ts:390`) and writes the second (`resolveDestination`), and a
linked folder below `exports` can lead two paths to one file. `exporting` is the head of
each path's promise chain, `output` the version in each exported file, 0 if it is
missing or empty. `versions`, `file` and `busy` are the commit service seen from
outside: its chain of heads, the Working DOCX, and whose operation its FIFO runs.

`Validate`, `Call` and `BeginExport` are the starts of the methods up to `beginGate`;
`Enter` and `Leave` are `enqueue`; `Check` is `checkTemplateContract`; `Validated`,
`Blocked` and `Exported` are the ends of the methods, each with its own condition for
`rememberGate`; `Committed` is `commitResult` with its fence. `publishSnapshot` is
`Rename` and `Publish`, which confirms that what is at the destination is the file just
renamed; if it is not, or the look fails, `PublishFails` empties the export's own output
through its handle (`Withdraw`, lines 331 to 340), which by then may have been replaced
by an export to another path of the same file. A failure before the rename leaves the
output alone. A read that fails or is cancelled makes `Check` a failing report with
nothing read (`Blank`, `template-service/src/gate.ts:76`), which is cached like any
other and blocks a delivery. `Stage`, `ReplaceWorking`, `Advance`, `RollBack` and
`Refuse` are one commit. That the file changes before the head does, and goes back when
publication fails, is kept: the gate reads the file outside the FIFO and can see either.

Abstractions: the three engine reads of one gate are one; an agent exports to any path,
the workbench to one for each mode; a folder swapped for a link between the last check
and the rename (the FIXME at `export-service/src/index.ts:311`) is not modelled; a
waiting call may enter a queue in any order, which includes the code's; whether a
content passes does not depend on the call (template changes are commits, and a commit
makes a revision of its own); nobody edits the file outside; the cache does not outlive
the host, so there is no crash.

## The agent conversation: modules

| module | what it is |
| --- | --- |
| `AcpAgent` | one published conversation with an external agent (`agent-acp/src/agent.ts`, `runtime.ts`) |
| `AcpAgentInv` | its inductive invariant, in named parts |
| `MCAcpAgent` | the instances TLC checks |
| `AcpAgentProofs` | the proofs |

Three *flows* want the conversation: the turn (`drive`, `turn`), the operation at the
head of `modelOperationTail` (`withModelRuntime`), and the permission switch
(`transitionSandboxMode`). `phase` is the field of that name: its owner, whether its
signal is aborted, its `wakeRequested`. `at[f]` is the await flow `f` has reached:
`close`, `start`, `load`, `mode` are those of `runtimeForSandboxMode` and of the
runtime's `start`, `sync` that of `syncSandboxModeTo`; then `build` and `prompt` of a
turn, `run` of an operation, and `wait` for `whenIdle`. `held` is
`permissionTransition`, `ops` the counter of operations with its wake, `syncs` the
promise chain `modeSync` with who queued each request (`watch` is
`observeSandboxModeChange`). `runtime` is the process (`spawned`, `linked` once
initialized, `up` once its session is loaded, `lost`, `closed`), the mode the code
believes it to be in (`currentModeId`), whether its generation was aborted (`retired`),
and `runtimeNeedsRestart` (`restart`). `closing` is how far `closeProviderSession` and
`close` have come. `transcript` counts how often the log holds each message; `sent`,
`discarded` and `kept` are history variables.

All of this runs on one event loop, so an action is what runs from one resumed
await to the next.  The synchronous calls are functions of the control state
(`Now`), and compose as they do in the code: the end of a maintenance (`PhaseOver`)
wakes a turn (`Woken`), which claims input (`TurnBegun`) and runs up to its first
await (`Enter`), all in the step of the answer that ended the maintenance.
`whenIdle` is the delicate one: `Release` lets go every waiter in the microtask
of the idle instant, and `Resumed` runs them in order before any other event
(`Quiet`), so that the first may take the phase and the next finds it taken.

`Call` are the callers and the world: `Followup`, `Steer`, `Cancel`, `SetSandbox` (a
`sandbox/mode` event), `ModelOperation`, `TransitionSandboxMode`, `ProviderMode` (the
provider's `current_mode_update`), `ConnectionLost`, `CloseProviderSession`. `Proceed`
is what is awaited: `ReplaceRuntime`, `Initialized`, `Loaded`, `Started` or
`StartFails`; `SyncAnswered`; `PromptSent`, `PromptAnswered`; `OperationAnswered`;
`SteerAnswered`; and the steps of `close`.

Abstractions: modes are ranks; projections, diagnostics, the selection of a model and
the log's other events are left out; an operation is any use of the runtime that may
fail and may leave it marked (`AcpSelectionError`); the caller's own abort signal is a
failure that may come at any time; both ends of a connection are one event; every mode
has a native target, so a request always asks the provider unless the mode is the
present one. The durable commit of a switch's preset, which `transitionSandboxMode`
awaits between the answer of its synchronization and its end (`agent.ts:908`), is one
step with that answer and never fails by itself; the `catch` that would meet its failure
is the one that meets a failed synchronization, and marks the runtime for replacement
likewise, but here over a provider that has already changed its mode. Start-up before
publication (`sessionLive` is true here), `importHistory`, `inject`, and the callbacks
by which the provider reads files, runs terminals and asks for permission are not
modelled.

## The session log: modules

| module | what it is |
| --- | --- |
| `DurableLog` | the abstract promise: a log that only grows while it is open, keeps what it acknowledged and its complete records, and loses only what a torn end has behind them, and only while it is not open |
| `SessionLog` | one session from creation to retirement, crash and resume; its inductive invariant and the refinement mapping |
| `MCSessionLog` | the instance TLC checks |
| `SessionLogProofs` | the proofs |

Paths in this section are below `src/packages/`. `log` is the live `Session`
(`core/session/src/index.ts`), an event known by its kind and by its position, which is
its seq. `w` is the `SessionWriteBehind` of
`session/session-persistence/src/write-behind.ts` (its pending and active batches,
timer, window and barrier), `cursor` and `init` the coordinator's cursor and
initialization (`coordinator.ts`), `call` the flush each caller waits for, `phase` where
the session is between creation and retirement. `lines` are the complete lines of the
JSONL file, `tail` what a torn end still lets a reader recover, `torn` whether there is
one, `repair` how far `commitRepair` has come. `mark`, `acked` and `ran` are history
variables: how long the log was when a flush was asked for, how much a successful flush
has covered, and which tool calls have run.

`Create` and `InitSucceeds`/`InitFails` are `initFor`; `Emit` is `append` with `Enqueue`;
`Deadline`, `WriteStores`, `WriteIsLost` are the automatic path; `Checkpoint`,
`ReaderFlush`, `JoinFlush` and `DrainStep` are flushes, which cancel the automatic wait,
join a write under way and go on draining for all who joined; `RunTool` is a tool's body
behind its checkpoint; `Retire`, `Retired`, `RetirementFails`, `Close`, `Closed` end the
session; `Crash` and `Boot` are the world; `BeginRepair`, `Truncate`, `AppendRest` and
`Resume` are the next process, with the `Closers` of an interrupted turn
(`core/session/src/repair.ts`).

`Legal` is what the loop may append next. A step may end right behind a message with a
call (an output cut at max-tokens, `core/agent-loop/src/agent.ts:410`), or behind a call
without a result (the scheduler failed, `tool-calls.ts:231`), and the turn may go on
with a next step; a call that is skipped or finished before its body gets its result
without a checkpoint (`tool-calls.ts:186` and 249). So a repair may find unanswered
calls in steps that are over, and must leave those alone (`repair.ts:48`). An append
that is cut off may leave any part of its lines, with or without a torn one behind them,
or a torn frame from which everything can be read (`Interrupted`); initialization may
fail in its look for a stored log as well as in its append (`InitFails`).

Abstractions: one process owns the log; an assistant message carries one tool call;
a "note" is any event on which no turn boundary or call depends; headers, JSON text
and compression are left out but for what a torn end loses, which differs between
plain lines and Zstandard frames (`Compressed`, for both of which the proofs hold); the
rollback of a failed append is assumed to work.  A failed directory synchronization
leaves the file published and every retry refused (`rejectExistingLog`, jsonl
`src/index.ts:603`), which `Refused` keeps.  A failed initialization is never retried,
and a failed retirement leaves the id blocked, as in the code.

How it implements `DurableLog`: the abstract log is what a reader of the file would
recover, of which `whole` events are in complete lines; an append extends it, a crash
may leave an end that is not whole, and only such an end can go, in the truncation of a
repair, before the session opens again.

## The agent loop: modules

| module | what it is |
| --- | --- |
| `ToolCalls` | the scheduler of one assistant message's tool calls, as functions on a batch, with the promises and the inductive invariant of a batch |
| `AgentLoop` | the driver of one agent with its inbox, its tool calls and its callers; its inductive invariant |
| `MCAgentLoop` | the instance TLC checks |
| `AgentLoopProofs` | the proofs |

Paths in this section are below `src/packages/core/`.  `phase`, `signal` and `latch` are
the `kind`, the abort signal and the `wakeRequested` of the driver's activity
(`agent-loop/src/agent.ts`); `at` is the await the driver has reached; `stepped` and
`ends` are locals of `turn`; `queue` is the inbox (`agent/src/inbox.ts`) with its two lists.
`batch` is the state of `executeToolCalls` and `runGroup` at an await
(`agent-loop/src/tool-calls.ts`): what the registry says of each call (`mode`), what it said
when the call was opened (`as`), where each call is, and the awaits `prepare`, `race`,
`commit` and `drain`.  `open`, `outcome`, `sent` and `owed` are history variables: what
the log leaves open in the eyes of the validating companion
(`session/src/invariant.ts`), how the last turn ended, what was sent, and the messages
whose wake was latched.

`Send` is `send` with `wakeDriver`; `Remove`, `Cancel`, `RunMaintenance` are the methods
of that name; `Cancels` is a caller's cancel or the disposed-cause cancel of the factory
(`agent-loop/src/index.ts:504`). It may also come from an observer of the assistant
message, in the middle of `ModelCalls`, before the first call is started.
`PreStepAnswers`, `ModelStops`, `ModelCalls`, `ToolsOver`, `StoppingAnswers` and
`NextTurn` are what the driver does when an await is answered, up to the next one;
`ToolPrepared`, `ToolSettles`, `ToolRaced` and `ToolCommitted` the same for the
scheduler; `Exit` and `MaintenanceEnds` are the end of `kick` and of maintenance, where
a latched wake is replayed (`Converge`). A caller may act at any of these awaits.
`Reclassify` is the registry changing its mind about a call that has not started, which
`runGroup` asks again for that reason.

Abstractions: a request to the model with its retries and chunks is one await; hooks
reject, fail, or let the driver pass; message contents, tool arguments and results are
left out, but for whether a result concludes the turn or brings a message for the next
step; `whenIdle`, `prepend`, `replace`, `claimMessage` and the replay of the inbox from
a log are not modelled; of the validating companion's checks only the order of turns and
steps is kept (`Logged`): their numbering, and its checks of tool calls and requests
(`session/src/invariant.ts:76` to 153), are left out, and with them an `append` that
throws because one of those refuses the event, its data is not JSON, or an observer
appends in turn; nobody sends to an idle agent that is being disposed of, which
`agent-loop/src/index.ts:502` calls the sender's bug.

## Runs

| run | question | instance |
| --- | --- | --- |
| `commits` | are the durable records one consistent version at every step, do the answers agree with them, is the Working DOCX only written with what belongs there, is every call answered and every journaled publication resolved? | 2 calls, 2 commits, 2 images, 2 nodes, 1 template; 1 crash, 1 fault, 1 edit |
| `reverts` | can the whole history be read, and is the service a `DocumentHistory`? | 3 calls, 3 commits, 1 crash |
| `overwrites` | is a file changed outside ever overwritten? (it is) | as `commits` |
| `storage` | do acknowledged records survive, is the domain a `RecordStore`, is every write answered, does close finish? | 2 calls on any stored content, 2 records, 2 values; 1 crash, 1 fault |
| `imports` | are listed documents whole, published ones kept, failures clean, other files untouched? | 2 imports of two formats, 4 names, 1 node; 1 crash, 1 fault, 1 foreign file |
| `gates` | do what is shown, delivered and published belong to one version? | 3 calls, 2 contents, 1 of them bad; 1 rollback |
| `gates_live` | is every call answered? | 2 calls |
| `delivery` | does no delivery ever have errors? (one may) | as `gates` |
| `agent` | do the flows of a conversation exclude each other, lose no input and no wake, never prompt above the sandbox, and all end? | 2 messages, 2 modes, 3 events (operations, switches, cancellations, mode changes, losses) and a disposal |
| `retired` | is a runtime whose synchronization failed always replaced? (no) | as `agent` |
| `session` | does the log lose nothing that a flush covered, run no tool whose call is not stored, strand no event and no caller, read back as a legal log, and implement `DurableLog`? | a log of 5 events in a Zstandard file; 2 crashes, 1 fault, 1 note |
| `loop` | are turns legal, results in order, put-off wakes delivered, nothing opened behind an abort or a disposal, and does what is cancelled end? | 2 messages, 3 tool calls in a pool of 2; 2 cancellations, 1 maintenance, 1 removal or reclassification, and a disposal |

Why the bounds are enough to be interesting: with two calls one may lose the race for
the head, or run recovery for the other; with one crash, one fault and one edit every
one of them can hit every step of a publication *and* of the recovery another of them
caused, and the two layouts make the next index both larger and smaller than the last,
so nodes are put, replaced and deleted. A revert needs two earlier commits, hence the
third call of `reverts`. A commit, a revert, a capture and a revert again are four
calls, which no run has; that the records and the history stay right through them is
proved only (`RecordsCorrect`, `HistoryCorrect`). In `reverts`, `gates` and `retired`
symmetry of the calls, commits or messages is used; runs with liveness properties have
none. Deadlock checking is off: after its bounded calls and interferences the system
rests.

In `storage` the domain starts on any stored content, so two calls on two records
let a write fail over an acknowledged one, one on another record follow it and a
crash or a reopening come after both; an update reads what a queued write
before it leaves.

In `imports` the two imports have one stem and different formats, the case in which
both can create their source and only one gets the Working name; a foreign file
and a crash's leftover may take two more names, so four are always enough.

In `gates` three calls are an export, a claim that races it and a commit that
moves the head under both, or three exports, two of them to one path and one to another
path of the same file.

In `agent` two messages let one be pending while the other runs, is steered in or
is cancelled; two modes are enough for a sandbox to narrow and widen; three events
let a switch, an operation and a loss or a second switch overlap, with the
disposal, which is not counted, at any point among them.  Every property that a
slip breaks is broken within three.

In `session` five events are a turn with a call, its result and one more, or a step that
ends with an unanswered call and the beginning of the next, so that a crash can cut
every step of a turn; two crashes let the second one hit the repair of the first, and
the fault can hit the write, its retry, the repair or the retirement. With six events
TLC finds three times as many states and nothing else.

In `loop` three calls are a parallel pair and a barrier, on either side of it, with a
pool that two of them fill; two cancellations and a disposal can find a turn, its
exit and its successor; two messages are one that wakes and one that waits.

The runs check no type invariants and no inductive invariants: those of every module
are theorems, and were checked by TLC on the same instances before they were proved
(`ImportsInv` also with two nodes and two faults, `OrderInv` also on logs of eight
events).

Each property of a passing run has a *slip*: a variant of one definition, kept
beside it and named for what it forgets, under which TLC finds the property
violated.

`overwrites` is a disagreement.  `commit-service/README.md:36` says a file changed
outside the commit path raises `WORKING_COPY_CHANGED` instead of being
overwritten.  The fingerprint is compared at `src/index.ts:772`; the file is
replaced at line 888, several awaits later, and rollback replaces it at 983
after reading it at 947.  An external save in between is lost, and its bytes are
in no snapshot.  `recoverMissingWorking` does better: `link()` refuses an
existing file.

`delivery`: `README.md:51` says that formal delivery "must pass the attached confirmed
template requirements".  The gate of an export reads the Working file while
another commit may have replaced it and not yet advanced the head
(`commit-service/src/index.ts:888`).  If that publication then fails and is rolled
back, file and head are those before it, the milestone on that head is accepted
(`export-service/src/index.ts:436`), and a content is delivered that the gate did not
read.  `DeliveredIsChecked` holds in every run without such a rollback: a commit
that succeeds moves the head, and the milestone is refused.

`retired`: the comment at `agent-acp/src/agent.ts:876` says that a failed synchronization
invalidates the runtime and that "later requests must still reach a replacement
runtime".  A mode event during the last await of a replacement's start queues a
request on the new generation.  If it fails, `observeSandboxModeChange` aborts the
generation and sets `runtimeNeedsRestart`; the start does not look at the
generation and clears the flag when it ends (line 1558).  The conversation then
keeps a runtime on which every synchronization throws at once and no observer
marks it again, until it loses its connection or a cancellation, a failed switch
or a failed operation marks it.

More places where code and text differ were met and have no run of their own.

- `storage-domain/src/domain.ts:6` says that a rejected backend write leaves "no
  divergence between reads and the medium".  `writeAtomic` can fail at
  `storage-json/src/atomic.ts:35`, after the rename: the unit and the memory are rolled
  back, the file is not.  The rejected content is what the next open reads, unless
  another write replaces the file first.  `AcknowledgedSurvives` says how far it goes:
  only that record is affected, and never an acknowledged write after it.
- `document-service/README.md:20` says that the names of tracked documents "remain
  reserved even if their files are missing".  They are read once, at `src/index.ts:225`,
  and the search for a name then relies on the files.  If another import stores its
  record meanwhile and its compensation removes the files but not the record
  (`rollbackImport` fails or dies between lines 291 and 293), its name is given again:
  two tracked documents have one Working path.
- `workbench-service/README.md:27` says that a gate operation begun from the milestone
  revision fences the export's result; `exportDocument` takes its claim two awaits after
  it read the document (lines 942 to 948), so a claim of the old revision can
  displace one of the milestone revision, and the older report is published (what
  is shown is still of the present content, `ShownReportIsOfHead`).
- `agent-acp/README.md` says that queued input resumes after a switch commits or fails;
  of several messages queued while one wake was deferred, those after the first have no
  wake of their own when the switch cancels the first one's turn, and stay queued until
  the next input (`kept.switch` in `DeferredWakesArrive`).  And it says that later
  operations continue against the recovered runtime; one that took the connected
  runtime may still run while a turn begins to replace it.
- The comment at `src/packages/core/agent-loop/src/agent.ts:176` says that "disposal never
  latches, so teardown waits on no model turn".  The test looks at the abort's reason: when a *user* cancel came
  first, the reason stays "user", a wake sent before the driver has converged is
  latched although the agent is being disposed of, and a turn is opened for it
  (`DisposalStartsNothing` therefore speaks of the activity that disposal itself
  cancelled).
- In the same file "max-tokens" is sticky (lines 285 to 290): a turn whose first step
  ended with it and whose next step calls tools ends after that step, and nobody reads
  the results.

### Fairness

`FairSpec` adds weak fairness of `Serve` (any step of the running operation,
failures included) and of `Boot`.  Node's event loop resumes an operation when
its await settles, and file and storage calls settle; a desktop or server host is
started again after a crash.  Callers, editors and crashes are not fair.
Nothing is assumed about calls succeeding: a fault is a bounded interference.
`PendingPublicationResolves` excuses a run with faults or edits, because recovery
deliberately keeps the journal when it meets data it does not know.

`StorageDomain` assumes weak fairness of `Work`, the steps of the running job and the
end of a drained close, for the same reason, and `PaperGates` weak fairness of each
call's steps after its start. `AcpAgent` assumes weak fairness of `Proceed`: the
provider answers or its connection ends, a process that is told to end does, and the
promise queue runs. It is fairness of the whole, not of each flow: that some answer
comes as long as any is awaited. `AgentLoop` assumes weak fairness of `Driver` in the
same way: whatever the driver awaits, a hook, the model, a tool or maintenance, answers
in the end, with or without success. `SessionLog` needs none: that nothing is stranded
is stated as a safety property of who waits for what. Callers, losses and mode changes
are not fair. `PaperImports` has no liveness property: each step of an import goes on to
a later step, a later name or its end, and none waits for another import.

## Proofs

All for arbitrary sets of requests, commits, nodes, images and layouts, and any
number of crashes, faults and edits, from `ConstantsAssumption`,
`NoneIsNoCommit` and `NoneIsNoRecord` (the special values are none of the
ordinary ones, the node set is finite).

- `TypeCorrect`: `Spec => []TypeOK`.
- `RecordsConsistent`: document, index, journal and staged publication always
  agree (`RecordsInv`), from it `RecordsCorrect`.  `RecordsBelongToHead` is not inductive: between the journal and its removal the index is a mixture, and
  what makes it converge is that carrying out the rest of `plan` leads to one
  side of the journal (`LeadsTo`), and that every record in it belongs to one
  of the two sides (`RecoverInv`).
- `Consistent`: `Spec => []IInv`, with the commit graph: a stored commit's
  parent is stored, snapshots exist, the head's history is closed, callers'
  commits are distinct and their answers agree with the head (`HistoryInv`,
  `CallersInv`).  From it `HistoryCorrect`, `AcknowledgedCorrect`,
  `FailureCorrect`.  The graph lemmas (a new child of the head adds exactly
  itself to the reachable set, storing an unreachable object changes nothing)
  open `PaperCommitsHistory`.
- `WritesCorrect`: `Spec => WritesAreVersions`, from the same invariant (`WritesFile`): whatever
  editors do, the service fills in a missing Working DOCX only with the head's bytes and
  under no retained publication, and replaces one only by a side of that publication.
- `WorkingCorrect`: `Spec => []WorkingRecoverable`, from `FileInv`.  The property says
  where the file may be, the invariant where it is: as long as no editor wrote it, the
  file is at each await the side of the publication which that await is on, and what a
  recovery has read (`seen`) is still what it will overwrite.
- `Refinement`: `Spec => RefinesHistory`; each action is a `Record`, a `Publish`,
  an `Acknowledge` or a stutter.

`PaperImportsProofs`, from `ImportsAssumption`, for any number of imports, formats, names
and nodes, and any number of crashes, faults and foreign files: `ImportsCorrect` (`Spec =>
[]ImportsInv`), and from it `RecordCompleteCorrect`, `CommittedKeptCorrect`,
`FailureLeavesNoRecordCorrect` and `FilesKeptCorrect`.  No lock covers an import as a
whole, so each of these rests on what belongs to whom at each `pc`: `FilesOK` (a file has
one creator and bears the name the import is at, so two imports that race for a name
never own the same one), `RecordOK` and `NodesOK` (a record without its files, or with
some of its nodes, exists only while it is taken back or after that has failed), and
`CommitOK` (others begin to commit a document only when its import has ended, and
nothing that is compensated has a version anybody published).

`StorageDomainProofs`, from `StoreAssumption`, for any records, calls, crashes and
faults: `StorageConsistent` (`Spec => [](TypeOK /\ StorageInv)`),
`AcknowledgedKept` and `DomainImplementsStore` (`Spec => RefinesStore`).
`AcknowledgedSurvives` is not inductive: a publish writes the unit's whole copy, so
it is safe only because the copy equals the memory between jobs (`UnitInv`) and
is one known record ahead during one (`JobInv`), which is what the rollback is
for.

`PaperGatesProofs`, from `GatesAssumption`, for any calls, contents and rollbacks:
`GatesInvariant` (`Spec => [](TypeOK /\ GatesInv)`), and from it `ShownReports`,
`DeliveriesChecked`, `LatestPublishes` and `OutputsForward`. `OutputsForward` rests on
`QueueInv` (an export has its path to itself until it has published) and on `OutputInv`
(what is in a file some export to it has put there): from these a file that only one
path leads to never goes back, while a file of two paths may, because nothing orders
them. `ShownReportIsOfHead` is not inductive: a report becomes visible steps after its
gate read the file, so the invariant says for every call under way what it has read
(`SeenInv`), which rests on the FIFO (`FifoInv`: the file differs from the head's
content only while one call publishes, and that call was made on the head). `ClaimInv`
is the argument for claims: the owner of the slot began last among those of its source.

`AcpAgentProofs`, from `AgentAssumption`, for any messages, modes and number of events:
`AgentInductive` (`Spec => [](TypeOK /\ AgentInv)`), and from it
`ReplacementsAreExclusive`, `InputIsConserved`, `DeferredWakesAlwaysArrive`,
`DisposalIsQuiet`, `TurnsAlwaysClaimClear` and `PromptsAreConfined`. `OneOwner` needs
`SyncsOwned` (only one request in the chain belongs to a flow, which awaits it, so no
answer moves a flow that has gone on) and `OpsQueued` and `SwitchReserved` (a flow
released from `whenIdle` is nowhere else). `DeferredWakesArrive` speaks only of a
conversation at rest; `WakesLatched` says for every state who holds the wake: the
switch, the operations, the phase, or a turn that is not aborted. `ClosedIsQuiet` rests
on `Winding`, stage by stage of `close`, and on `TurnIsClear`: a turn that a switch or a
disposal met is aborted and cannot go on to claim input. Since the actions compose
synchronous calls, so do the lemmas: each call keeps the invariant as a function of the
control state, and an action cites its calls. `PromptConfined` speaks of the prompt, and
of some request that narrows; `Confined` speaks of a turn from its `sync` on, and of the
*last* request in the chain, since requests are answered in order and only the last
decides the mode that remains. A request of the turn itself asks for the mode of the
sandbox as it then is, every change of the sandbox that meets a live turn queues one
behind it, and one that fails retires the generation.

`SessionLogProofs`, from `EventsAssumption` and `OriginsAssumption` (a session starts
with a log in order, and what joins a resumed one before it is published belongs to no
turn), for any such seeds, both formats of the file, any length of the log and any
number of crashes and faults: `SessionInvariant` (`Spec => []SessionInv`), and from it
`SessionLosesNothing`, `FlushedSurvives`, `EffectsAreRecorded`, `NobodyIsStranded`,
`RetirementIsDurable` and `SessionRefinesDurableLog`, and `StoredLogIsWellFormed`. None
of these is inductive. What is acknowledged is stored because a barrier is answered only
when both batches are empty and the cursor is the log's end, and the cursor is the
file's end unless retries are refused; nothing is stranded because each state of the
queue names what will wake it, and a join finds the barrier's drain still under way; a
tool has run only behind a barrier that covered its call. `StoredIsWellFormed` needs
`OrderInv` besides: the live log is in order, and so are the lines with the rest that a
repair has still to append, wherever the repair is interrupted and whatever calls the
steps before have left unanswered; whatever an interrupted append leaves is the
beginning of one of the two. That the loop's next event fits is decided by the last
event only (`Legal`), while the order speaks of the whole log before it;
`InOrderHasShape` relates the two, by the least prefix at which they would part, and
`CloseInOrder` computes with the closers.

`AgentLoopProofs`, from `PoolAssumption`, for any messages, number of calls, pool and
interference: `AgentInvariant` (`Spec => []AgentInv`), and from it `LogIsLegal`,
`NoWakeIsLost`, `SchedulerKeepsOrder`, `AbortOpensNothing` and `DisposalIsLast`.
`TurnsAreLegal` is not inductive; what is, is that the log is open exactly as far as the
driver is (`OpenAt`). `WakesArrive` speaks of an idle agent, and only of wakes that were
latched: a waking message that reaches a live driver after its last look at the inbox,
or is queued behind a turn that fails or is rejected, is not latched by the code and may
stay queued until the next wake. `WakeInv` says for every state that a message whose
wake was put off is queued only while the latch is set, and that a live driver has no
latch. For the scheduler `BatchInv` says what a batch is at each await: calls open in
order (`Orderly`), an exclusive one is the last of its group and has nothing active
beside it, what runs is in flight, and nothing is lost but to a failure. The lemmas
follow the code: one per function of `ToolCalls`, each citing the function it calls;
that a stalled pool has nothing left to commit (`NothingIsLeft`) takes the least call
without a result (`FirstIs`).

Every invariant, action property and refinement that a passing run checks is a theorem.
Only model-checked are the liveness properties, `EverythingResolves` of the commit
service, `EverythingSettles` of storage and of conversations, `EveryCallSettles` and
`Converges`: the prover has no rule for fairness and `ENABLED`. The properties of
`overwrites`, `delivery` and `retired` are refuted, not proved.

## Not modelled

- The other packages of the host, most of the repository: the client and its views,
  the API proxy, generators and catalogues, test support, and extensions.  They are
  rendering, adapters and generated text, or protocols of their own that no document and
  no session rests on.
- Of the agent host: the factory that creates and tears down agents, the tool registry,
  prompt assembly and scopes appear only as answers that the loop awaits.
- Of sessions: discovery, creation without an owner, forks of stored sessions, hot
  reload of the backend, disposal of a live session object, the SQLite backend.
- Of PaperAI: `project-service`, `mcp` and the installation of templates (in the plan),
  the document engine and the pure tools.

## Plan

1. (done) `DocumentHistory`, `PaperCommits`, its invariant, refinement, proofs.
2. (done) `RecordStore`, `StorageDomain`, its invariant, refinement, proofs.
3. (done) `PaperImports`, its invariant, proofs.
4. (done) `PaperGates`: the workbench's gate cache and the export service, its
   invariant, proofs.
5. (done) `AcpAgent`, its invariants, proofs.  Next: the provider's own mode as a
   variable beside the believed one, since an accepted request writes back a mode state
   read before its await (`runtime.ts:1175`).
6. (done) `DurableLog`, `SessionLog`, its invariant, refinement, proofs.
7. (done) `ToolCalls`, `AgentLoop`, their invariants, proofs.
8. `TemplateInstall`, `McpLeases`: each a protocol that compensates a partial failure or
   races a call with a close.
9. The commit FIFO with `rebuildIndex`, which writes the same index outside the
   FIFO; nothing in the repository calls it, and its own TODO names the gap.
10. Proofs: that `PaperCommits`, without edits, implements the commit service as `PaperGates`
   and `PaperImports` see it from outside.
