----------------------------- MODULE PaperCommits -----------------------------
(***************************************************************************)
(* The commit service of PaperAI (packages/paperai/commit-service) for one *)
(* document: the FIFO that serializes its operations, staging of a         *)
(* candidate, publication through a write-ahead journal, and recovery of   *)
(* an interrupted publication in process, before the next operation, and   *)
(* when the host boots.                                                    *)
(*                                                                         *)
(* An image of the DOCX stands for its bytes and for its SHA-256.  A node  *)
(* record is known by the commit that stamped it: every index the service  *)
(* publishes is stamped throughout with its own commit.  File modes are    *)
(* left out.  External editors may write the Working DOCX at any step, the *)
(* host may crash at any step, and any storage or file call of the service *)
(* may fail.                                                               *)
(***************************************************************************)
EXTENDS CommitGraph, Naturals, Sequences, FiniteSets

CONSTANTS
  Requests,    \* calls of submit, captureExternal, revert, recoverMissingWorking
  Contents,    \* images of the DOCX
  NodeIds,     \* identities of semantic nodes
  TemplateIds, \* confirmed template contracts a commit may bind
  Layouts,     \* the sets of nodes an image may be indexed into
  Imported,    \* the image the import left as Working DOCX
  MaxCrashes, MaxFaults, MaxEdits, \* how often the environment interferes
  Missing,     \* there is no Working DOCX
  Absent       \* there is no node record

ASSUME ConstantsAssumption ==
  /\ None \notin TemplateIds
  /\ Absent \notin CommitIds \cup {None}
  /\ Missing \notin Contents
  /\ Imported \in Contents
  /\ Layouts # {} /\ Layouts \subseteq SUBSET NodeIds
  /\ IsFiniteSet(NodeIds)
  /\ {MaxCrashes, MaxFaults, MaxEdits} \subseteq Nat

VARIABLES
  document,  \* durable: the document record
  nodes,     \* durable: the node records, Absent where there is none
  commits,   \* durable: the commit objects, None where there is none
  snapshots, \* durable: the content-addressed snapshot store
  journal,   \* durable: the retained publication, or None
  working,   \* durable: the Working DOCX, or Missing
  requests,  \* what each caller asked for and was answered
  queue,     \* the FIFO; its head is the operation being run
  pc,        \* the next step of the service
  cause,     \* what a running recovery was entered for
  staged,    \* the publication the running operation has built
  seen,      \* the Working DOCX as a running recovery read it
  plan,      \* the node writes replaceIndex still has to do
  broken,    \* a rollback has already failed in part
  interference \* how often the environment has interfered

repository == <<document, nodes, commits, snapshots, journal>>
scratch == <<cause, staged, seen, plan, broken>>
vars == <<repository, working, requests, queue, pc, scratch, interference>>

------------------------------------------------------------------------------
Heads == CommitIds \cup {None}
Document == [head : Heads, template : TemplateIds \cup {None}, nodeCount : Nat]
Index == [NodeIds -> Heads \cup {Absent}]
Commit == [parent : Heads, content : Contents,
           template : TemplateIds \cup {None}]
Publication ==
  [id : CommitIds, commit : Commit,
   before : [document : Document, nodes : Index, working : Contents],
   after : [document : Document, nodes : Index]]
Request ==
  [kind : {"submit", "capture", "revert", "restore"},
   base : Heads, target : Heads,
   commit : Heads, \* the commit the operation staged, if it came that far
   status : {"new", "queued", "done", "failed", "unresolved", "lost"}]

(* What is absent is none of the records that may be present.              *)
ASSUME NoneIsNoRecord == None \notin Commit /\ None \notin Publication

RecoverySteps ==
  {"recover", "recoverCommit", "recoverIndex", "recoverClear"}
PublicationSteps == {"commit", "working", "index", "clear"}

Indexed(index) == {n \in NodeIds : index[n] # Absent}
IndexOf(layout, c) == [n \in NodeIds |-> IF n \in layout THEN c ELSE Absent]

(* Slip: the stale nodes are left in the index.                            *)
ReplaceIndexKeepingStale(current, next) ==
  [target |-> next, puts |-> Indexed(next), deletes |-> {}]

(* The writes replaceIndex does: every next node, then the stale ones.     *)
ReplaceIndex(current, next) ==
  [target |-> next, puts |-> Indexed(next),
   deletes |-> Indexed(current) \ Indexed(next)]
NoWrites == ReplaceIndex(IndexOf({}, None), IndexOf({}, None))

(* The versions listHistory shows: those the head descends from.           *)
Reachable == ReachableFrom(commits, document.head)

Active == requests[Head(queue)]
HeadContent == commits[document.head].content
WorkingMatchesHead == document.head # None => HeadContent = working

(* Everything a running operation holds in memory is dropped.              *)
ForgetScratch ==
  /\ cause' = "boot"
  /\ staged' = None
  /\ seen' = Missing
  /\ plan' = NoWrites
  /\ broken' = FALSE

(* How an operation ends: its caller is answered and the FIFO moves on.    *)
Settle(status) ==
  /\ ForgetScratch
  /\ requests' = [requests EXCEPT ![Head(queue)].status = status]
  /\ queue' = Tail(queue)
  /\ pc' = "idle"

Interfere(kind, limit) ==
  /\ interference[kind] < limit
  /\ interference' = [interference EXCEPT ![kind] = @ + 1]

Init ==
  /\ \E layout \in Layouts : nodes = IndexOf(layout, None)
  /\ document = [head |-> None, template |-> None,
                 nodeCount |-> Cardinality(Indexed(nodes))]
  /\ commits = [c \in CommitIds |-> None]
  /\ snapshots = {}
  /\ journal = None
  /\ working = Imported
  /\ requests = [r \in Requests |-> [kind |-> "submit", base |-> None,
                   target |-> None, commit |-> None, status |-> "new"]]
  /\ queue = <<>>
  /\ pc = "idle"
  /\ cause = "boot"
  /\ staged = None
  /\ seen = Missing
  /\ plan = NoWrites
  /\ broken = FALSE
  /\ interference = [crash |-> 0, fault |-> 0, edit |-> 0]

------------------------------------------------------------------------------
(* Callers.  A base or a target is a commit the caller has read of; only   *)
(* recoverMissingWorking needs a plan of inspectProject, which names the   *)
(* head of a document whose Working DOCX is missing.                       *)

Serving == pc # "down" /\ ~(cause = "boot" /\ pc \in RecoverySteps)

Enqueue(r) ==
  /\ Serving
  /\ requests[r].status = "new"
  /\ \E kind \in {"submit", "capture", "revert", "restore"},
        base \in Reachable \cup {None}, target \in Reachable \cup {None} :
       /\ kind # "revert" => target = None
       /\ kind = "revert" => target # None
       /\ kind = "capture" => base = None
       /\ kind = "restore" => /\ working = Missing
                              /\ base = document.head
                              /\ base # None
       /\ requests' = [requests EXCEPT ![r] =
            [@ EXCEPT !.kind = kind, !.base = base, !.target = target,
                      !.status = "queued"]]
  /\ queue' = Append(queue, r)
  /\ UNCHANGED <<repository, working, pc, scratch, interference>>

------------------------------------------------------------------------------
(* The FIFO: the next operation first recovers a retained publication.     *)

(* Slip: only the boot recovers what is retained.                          *)
BeginUnrecovered ==
  /\ pc = "idle"
  /\ queue # <<>>
  /\ pc' = "admit"
  /\ UNCHANGED <<repository, working, requests, queue, scratch, interference>>

BeginNext ==
  /\ pc = "idle"
  /\ queue # <<>>
  /\ pc' = IF journal = None THEN "admit" ELSE "recover"
  /\ cause' = IF journal = None THEN cause ELSE "entry"
  /\ UNCHANGED <<repository, working, requests, queue, staged, seen, plan,
                 broken, interference>>

Fresh(c) == commits[c] = None /\ \A r \in Requests : requests[r].commit # c

(* Slip: the candidate's snapshot is not stored.                           *)
StageUnstored(expected, content, template) ==
  \E c \in CommitIds, layout \in Layouts :
    /\ Fresh(c)
    /\ staged' =
         [id |-> c,
          commit |-> [parent |-> expected, content |-> content,
                      template |-> template],
          before |-> [document |-> document, nodes |-> nodes,
                      working |-> working],
          after |-> [document |->
                       [head |-> c, template |-> template,
                        nodeCount |-> Cardinality(Indexed(IndexOf(layout, c)))],
                     nodes |-> IndexOf(layout, c)]]
    /\ requests' = [requests EXCEPT ![Head(queue)].commit = c]
    /\ pc' = "verify"
    /\ UNCHANGED <<document, nodes, commits, snapshots, journal, working, queue,
                   cause, seen, plan, broken, interference>>

(* The head, the Working DOCX and the index are read, the candidate is     *)
(* built, validated, indexed and checked, and its snapshot is stored.      *)
(* Nothing but the snapshot store is written, so the awaits in between are *)
(* one step; an external edit between them is one after or before it.      *)
Stage(expected, content, template) ==
  \E c \in CommitIds, layout \in Layouts :
    /\ Fresh(c)
    /\ LET index == IndexOf(layout, c) IN
       staged' =
         [id |-> c,
          commit |-> [parent |-> expected, content |-> content,
                      template |-> template],
          before |-> [document |-> document, nodes |-> nodes,
                      working |-> working],
          after |-> [document |-> [head |-> c, template |-> template,
                                   nodeCount |-> Cardinality(Indexed(index))],
                     nodes |-> index]]
    /\ requests' = [requests EXCEPT ![Head(queue)].commit = c]
    /\ snapshots' = snapshots \cup {content}
    /\ pc' = "verify"
    /\ UNCHANGED <<document, nodes, commits, journal, working, queue, cause,
                   seen, plan, broken, interference>>

MaySubmit ==
  /\ document.head = Active.base
  /\ working # Missing
  /\ WorkingMatchesHead
StageSubmit ==
  /\ pc = "admit" /\ Active.kind = "submit"
  /\ MaySubmit
  /\ \E content \in Contents, template \in TemplateIds \cup {None} :
       Stage(Active.base, content, template)

MayCapture ==
  /\ working # Missing
  /\ document.head # None => HeadContent # working
StageCapture ==
  /\ pc = "admit" /\ Active.kind = "capture"
  /\ MayCapture
  /\ Stage(document.head, working, document.template)

MayRevert ==
  /\ MaySubmit
  /\ Active.target # Active.base
  /\ Active.target \in Reachable
  /\ commits[Active.target] # None
  /\ commits[Active.target].content \in snapshots
StageRevert ==
  /\ pc = "admit" /\ Active.kind = "revert"
  /\ MayRevert
  /\ Stage(Active.base, commits[Active.target].content,
           commits[Active.target].template)

(* recoverMissingWorking: a fresh scan must still propose the plan; link() *)
(* never overwrites a file that appeared meanwhile.                        *)
MayRestore ==
  /\ document.head = Active.base
  /\ working = Missing
  /\ HeadContent \in snapshots
RestoreWorking ==
  /\ pc = "admit" /\ Active.kind = "restore"
  /\ MayRestore
  /\ working' = HeadContent
  /\ Settle("done")
  /\ UNCHANGED <<repository, interference>>

(* The operation's own checks refuse it.                                   *)
Refuse ==
  /\ pc = "admit"
  /\ CASE Active.kind = "submit" -> ~MaySubmit
       [] Active.kind = "capture" -> ~MayCapture
       [] Active.kind = "revert" -> ~MayRevert
       [] Active.kind = "restore" -> ~MayRestore
  /\ Settle("failed")
  /\ UNCHANGED <<repository, working, interference>>

(* Cancellation, a failed validation, gate or engine call: an operation    *)
(* may fail at any await until its journal is durable.                     *)
Abandon ==
  /\ pc \in {"admit", "verify", "journal"}
  /\ Interfere("fault", MaxFaults)
  /\ Settle("failed")
  /\ UNCHANGED <<repository, working>>

(* The last look before publication: the head, the index and the Working   *)
(* DOCX must still be those the candidate was built from, and the journal  *)
(* record must be consistent.                                              *)
StillCurrent ==
  /\ document.head = staged.commit.parent
  /\ working = staged.before.working
  /\ nodes = staged.before.nodes
  /\ document.nodeCount = Cardinality(Indexed(nodes))
Verify ==
  /\ pc = "verify"
  /\ StillCurrent
  /\ staged' = [staged EXCEPT !.before.document = document]
  /\ pc' = "journal"
  /\ UNCHANGED <<repository, working, requests, queue, cause, seen, plan,
                 broken, interference>>
RejectChanged ==
  /\ pc = "verify"
  /\ ~StillCurrent
  /\ Settle("failed")
  /\ UNCHANGED <<repository, working, interference>>

------------------------------------------------------------------------------
(* Publication: the journal first, then the commit object, the file, the   *)
(* index, the document record that makes the commit the head, and at last  *)
(* the journal again.                                                      *)

(* Slip: the original is journaled but not retained.                       *)
PutJournalOnly ==
  /\ pc = "journal"
  /\ journal' = staged
  /\ pc' = "commit"
  /\ UNCHANGED <<document, nodes, commits, snapshots, working, requests, queue,
                 scratch, interference>>

PutJournal ==
  /\ pc = "journal"
  /\ snapshots' = snapshots \cup {staged.before.working}
  /\ journal' = staged
  /\ pc' = "commit"
  /\ UNCHANGED <<document, nodes, commits, working, requests, queue, scratch,
                 interference>>

PutCommit ==
  /\ pc = "commit"
  /\ commits' = [commits EXCEPT ![staged.id] = staged.commit]
  /\ pc' = "working"
  /\ UNCHANGED <<document, nodes, snapshots, journal, working, requests,
                 queue, scratch, interference>>

ReplaceWorking ==
  /\ pc = "working"
  /\ working # Missing
  /\ working' = staged.commit.content
  /\ plan' = ReplaceIndex(staged.before.nodes, staged.after.nodes)
  /\ pc' = "index"
  /\ UNCHANGED <<repository, requests, queue, cause, staged, seen, broken,
                 interference>>

PutNode(n) ==
  /\ pc \in {"index", "recoverIndex"}
  /\ n \in plan.puts
  /\ nodes' = [nodes EXCEPT ![n] = plan.target[n]]
  /\ plan' = [plan EXCEPT !.puts = @ \ {n}]
  /\ UNCHANGED <<document, commits, snapshots, journal, working, requests,
                 queue, pc, cause, staged, seen, broken, interference>>

DeleteNode(n) ==
  /\ pc \in {"index", "recoverIndex"}
  /\ plan.puts = {}
  /\ n \in plan.deletes
  /\ nodes' = [nodes EXCEPT ![n] = Absent]
  /\ plan' = [plan EXCEPT !.deletes = @ \ {n}]
  /\ UNCHANGED <<document, commits, snapshots, journal, working, requests,
                 queue, pc, cause, staged, seen, broken, interference>>

IndexReplaced == plan.puts = {} /\ plan.deletes = {}

UpdateDocument ==
  /\ pc = "index"
  /\ IndexReplaced
  /\ document = staged.before.document
  /\ document' = staged.after.document
  /\ pc' = "clear"
  /\ UNCHANGED <<nodes, commits, snapshots, journal, working, requests, queue,
                 scratch, interference>>

ClearJournal ==
  /\ pc = "clear"
  /\ journal' = None
  /\ Settle("done")
  /\ UNCHANGED <<document, nodes, commits, snapshots, working, interference>>

(* A publication step fails: the storage or the file system says no, the   *)
(* Working DOCX has gone, or the record is no longer the one journaled.    *)
PublicationFails ==
  /\ pc \in PublicationSteps
  /\ \/ Interfere("fault", MaxFaults)
     \/ /\ \/ pc = "working" /\ working = Missing
           \/ pc = "index" /\ IndexReplaced /\ document # staged.before.document
        /\ UNCHANGED interference
  /\ pc' = "recover"
  /\ cause' = "inline"
  /\ UNCHANGED <<repository, working, requests, queue, staged, seen, plan,
                 broken>>

------------------------------------------------------------------------------
(* Recovery of the retained publication.                                   *)

Committed == document.head = journal.id

(* Which states are recognizably one of the two sides of the journal.      *)
Recognizable ==
  /\ working # Missing
  /\ {journal.before.working, journal.commit.content} \subseteq snapshots
  /\ \A n \in NodeIds :
       nodes[n] \in {Absent, journal.before.nodes[n], journal.after.nodes[n]}
Resolvable ==
  \/ Committed /\ seen = journal.commit.content
  \/ /\ document.head = journal.before.document.head
     /\ seen \in {journal.before.working, journal.commit.content}

(* Slip: an unresolved publication is reported like one rolled back.       *)
GiveUpAsFailed ==
  IF cause = "boot"
  THEN pc' = "idle" /\ ForgetScratch /\ UNCHANGED <<requests, queue>>
  ELSE Settle("failed")

(* An incomplete recovery keeps the journal.  At boot the service starts   *)
(* all the same; before an operation and in process the caller is told.    *)
GiveUp ==
  IF cause = "boot"
  THEN pc' = "idle" /\ ForgetScratch /\ UNCHANGED <<requests, queue>>
  ELSE Settle(IF cause = "entry" THEN "failed" ELSE "unresolved")

RecoverRead ==
  /\ pc = "recover"
  /\ Recognizable
  /\ seen' = working
  /\ plan' = ReplaceIndex(nodes, IF Committed THEN journal.after.nodes
                                              ELSE journal.before.nodes)
  /\ pc' = "recoverCommit"
  /\ UNCHANGED <<repository, working, requests, queue, cause, staged, broken,
                 interference>>

RecoverUnrecognized ==
  /\ pc = "recover"
  /\ ~Recognizable
  /\ GiveUp
  /\ UNCHANGED <<repository, working, interference>>

(* The commit object is ensured before the file is judged.                 *)
RecoverCommit ==
  /\ pc = "recoverCommit"
  /\ commits' = [commits EXCEPT ![journal.id] = journal.commit]
  /\ IF Resolvable
     THEN pc' = "recoverIndex" /\ UNCHANGED <<requests, queue, scratch>>
     ELSE GiveUp
  /\ UNCHANGED <<document, nodes, snapshots, journal, working, interference>>

(* Slip: rollback also deletes the commit object.                          *)
RestoreWithoutCommit ==
  /\ pc = "recoverIndex"
  /\ IndexReplaced
  /\ ~Committed
  /\ IF seen = journal.before.working
     THEN UNCHANGED working
     ELSE working # Missing /\ working' = journal.before.working
  /\ commits' = [commits EXCEPT ![journal.id] = None]
  /\ pc' = "recoverClear"
  /\ UNCHANGED <<document, nodes, snapshots, journal, requests, queue, scratch,
                 interference>>

RestoreOriginal ==
  /\ pc = "recoverIndex"
  /\ IndexReplaced
  /\ ~Committed
  /\ IF seen = journal.before.working
     THEN UNCHANGED working
     ELSE working # Missing /\ working' = journal.before.working
  /\ pc' = "recoverClear"
  /\ UNCHANGED <<repository, requests, queue, scratch, interference>>

(* Slip: a rolled back publication is reported as done.                    *)
RecoverClearAsDone ==
  /\ \/ pc = "recoverClear"
     \/ pc = "recoverIndex" /\ IndexReplaced /\ Committed
  /\ ~broken
  /\ journal' = None
  /\ CASE cause = "boot" ->
            pc' = "idle" /\ ForgetScratch /\ UNCHANGED <<requests, queue>>
       [] cause = "entry" ->
            pc' = "admit" /\ ForgetScratch /\ UNCHANGED <<requests, queue>>
       [] cause = "inline" -> Settle("done")
  /\ UNCHANGED <<document, nodes, commits, snapshots, working, interference>>

RecoverClear ==
  /\ \/ pc = "recoverClear"
     \/ pc = "recoverIndex" /\ IndexReplaced /\ Committed
  /\ ~broken
  /\ journal' = None
  /\ CASE cause = "boot" ->
            pc' = "idle" /\ ForgetScratch /\ UNCHANGED <<requests, queue>>
       [] cause = "entry" ->
            pc' = "admit" /\ ForgetScratch /\ UNCHANGED <<requests, queue>>
       [] cause = "inline" -> Settle(IF Committed THEN "done" ELSE "failed")
  /\ UNCHANGED <<document, nodes, commits, snapshots, working, interference>>

(* A failed index rollback does not stop the rollback of the file; every   *)
(* other failure ends the recovery at once.                                *)
RollbackIndexFails ==
  /\ pc = "recoverIndex" /\ ~IndexReplaced /\ ~Committed
  /\ Interfere("fault", MaxFaults)
  /\ plan' = NoWrites
  /\ broken' = TRUE
  /\ UNCHANGED <<repository, working, requests, queue, pc, cause, staged, seen>>

RecoverFails ==
  /\ \/ /\ pc \in RecoverySteps
        /\ ~(pc = "recoverIndex" /\ ~IndexReplaced /\ ~Committed)
        /\ Interfere("fault", MaxFaults)
     \/ /\ \/ pc = "recoverClear" /\ broken
           \/ /\ pc = "recoverIndex" /\ IndexReplaced /\ ~Committed
              /\ seen # journal.before.working /\ working = Missing
        /\ UNCHANGED interference
  /\ GiveUp
  /\ UNCHANGED <<repository, working>>

------------------------------------------------------------------------------
(* The world around the service.                                           *)

Crash ==
  /\ pc # "down"
  /\ Interfere("crash", MaxCrashes)
  /\ pc' = "down"
  /\ requests' = [r \in Requests |->
       IF requests[r].status = "queued"
       THEN [requests[r] EXCEPT !.status = "lost"] ELSE requests[r]]
  /\ queue' = <<>>
  /\ ForgetScratch
  /\ UNCHANGED <<repository, working>>

(* Slip: the host boots without recovering what it retained.               *)
BootUnrecovered ==
  /\ pc = "down"
  /\ pc' = "idle"
  /\ UNCHANGED <<repository, working, requests, queue, scratch, interference>>

Boot ==
  /\ pc = "down"
  /\ pc' = IF journal = None THEN "idle" ELSE "recover"
  /\ UNCHANGED <<repository, working, requests, queue, scratch, interference>>

EditWorking ==
  /\ Interfere("edit", MaxEdits)
  /\ working' \in (Contents \cup {Missing}) \ {working}
  /\ UNCHANGED <<repository, requests, queue, pc, scratch>>

------------------------------------------------------------------------------
Operate ==
  \/ BeginNext
  \/ StageSubmit \/ StageCapture \/ StageRevert \/ RestoreWorking
  \/ Refuse \/ Verify \/ RejectChanged
Publish ==
  \/ PutJournal \/ PutCommit \/ ReplaceWorking
  \/ \E n \in NodeIds : PutNode(n) \/ DeleteNode(n)
  \/ UpdateDocument \/ ClearJournal
Recover ==
  \/ RecoverRead \/ RecoverUnrecognized \/ RecoverCommit
  \/ RestoreOriginal \/ RecoverClear
Fail == Abandon \/ PublicationFails \/ RollbackIndexFails \/ RecoverFails

Next ==
  \/ \E r \in Requests : Enqueue(r)
  \/ Operate \/ Publish \/ Recover \/ Fail
  \/ Crash \/ Boot \/ EditWorking

Spec == Init /\ [][Next]_vars

(* The event loop resumes an operation whose await has settled, in success *)
(* or in failure, and a crashed host is started again.                     *)
Serve == Operate \/ Publish \/ Recover \/ Fail
FairSpec == Spec /\ WF_vars(Serve) /\ WF_vars(Boot)

------------------------------------------------------------------------------
(* Every variable keeps to the values its comment names.                   *)
TypeOK ==
  /\ document \in Document
  /\ nodes \in Index
  /\ commits \in [CommitIds -> Commit \cup {None}]
  /\ snapshots \in SUBSET Contents
  /\ journal \in Publication \cup {None}
  /\ working \in Contents \cup {Missing}
  /\ requests \in [Requests -> Request]
  /\ queue \in Seq(Requests)
  /\ pc \in {"down", "idle", "admit", "verify", "journal"}
              \cup PublicationSteps \cup RecoverySteps
  /\ cause \in {"boot", "entry", "inline"}
  /\ staged \in Publication \cup {None}
  /\ seen \in Contents \cup {Missing}
  /\ plan \in [target : Index, puts : SUBSET NodeIds, deletes : SUBSET NodeIds]
  /\ broken \in BOOLEAN
  /\ interference \in [crash : 0..MaxCrashes, fault : 0..MaxFaults,
                       edit : 0..MaxEdits]

(* Every version a caller was told of stays reachable from the head, across*)
(* failed publications, crashes and recoveries.                            *)
Acknowledged == {requests[r].commit : r \in {s \in Requests :
                   requests[s].status = "done"}} \ {None}
AcknowledgedReachable == Acknowledged \subseteq Reachable

(* An operation that reported failure never becomes part of the history;   *)
(* only one that reported an unresolved recovery may.                      *)
FailedNeverPublished ==
  \A r \in Requests : requests[r].status = "failed" =>
    requests[r].commit \notin Reachable

(* The whole history can be read back: every reachable commit object and   *)
(* its snapshot are stored.                                                *)
HistoryReadable ==
  \A c \in Reachable :
    commits[c] # None /\ commits[c].content \in snapshots

(* The records are of one version: the document is bound to the template   *)
(* its head was gated by and, with no publication pending, the nodes are   *)
(* exactly the index of the head, and the document counts them.            *)
RecordsBelongToHead ==
  /\ document.head # None => document.template = commits[document.head].template
  /\ journal = None =>
       /\ \A n \in Indexed(nodes) : nodes[n] = document.head
       /\ document.nodeCount = Cardinality(Indexed(nodes))

(* Unless an editor has touched it the Working DOCX is the head's, or the  *)
(* retained publication can always be recovered.                           *)
WorkingRecoverable ==
  interference.edit = 0 =>
    \/ journal = None /\ (document.head # None => WorkingMatchesHead)
    \/ /\ journal # None /\ Recognizable
       /\ \/ Committed /\ working = journal.commit.content
          \/ /\ document.head = journal.before.document.head
             /\ working \in {journal.before.working, journal.commit.content}

(* The service replaces the Working DOCX only when the bytes it replaces   *)
(* are retained in the snapshot store.                                     *)
NothingOverwritten ==
  [][(working' # working /\ interference'.edit = interference.edit) =>
       working \in snapshots \cup {Missing}]_vars

(* Whatever editors do meanwhile, the service fills in a missing Working    *)
(* DOCX only with the bytes of the head, and not under a retained           *)
(* publication; and it replaces one only by a side of that publication      *)
(* (recoverMissingWorking, publish, recoverPublication).                    *)
WritesAreVersions ==
  [][working' # working /\ interference'.edit = interference.edit =>
       IF working = Missing THEN journal = None /\ working' = HeadContent
       ELSE /\ journal # None
            /\ working' \in {journal.before.working, journal.commit.content}]_vars

(* Every call is answered, unless the host dies under it: the FIFO never   *)
(* stalls behind a failed, unresolved or stuck publication.                *)
EveryCallSettles ==
  \A r \in Requests : requests[r].status = "queued" ~>
                        requests[r].status # "queued"

(* A publication that reached its journal is resolved one way or the other *)
(* even across a crash, as long as storage works and nobody else writes    *)
(* the Working DOCX.                                                       *)
PendingPublicationResolves ==
  journal # None ~>
    \/ journal = None
    \/ interference.fault + interference.edit > 0

EverythingResolves == EveryCallSettles /\ PendingPublicationResolves

(* Seen through its records alone the service is a DocumentHistory.        *)
History == INSTANCE DocumentHistory WITH
  head <- document.head, versions <- Reachable, object <- commits,
  acknowledged <- Acknowledged
RefinesHistory == History!HSpec
==============================================================================
