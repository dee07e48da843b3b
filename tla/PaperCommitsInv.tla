---------------------------- MODULE PaperCommitsInv ----------------------------
(***************************************************************************)
(* The inductive invariant of the commit service: which durable records    *)
(* agree with which at each step of a publication and of its recovery.     *)
(* Only FileInv constrains the Working DOCX, which editors may write at    *)
(* any time.                                                               *)
(***************************************************************************)
EXTENDS PaperCommits

(* An index and a document record of one and the same version.             *)
SameVersion(record, index) ==
  /\ \A n \in Indexed(index) : index[n] = record.head
  /\ record.nodeCount = Cardinality(Indexed(index))

(* A publication the service has built: its sides are two versions, its    *)
(* commit is a child of the first and is what the second records.          *)
WellFormed(p) ==
  /\ SameVersion(p.before.document, p.before.nodes)
  /\ SameVersion(p.after.document, p.after.nodes)
  /\ p.after.document.head = p.id
  /\ p.after.document.template = p.commit.template
  /\ p.before.document.head = p.commit.parent
  /\ p.before.document.head # p.id
  /\ p.commit.content \in snapshots
  /\ commits[p.id] \in {None, p.commit}

(* Carrying out the rest of the plan makes the node records the index t.   *)
LeadsTo(t) ==
  /\ plan.target = t
  /\ plan.puts \subseteq Indexed(t)
  /\ plan.deletes \cap Indexed(t) = {}
  /\ \A n \in NodeIds \ (plan.puts \cup plan.deletes) : nodes[n] = t[n]

(* Every stored commit can be read, and so can its parent.                 *)
ObjectsInv ==
  /\ \A c \in CommitIds : commits[c] # None =>
       /\ commits[c].content \in snapshots
       /\ ParentOf(commits, c) # None => commits[ParentOf(commits, c)] # None
  /\ document.head # None =>
       /\ commits[document.head] # None
       /\ commits[document.head].template = document.template

(* Between publications the index is the head's.  While one is retained,   *)
(* the document is on one of its sides and every node record on either.    *)
JournalInv ==
  /\ journal = None => SameVersion(document, nodes)
  /\ journal # None =>
       /\ WellFormed(journal)
       /\ journal.before.working \in snapshots
       /\ document \in {journal.before.document, journal.after.document}
       /\ Committed => commits[journal.id] # None
       /\ \A n \in NodeIds :
            nodes[n] \in {journal.before.nodes[n], journal.after.nodes[n]}

(* An operation that has staged a candidate is the one at the head of the  *)
(* queue, and nothing durable has changed under it.                        *)
StagedInv ==
  pc \in {"verify", "journal"} =>
    /\ staged # None
    /\ WellFormed(staged)
    /\ commits[staged.id] = None
    /\ document = staged.before.document
    /\ nodes = staged.before.nodes

PublishInv ==
  pc \in PublicationSteps =>
    /\ journal # None /\ journal = staged
    /\ pc # "clear" => document = staged.before.document
    /\ pc = "commit" => commits[staged.id] = None
    /\ pc # "commit" => commits[staged.id] # None
    /\ pc \in {"commit", "working"} => nodes = staged.before.nodes
    /\ pc = "index" => LeadsTo(staged.after.nodes)
    /\ pc = "clear" => /\ document = staged.after.document
                       /\ nodes = staged.after.nodes

RecoverTarget == IF Committed THEN journal.after.nodes ELSE journal.before.nodes
RecoverInv ==
  pc \in RecoverySteps =>
    /\ journal # None
    /\ cause = "inline" => journal = staged
    /\ pc \in {"recoverIndex", "recoverClear"} => commits[journal.id] # None
    /\ (pc \in {"recoverCommit", "recoverIndex"} /\ ~broken) =>
         LeadsTo(RecoverTarget)
    /\ pc = "recoverClear" => ~Committed
    /\ (pc = "recoverClear" /\ ~broken) => nodes = journal.before.nodes

(* A rollback that failed in part is under way and writes no more nodes.   *)
BrokenInv ==
  broken => /\ ~Committed
            /\ pc \in {"recoverIndex", "recoverClear"}
            /\ IndexReplaced

(* A publication is at hand wherever a step reads one, none is retained    *)
(* where an operation is admitted, and a dead service remembers nothing.   *)
HoldingInv ==
  /\ pc \in {"verify", "journal"} \cup PublicationSteps => staged # None
  /\ pc \in PublicationSteps \cup RecoverySteps => journal # None
  /\ pc = "down" => cause = "boot"
EntryInv == pc \in {"admit", "verify", "journal"} => journal = None

(* An operation is under way, for the request at the head of the queue.    *)
InOperation ==
  \/ pc \in {"admit", "verify", "journal"} \cup PublicationSteps
  \/ pc \in RecoverySteps /\ cause # "boot"
QueueInv == InOperation => queue # <<>>

(* The operation being run has staged the publication at hand, or nothing. *)
Staging == pc \in {"verify", "journal"} \cup PublicationSteps
Rescuing == pc \in RecoverySteps /\ cause = "inline"
ControlInv ==
  /\ Staging \/ Rescuing => Active.commit = staged.id
  /\ InOperation /\ ~Staging /\ ~Rescuing => Active.commit = None

(* Callers wait once each, and those whose turn has not come, or that a    *)
(* resting service will come to next, have staged nothing.  No identity is *)
(* staged twice.                                                           *)
CallersInv ==
  /\ \A i \in 1..Len(queue) : requests[queue[i]].status = "queued"
  /\ \A i, j \in 1..Len(queue) : queue[i] = queue[j] => i = j
  /\ \A i \in 1..Len(queue) : i > 1 \/ ~InOperation =>
       requests[queue[i]].commit = None
  /\ \A r \in Requests : requests[r].status = "new" => requests[r].commit = None
  /\ \A r, s \in Requests : requests[r].commit = requests[s].commit =>
       r = s \/ requests[r].commit = None

(* Until the document names it, a journaled commit is no part of history.  *)
OpenInv == journal # None /\ ~Committed => journal.id \notin Reachable

(* What keeps the durable records consistent, whoever called.              *)
TypeInv == TypeOK /\ QueueInv /\ HoldingInv
RecordsInv ==
  /\ ObjectsInv
  /\ JournalInv
  /\ StagedInv
  /\ PublishInv
  /\ RecoverInv
  /\ BrokenInv
  /\ EntryInv

(* What callers were told agrees with the history.                         *)
HistoryInv ==
  /\ ControlInv
  /\ CallersInv
  /\ OpenInv
  /\ AcknowledgedReachable
  /\ FailedNeverPublished

(* What the Working DOCX holds at each step, as long as no editor has      *)
(* written it: the head's content between publications, during one the     *)
(* side the step is on, and in a recovery what the recovery has read.      *)
FileInv ==
  interference.edit = 0 =>
    /\ working # Missing
    /\ journal = None => WorkingMatchesHead
    /\ journal # None =>
         /\ Committed => working = journal.commit.content
         /\ working \in {journal.before.working, journal.commit.content}
         /\ journal.before.document.head # None =>
              commits[journal.before.document.head].content = journal.before.working
    /\ pc \in {"verify", "journal", "commit", "working"} =>
         working = staged.before.working
    /\ pc \in {"index", "clear"} => working = staged.commit.content
    /\ pc \in {"recoverCommit", "recoverIndex"} => working = seen
    /\ pc = "recoverClear" => working = journal.before.working

IInv == TypeInv /\ RecordsInv /\ HistoryInv
==============================================================================
