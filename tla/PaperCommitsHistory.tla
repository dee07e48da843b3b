-------------------------- MODULE PaperCommitsHistory --------------------------
(***************************************************************************)
(* Proofs about the history of a document: it can be read back, it only    *)
(* grows, callers are told the truth about it, and the commit service,     *)
(* with its journal, its recoveries and its crashes, implements            *)
(* DocumentHistory.                                                        *)
(***************************************************************************)
EXTENDS PaperCommitsRecords

(***************************************************************************)
(* What reachability from a head means, for every set of identities: how   *)
(* histories stay what they are, and how they grow by one version.         *)
(***************************************************************************)
(* Parents are identities, or there is none.                               *)
Graph(object) == \A c \in CommitIds : ParentOf(object, c) \in CommitIds \cup {None}

LEMMA ReachableIsSet ==
  ASSUME NEW object, NEW h PROVE ReachableFrom(object, h) \subseteq CommitIds
BY DEF ReachableFrom

(* It is one of the sets it is the least of.                               *)
LEMMA ReachableHolds ==
  ASSUME NEW object, Graph(object), NEW h \in CommitIds \cup {None}
  PROVE  /\ h \in ReachableFrom(object, h) \cup {None}
         /\ ParentClosed(object, ReachableFrom(object, h))
<1>1. h \in ReachableFrom(object, h) \cup {None}
  BY NoneIsNoCommit DEF ReachableFrom
<1>2. ASSUME NEW c \in ReachableFrom(object, h)
      PROVE  ParentOf(object, c) \in ReachableFrom(object, h) \cup {None}
  <2> SUFFICES ASSUME ParentOf(object, c) # None,
                      NEW s \in SUBSET CommitIds,
                      h \in s \cup {None}, ParentClosed(object, s)
               PROVE  ParentOf(object, c) \in s
    BY <1>2 DEF ReachableFrom, Graph
  <2>1. c \in s  BY <1>2 DEF ReachableFrom
  <2> QED  BY <2>1 DEF ParentClosed
<1> QED  BY <1>1, <1>2 DEF ParentClosed

LEMMA ReachableLeast ==
  ASSUME NEW object, NEW h, NEW s \in SUBSET CommitIds,
         h \in s \cup {None}, ParentClosed(object, s)
  PROVE  ReachableFrom(object, h) \subseteq s
BY DEF ReachableFrom

LEMMA NothingReachable ==
  ASSUME NEW object PROVE ReachableFrom(object, None) = {}
<1>1. ParentClosed(object, {})  BY DEF ParentClosed
<1> QED  BY <1>1, ReachableLeast

(* A history is not changed by objects outside it.                         *)
LEMMA ReachableAgrees ==
  ASSUME NEW old, NEW new, Graph(old), Graph(new),
         NEW h \in CommitIds \cup {None},
         \A c \in ReachableFrom(old, h) : ParentOf(new, c) = ParentOf(old, c)
  PROVE  ReachableFrom(new, h) = ReachableFrom(old, h)
<1>1. ParentClosed(new, ReachableFrom(old, h))
  BY ReachableHolds DEF ParentClosed
<1>2. ReachableFrom(new, h) \subseteq ReachableFrom(old, h)
  BY <1>1, ReachableHolds, ReachableIsSet, ReachableLeast
<1>3. ParentClosed(old, ReachableFrom(new, h))
  BY <1>2, ReachableHolds DEF ParentClosed
<1>4. ReachableFrom(old, h) \subseteq ReachableFrom(new, h)
  BY <1>3, ReachableHolds, ReachableIsSet, ReachableLeast
<1> QED  BY <1>2, <1>4

(* The history of a child is its parent's and the child.                   *)
LEMMA ReachableChild ==
  ASSUME NEW object, Graph(object), NEW c \in CommitIds
  PROVE  ReachableFrom(object, c) =
           ReachableFrom(object, ParentOf(object, c)) \cup {c}
<1> DEFINE h == ParentOf(object, c)
<1>1. h \in CommitIds \cup {None}  BY DEF Graph
<1>2. ReachableFrom(object, c) \subseteq ReachableFrom(object, h) \cup {c}
  <2>1. ParentClosed(object, ReachableFrom(object, h) \cup {c})
    BY <1>1, ReachableHolds DEF ParentClosed
  <2>2. ReachableFrom(object, h) \cup {c} \subseteq CommitIds
    BY ReachableIsSet
  <2> QED  BY <2>1, <2>2, ReachableLeast
<1>3. c \in ReachableFrom(object, c)
  BY NoneIsNoCommit, ReachableHolds
<1>4. h \in ReachableFrom(object, c) \cup {None}
  BY <1>3, ReachableHolds DEF ParentClosed
<1>5. ReachableFrom(object, h) \subseteq ReachableFrom(object, c)
  BY <1>4, ReachableHolds, ReachableIsSet, ReachableLeast
<1> QED  BY <1>2, <1>3, <1>5

------------------------------------------------------------------------------
USE NoneIsNoCommit, ConstantsAssumption

LEMMA CommitsGraph == ASSUME TypeOK PROVE Graph(commits)
BY DEF TypeOK, Graph, ParentOf, Commit, Heads

LEMMA ReachableStored ==
  ASSUME TypeOK, ObjectsInv
  PROVE  \A c \in Reachable : c \in CommitIds /\ commits[c] # None
<1> DEFINE stored == {c \in CommitIds : commits[c] # None}
<1>1. document.head \in stored \cup {None}
  BY DEF ObjectsInv, TypeOK, Document, Heads
<1>2. \A c \in CommitIds : ParentOf(commits, c) \in Heads
  BY CommitsGraph DEF Graph, Heads
<1>3. ParentClosed(commits, stored)
  BY <1>2 DEF ParentClosed, ObjectsInv, Heads
<1>4. Reachable \subseteq stored
  BY <1>1, <1>3, ReachableLeast DEF Reachable
<1> QED  BY <1>4

(* Every version the history lists has its commit object and its snapshot  *)
(* in the repository.                                                      *)
THEOREM HistoryCorrect == Spec => []HistoryReadable
<1>1. TypeInv /\ RecordsInv => HistoryReadable
  BY ReachableStored DEF TypeInv, RecordsInv, ObjectsInv, HistoryReadable
<1> QED  BY <1>1, RecordsConsistent, PTL

------------------------------------------------------------------------------
(* How a step may change the history.                                      *)

LEMMA SameHistory ==
  ASSUME UNCHANGED <<document, commits>> PROVE Reachable' = Reachable
BY DEF Reachable

(* Storing an object under an identity nothing is stored under.            *)
LEMMA StoreOutside ==
  ASSUME TypeOK, TypeOK', ObjectsInv, NEW c \in CommitIds, NEW v,
         commits[c] = None, commits' = [commits EXCEPT ![c] = v],
         UNCHANGED document
  PROVE  Reachable' = Reachable
<1>1. \A d \in Reachable : commits'[d] = commits[d]
  BY ReachableStored DEF TypeOK
<1>2. \A d \in Reachable : ParentOf(commits', d) = ParentOf(commits, d)
  BY <1>1 DEF ParentOf
<1>3. Graph(commits)  BY CommitsGraph
<1>4. document.head \in CommitIds \cup {None}
  BY DEF TypeOK, Document, Heads
<1>5. Graph(commits')
  BY DEF TypeOK, Graph, ParentOf, Commit, Heads
<1>6. \A d \in ReachableFrom(commits, document.head) :
        ParentOf(commits', d) = ParentOf(commits, d)
  BY <1>2 DEF Reachable
<1>7. ReachableFrom(commits', document.head) =
        ReachableFrom(commits, document.head)
  <2>1. PICK old, new, h : old = commits /\ new = commits' /\ h = document.head
    OBVIOUS
  <2>2. Graph(old) /\ Graph(new) /\ h \in CommitIds \cup {None}
    BY <1>3, <1>4, <1>5, <2>1
  <2>3. \A d \in ReachableFrom(old, h) : ParentOf(new, d) = ParentOf(old, d)
    BY <1>6, <2>1
  <2>4. ReachableFrom(new, h) = ReachableFrom(old, h)
    BY <2>2, <2>3, ReachableAgrees
  <2> QED  BY <2>1, <2>4
<1> QED  BY <1>7 DEF Reachable

LEMMA PutCommitHistory ==
  ASSUME TypeInv, RecordsInv, TypeInv', PutCommit PROVE Reachable' = Reachable
<1> USE DEF TypeInv, RecordsInv
<1>1. staged \in Publication /\ commits[staged.id] = None
  BY DEF PutCommit, PublishInv, HoldingInv, TypeOK, PublicationSteps
<1> QED  BY <1>1, PublicationType, StoreOutside DEF PutCommit

LEMMA RecoverCommitHistory ==
  ASSUME TypeInv, RecordsInv, TypeInv', RecoverCommit
  PROVE  Reachable' = Reachable
<1> USE DEF TypeInv, RecordsInv
<1>1. journal # None /\ journal \in Publication
  BY DEF RecoverCommit, HoldingInv, TypeOK, RecoverySteps
<1>2. journal.id \in CommitIds  BY <1>1, PublicationType
<1>3. CASE commits[journal.id] = None
  BY <1>2, <1>3, StoreOutside DEF RecoverCommit
<1>4. CASE commits[journal.id] # None
  <2>1. commits[journal.id] = journal.commit
    BY <1>1, <1>4 DEF JournalInv, WellFormed
  <2>2. commits' = commits
    BY <1>2, <2>1 DEF RecoverCommit, TypeOK
  <2> QED  BY <2>2, SameHistory DEF RecoverCommit
<1> QED  BY <1>3, <1>4

(* Updating the document makes the journaled child of the head the head.   *)
LEMMA UpdateHistory ==
  ASSUME TypeInv, RecordsInv, UpdateDocument
  PROVE  /\ document.head = commits[staged.id].parent
         /\ document.head # staged.id
         /\ document'.head = staged.id
         /\ staged.id \in CommitIds /\ commits[staged.id] # None
         /\ Reachable' = Reachable \cup {staged.id}
<1> USE DEF TypeInv, RecordsInv
<1>1. /\ journal = staged /\ journal # None /\ commits[staged.id] # None
      /\ document = staged.before.document
  BY DEF UpdateDocument, PublishInv, PublicationSteps
<1>2. /\ staged \in Publication /\ WellFormed(staged)
  BY <1>1 DEF TypeOK, JournalInv
<1>3. /\ document.head = staged.commit.parent /\ document.head # staged.id
      /\ commits[staged.id] = staged.commit
      /\ document' = staged.after.document /\ document'.head = staged.id
      /\ commits' = commits
  BY <1>1, <1>2 DEF WellFormed, UpdateDocument
<1>4. staged.id \in CommitIds /\ Graph(commits)
  BY <1>2, PublicationType, CommitsGraph
<1>5. ParentOf(commits, staged.id) = document.head
  BY <1>1, <1>3 DEF ParentOf
<1>6. Reachable' = Reachable \cup {staged.id}
  BY <1>3, <1>4, <1>5, ReachableChild DEF Reachable
<1> QED  BY <1>1, <1>3, <1>4, <1>6

------------------------------------------------------------------------------
(* What callers were told agrees with the history: HistoryInv is inductive *)
(* on top of the types and the records.                                    *)

AnswersInv == AcknowledgedReachable /\ FailedNeverPublished

LEMMA AnswersByCall ==
  AnswersInv <=>
    \A r \in Requests :
      /\ requests[r].status = "done" =>
           requests[r].commit \in Reachable \cup {None}
      /\ requests[r].status = "failed" => requests[r].commit \notin Reachable
BY DEF AnswersInv, AcknowledgedReachable, Acknowledged, FailedNeverPublished

(* The running operation is that of a queued call.                         *)
LEMMA ActiveQueued ==
  ASSUME TypeInv, CallersInv, InOperation
  PROVE  /\ queue # <<>> /\ Head(queue) \in Requests /\ Head(queue) = queue[1]
         /\ Active = requests[Head(queue)] /\ Active.status = "queued"
<1>1. /\ queue # <<>> /\ Head(queue) \in Requests /\ Head(queue) = queue[1]
      /\ 1 \in 1..Len(queue)
  BY ActiveType DEF TypeInv, TypeOK
<1> QED  BY <1>1 DEF CallersInv, Active

(* Ending an operation keeps the callers in order.                         *)
LEMMA SettleCallers ==
  ASSUME TypeInv, CallersInv, InOperation, NEW s, s # "new", Settle(s)
  PROVE  CallersInv' /\ ControlInv'
<1> DEFINE h == Head(queue)
<1>1. /\ requests \in [Requests -> Request] /\ queue \in Seq(Requests)
      /\ queue # <<>> /\ h \in Requests /\ h = queue[1]
  BY ActiveQueued DEF TypeInv, TypeOK
<1>2. /\ requests' = [requests EXCEPT ![h].status = s] /\ queue' = Tail(queue)
      /\ pc' = "idle" /\ cause' = "boot"
  BY DEF Settle, ForgetScratch
<1>3. /\ \A r \in Requests : requests'[r].commit = requests[r].commit
      /\ \A r \in Requests \ {h} : requests'[r] = requests[r]
      /\ requests'[h].status = s
  BY <1>1, <1>2 DEF Request
<1>4. /\ Len(queue') = Len(queue) - 1
      /\ \A i \in 1..Len(queue') :
           /\ queue'[i] = queue[i + 1] /\ i + 1 \in 1..Len(queue)
           /\ queue'[i] \in Requests
  BY <1>1, <1>2
<1>5. \A i \in 1..Len(queue') : queue'[i] # h
  BY <1>1, <1>4 DEF CallersInv
<1>6. \A i \in 1..Len(queue') : requests'[queue'[i]].status = "queued"
  BY <1>3, <1>4, <1>5 DEF CallersInv
<1>7. \A i, j \in 1..Len(queue') : queue'[i] = queue'[j] => i = j
  <2> SUFFICES ASSUME NEW i \in 1..Len(queue'), NEW j \in 1..Len(queue'),
                      queue'[i] = queue'[j]
               PROVE  i = j
    OBVIOUS
  <2>1. i + 1 = j + 1  BY <1>4 DEF CallersInv
  <2> QED  BY <2>1
<1>8. \A i \in 1..Len(queue') : requests'[queue'[i]].commit = None
  BY <1>3, <1>4 DEF CallersInv
<1>9. /\ \A r \in Requests : requests'[r].status = "new" =>
           requests'[r].commit = None
      /\ \A r, t \in Requests : requests'[r].commit = requests'[t].commit =>
           r = t \/ requests'[r].commit = None
  BY <1>3 DEF CallersInv
<1>10. CallersInv'  BY <1>6, <1>7, <1>8, <1>9 DEF CallersInv
<1>11. ControlInv'
  BY <1>2 DEF ControlInv, Staging, Rescuing, InOperation, PublicationSteps,
              RecoverySteps
<1> QED  BY <1>10, <1>11

(* The answer given must be the truth.                                     *)
LEMMA SettleAnswers ==
  ASSUME TypeInv, CallersInv, AnswersInv, InOperation,
         NEW s, Settle(s), Reachable' = Reachable,
         s = "done" => Active.commit \in Reachable \cup {None},
         s = "failed" => Active.commit \notin Reachable
  PROVE  AnswersInv'
<1> DEFINE h == Head(queue)
<1>1. requests \in [Requests -> Request] /\ h \in Requests /\ Active = requests[h]
  BY ActiveQueued DEF TypeInv, TypeOK
<1>2. requests' = [requests EXCEPT ![h].status = s]  BY DEF Settle
<1>3. /\ \A r \in Requests : requests'[r].commit = requests[r].commit
      /\ \A r \in Requests \ {h} : requests'[r] = requests[r]
      /\ requests'[h].status = s
  BY <1>1, <1>2 DEF Request
<1>4. \A r \in Requests :
        /\ requests'[r].status = "done" =>
             requests'[r].commit \in Reachable' \cup {None}
        /\ requests'[r].status = "failed" => requests'[r].commit \notin Reachable'
  BY <1>1, <1>3, AnswersByCall
<1> QED
  BY <1>4 DEF AnswersInv, AcknowledgedReachable, Acknowledged,
              FailedNeverPublished

LEMMA OpenKept ==
  ASSUME OpenInv, UNCHANGED <<journal, document>>, Reachable' = Reachable
  PROVE  OpenInv'
BY DEF OpenInv, Committed

(* A step by which the callers and the running operation stay the same.    *)
LEMMA SameCallers ==
  ASSUME TypeInv, CallersInv, ControlInv, UNCHANGED <<requests, queue>>,
         InOperation' <=> InOperation, Staging' \/ Rescuing' <=> Staging \/ Rescuing,
         Staging \/ Rescuing => staged'.id = staged.id
  PROVE  CallersInv' /\ ControlInv'
<1>1. CallersInv'
  BY DEF CallersInv, InOperation
<1>2. Active' = Active  BY DEF Active
<1>3. ControlInv'  BY <1>2 DEF ControlInv
<1> QED  BY <1>1, <1>3

LEMMA SameAnswers ==
  ASSUME AnswersInv, UNCHANGED requests, Reachable' = Reachable
  PROVE  AnswersInv'
BY DEF AnswersInv, AcknowledgedReachable, Acknowledged, FailedNeverPublished

LEMMA EnqueueHistory ==
  ASSUME TypeInv, HistoryInv, NEW r \in Requests, Enqueue(r) PROVE HistoryInv'
<1> USE DEF HistoryInv
<1>1. /\ requests \in [Requests -> Request] /\ queue \in Seq(Requests)
      /\ requests[r].status = "new" /\ requests[r].commit = None
  BY DEF Enqueue, TypeInv, TypeOK, CallersInv
<1>2. PICK kind, base, target : requests' = [requests EXCEPT ![r] =
        [@ EXCEPT !.kind = kind, !.base = base, !.target = target,
                  !.status = "queued"]]
  BY DEF Enqueue
<1>3. /\ requests'[r].status = "queued"
      /\ \A q \in Requests \ {r} : requests'[q] = requests[q]
      /\ \A q \in Requests : requests'[q].commit = requests[q].commit
  BY <1>1, <1>2 DEF Request
<1>4. /\ queue' = Append(queue, r)
      /\ UNCHANGED <<pc, cause, staged, journal, document, commits>>
  BY DEF Enqueue, repository, scratch
<1>5. \A i \in 1..Len(queue) : queue[i] \in Requests \ {r}
  BY <1>1 DEF CallersInv
<1>6. /\ Len(queue') = Len(queue) + 1 /\ queue'[Len(queue) + 1] = r
      /\ \A i \in 1..Len(queue) : queue'[i] = queue[i]
      /\ Len(queue) \in Nat
  BY <1>1, <1>4
<1>7. \A i \in 1..Len(queue') : i = Len(queue) + 1 \/ i \in 1..Len(queue)
  BY <1>6
<1>8. CallersInv'
  <2>1. \A i \in 1..Len(queue') : requests'[queue'[i]].status = "queued"
    BY <1>3, <1>5, <1>6, <1>7 DEF CallersInv
  <2>2. \A i, j \in 1..Len(queue') : queue'[i] = queue'[j] => i = j
    <3> SUFFICES ASSUME NEW i \in 1..Len(queue'), NEW j \in 1..Len(queue'),
                        queue'[i] = queue'[j], i # j
                 PROVE  FALSE
      OBVIOUS
    <3>1. CASE i \in 1..Len(queue) /\ j \in 1..Len(queue)
      BY <1>6, <3>1 DEF CallersInv
    <3>2. CASE i = Len(queue) + 1 /\ j \in 1..Len(queue)
      BY <1>5, <1>6, <3>2
    <3>3. CASE j = Len(queue) + 1 /\ i \in 1..Len(queue)
      BY <1>5, <1>6, <3>3
    <3> QED  BY <1>7, <3>1, <3>2, <3>3
  <2>3. \A i \in 1..Len(queue') : i > 1 \/ ~InOperation =>
          requests'[queue'[i]].commit = None
    BY <1>1, <1>3, <1>5, <1>6, <1>7 DEF CallersInv
  <2>4. InOperation' <=> InOperation  BY <1>4 DEF InOperation
  <2>5. /\ \A q \in Requests : requests'[q].status = "new" =>
             requests'[q].commit = None
        /\ \A p, q \in Requests : requests'[p].commit = requests'[q].commit =>
             p = q \/ requests'[p].commit = None
    BY <1>1, <1>3 DEF CallersInv
  <2> QED  BY <2>1, <2>2, <2>3, <2>4, <2>5 DEF CallersInv
<1>9. ControlInv'
  <2>2. Rescuing' <=> Rescuing  BY <1>4 DEF Rescuing
  <2>3. InOperation' <=> InOperation  BY <1>4 DEF InOperation
  <2>4. Staging' <=> Staging  BY <1>4 DEF Staging
  <2>5. InOperation => Active'.commit = Active.commit
    <3> SUFFICES ASSUME InOperation PROVE Active'.commit = Active.commit
      OBVIOUS
    <3>1. queue # <<>> /\ Head(queue) \in Requests
      BY ActiveType DEF TypeInv, TypeOK
    <3>2. Head(queue') = Head(queue)  BY <1>1, <1>4, <3>1
    <3> QED  BY <1>3, <3>1, <3>2 DEF Active
  <2>6. Staging \/ Rescuing => InOperation
    BY DEF Staging, Rescuing, InOperation
  <2> QED  BY <1>4, <2>2, <2>3, <2>4, <2>5, <2>6 DEF ControlInv
<1>10. Reachable' = Reachable  BY <1>4, SameHistory
<1>11. OpenInv'  BY <1>4, <1>10, OpenKept
<1>12. AnswersInv'
  <2>1. AnswersInv  BY DEF AnswersInv
  <2>2. \A q \in Requests :
          /\ requests'[q].status = "done" =>
               requests'[q].commit \in Reachable' \cup {None}
          /\ requests'[q].status = "failed" => requests'[q].commit \notin Reachable'
    BY <1>3, <1>10, <2>1, AnswersByCall
  <2> QED
    BY <2>2 DEF AnswersInv, AcknowledgedReachable, Acknowledged,
                FailedNeverPublished
<1>13. AcknowledgedReachable' /\ FailedNeverPublished'
  BY <1>12 DEF AnswersInv
<1> QED  BY <1>8, <1>9, <1>11, <1>13

LEMMA BeginHistory ==
  ASSUME TypeInv, HistoryInv, BeginNext PROVE HistoryInv'
<1> USE DEF HistoryInv
<1>1. /\ queue # <<>> /\ ~InOperation
      /\ UNCHANGED <<requests, queue, journal, document, commits>>
      /\ pc' \in {"admit", "recover"}
      /\ pc' = "recover" => cause' = "entry"
  BY DEF BeginNext, InOperation, repository, PublicationSteps, RecoverySteps
<1>2. Reachable' = Reachable  BY <1>1, SameHistory
<1>3. OpenInv' /\ AnswersInv'
  BY <1>1, <1>2, OpenKept, SameAnswers DEF AnswersInv
<1>4. CallersInv'
  BY <1>1 DEF CallersInv
<1>5. Active'.commit = None
  <2>1. queue \in Seq(Requests) /\ 1 \in 1..Len(queue) /\ Head(queue) = queue[1]
    BY <1>1 DEF TypeInv, TypeOK
  <2> QED  BY <1>1, <2>1 DEF CallersInv, Active
<1>6. ControlInv'
  BY <1>1, <1>5 DEF ControlInv, Staging, Rescuing, PublicationSteps,
                    RecoverySteps
<1> QED  BY <1>3, <1>4, <1>6 DEF AnswersInv

(* Staging gives the running operation an identity nobody has.             *)
LEMMA StageHistory ==
  ASSUME TypeInv, RecordsInv, HistoryInv, pc = "admit",
         NEW expected, NEW content, NEW template,
         Stage(expected, content, template)
  PROVE  HistoryInv'
<1> USE DEF HistoryInv
<1> DEFINE h == Head(queue)
<1>0. InOperation  BY DEF InOperation
<1>1. /\ requests \in [Requests -> Request] /\ h \in Requests
      /\ queue # <<>> /\ h = queue[1] /\ queue \in Seq(Requests)
      /\ requests[h].status = "queued"
  BY <1>0, ActiveQueued DEF TypeInv, TypeOK
<1>2. PICK c \in CommitIds, layout \in Layouts :
        /\ Fresh(c)
        /\ staged' =
             [id |-> c,
              commit |-> [parent |-> expected, content |-> content,
                          template |-> template],
              before |-> [document |-> document, nodes |-> nodes,
                          working |-> working],
              after |-> [document |->
                           [head |-> c, template |-> template,
                            nodeCount |->
                              Cardinality(Indexed(IndexOf(layout, c)))],
                         nodes |-> IndexOf(layout, c)]]
        /\ requests' = [requests EXCEPT ![h].commit = c]
        /\ pc' = "verify"
        /\ UNCHANGED <<document, commits, journal, queue>>
  BY DEF Stage
<1>3. /\ requests'[h].commit = c /\ requests'[h].status = "queued"
      /\ \A r \in Requests \ {h} : requests'[r] = requests[r]
  <2>1. requests[h] \in Request  BY <1>1
  <2>2. requests'[h] = [requests[h] EXCEPT !.commit = c]  BY <1>1, <1>2
  <2>3. requests'[h].commit = c /\ requests'[h].status = "queued"
    BY <1>1, <2>1, <2>2 DEF Request
  <2> QED  BY <1>1, <1>2, <2>3
<1>4. Reachable' = Reachable  BY <1>2, SameHistory
<1>5. OpenInv'  BY <1>2, <1>4, OpenKept
<1>6. \A i \in 1..Len(queue) : queue[i] \in Requests /\ (queue[i] = h => i = 1)
  BY <1>1 DEF CallersInv
<1>7. CallersInv'
  <2>1. \A i \in 1..Len(queue) : requests'[queue[i]].status = "queued"
    BY <1>3, <1>6 DEF CallersInv
  <2>2. \A i \in 1..Len(queue) : i > 1 => requests'[queue[i]].commit = None
    BY <1>3, <1>6 DEF CallersInv
  <2>3. InOperation'  BY <1>2 DEF InOperation
  <2>4. \A r \in Requests : requests'[r].status = "new" => requests'[r].commit = None
    BY <1>3 DEF CallersInv
  <2>5. \A p, q \in Requests : requests'[p].commit = requests'[q].commit =>
          p = q \/ requests'[p].commit = None
    BY <1>2, <1>3 DEF CallersInv, Fresh
  <2> QED  BY <1>2, <2>1, <2>2, <2>3, <2>4, <2>5 DEF CallersInv
<1>8. ControlInv'
  BY <1>2, <1>3 DEF ControlInv, Active, Staging, Rescuing, RecoverySteps
<1>9. AnswersInv  BY DEF AnswersInv
<1>10. \A r \in Requests :
         /\ requests'[r].status = "done" =>
              requests'[r].commit \in Reachable' \cup {None}
         /\ requests'[r].status = "failed" => requests'[r].commit \notin Reachable'
  BY <1>3, <1>4, <1>9, AnswersByCall
<1>11. AcknowledgedReachable' /\ FailedNeverPublished'
  BY <1>10 DEF AcknowledgedReachable, Acknowledged, FailedNeverPublished
<1> QED  BY <1>5, <1>7, <1>8, <1>11

LEMMA SettleHistory ==
  ASSUME TypeInv, HistoryInv, InOperation,
         NEW s, s # "new", Settle(s), Reachable' = Reachable, OpenInv',
         s = "done" => Active.commit \in Reachable \cup {None},
         s = "failed" => Active.commit \notin Reachable
  PROVE  HistoryInv'
<1>1. CallersInv' /\ ControlInv'  BY SettleCallers DEF HistoryInv
<1>2. AnswersInv'  BY SettleAnswers DEF HistoryInv, AnswersInv
<1> QED  BY <1>1, <1>2 DEF HistoryInv, AnswersInv

(* Until its commit object is stored an operation has published nothing.   *)
LEMMA NothingPublished ==
  ASSUME TypeInv, RecordsInv, ControlInv, pc \in {"admit", "verify", "journal"}
  PROVE  InOperation /\ Active.commit \notin Reachable
<1>1. Reachable \subseteq CommitIds
  BY ReachableIsSet DEF Reachable
<1>2. InOperation  BY DEF InOperation
<1>3. CASE pc = "admit"
  <2>1. Active.commit = None
    BY <1>2, <1>3 DEF ControlInv, Staging, Rescuing, PublicationSteps,
                      RecoverySteps
  <2> QED  BY <1>1, <1>2, <2>1
<1>4. CASE pc # "admit"
  <2>1. Active.commit = staged.id /\ commits[staged.id] = None
    BY <1>4 DEF ControlInv, Staging, RecordsInv, StagedInv
  <2> QED  BY <1>2, <2>1, ReachableStored DEF TypeInv, RecordsInv
<1> QED  BY <1>3, <1>4

(* Operations that end before publication, in success or in failure.       *)
LEMMA RefuseHistory ==
  ASSUME TypeInv, RecordsInv, HistoryInv,
         RestoreWorking \/ Refuse \/ Abandon \/ RejectChanged
  PROVE  HistoryInv'
<1>1. /\ pc \in {"admit", "verify", "journal"}
      /\ UNCHANGED <<journal, document, commits>>
  BY DEF RestoreWorking, Refuse, Abandon, RejectChanged, repository
<1>2. InOperation /\ Active.commit \notin Reachable
  BY <1>1, NothingPublished DEF HistoryInv
<1>3. Reachable' = Reachable  BY <1>1, SameHistory
<1>4. OpenInv'  BY <1>1, <1>3, OpenKept DEF HistoryInv
<1>5. CASE RestoreWorking
  <2>1. Settle("done") /\ pc = "admit"  BY <1>5 DEF RestoreWorking
  <2>2. Active.commit = None
    BY <1>2, <2>1 DEF HistoryInv, ControlInv, Staging, Rescuing,
                      PublicationSteps, RecoverySteps
  <2> QED  BY <1>2, <1>3, <1>4, <2>1, <2>2, SettleHistory
<1>6. CASE Refuse \/ Abandon \/ RejectChanged
  <2>1. Settle("failed")  BY <1>6 DEF Refuse, Abandon, RejectChanged
  <2> QED  BY <1>2, <1>3, <1>4, <2>1, SettleHistory
<1> QED  BY <1>5, <1>6

LEMMA GiveUpHistory ==
  ASSUME TypeInv, RecordsInv, HistoryInv, pc \in RecoverySteps, GiveUp,
         Reachable' = Reachable, UNCHANGED <<journal, document>>
  PROVE  HistoryInv'
<1>1. OpenInv'  BY OpenKept DEF HistoryInv
<1>2. CASE cause = "boot"
  <2>1. pc' = "idle" /\ cause' = "boot" /\ UNCHANGED <<requests, queue>>
    BY <1>2 DEF GiveUp, ForgetScratch
  <2>2. ~InOperation /\ ~InOperation' /\ ~Staging /\ ~Rescuing
        /\ ~Staging' /\ ~Rescuing'
    BY <1>2, <2>1 DEF InOperation, Staging, Rescuing, RecoverySteps,
                      PublicationSteps
  <2>3. CallersInv' /\ ControlInv'
    BY <2>1, <2>2, SameCallers DEF HistoryInv
  <2>4. AnswersInv'  BY <2>1, SameAnswers DEF HistoryInv, AnswersInv
  <2> QED  BY <1>1, <2>3, <2>4 DEF HistoryInv, AnswersInv
<1>3. CASE cause = "entry"
  <2>1. Settle("failed") /\ InOperation
    BY <1>3 DEF GiveUp, InOperation
  <2>2. Active.commit = None
    BY <1>3, <2>1 DEF HistoryInv, ControlInv, Staging, Rescuing,
                      RecoverySteps, PublicationSteps
  <2>3. Active.commit \notin Reachable
    BY <2>2, ReachableIsSet DEF Reachable
  <2> QED  BY <1>1, <2>1, <2>3, SettleHistory
<1>4. CASE cause = "inline"
  <2>1. Settle("unresolved") /\ InOperation
    BY <1>4 DEF GiveUp, InOperation
  <2> QED  BY <1>1, <2>1, SettleHistory
<1> QED  BY <1>2, <1>3, <1>4 DEF TypeInv, TypeOK

(* A publication or recovery step that answers nobody and moves no head.   *)
LEMMA MidwayHistory ==
  ASSUME TypeInv, HistoryInv, UNCHANGED <<requests, queue, document, journal>>,
         InOperation' <=> InOperation, Staging' \/ Rescuing' <=> Staging \/ Rescuing,
         Staging \/ Rescuing => staged'.id = staged.id,
         Reachable' = Reachable
  PROVE  HistoryInv'
<1>1. CallersInv' /\ ControlInv'  BY SameCallers DEF HistoryInv
<1>2. AnswersInv' /\ OpenInv'
  BY SameAnswers, OpenKept DEF HistoryInv, AnswersInv
<1> QED  BY <1>1, <1>2 DEF HistoryInv, AnswersInv

LEMMA VerifyHistory ==
  ASSUME TypeInv, RecordsInv, HistoryInv, Verify PROVE HistoryInv'
<1>1. UNCHANGED <<requests, queue, document, journal, commits>>
  BY DEF Verify, repository
<1>2. staged \in Publication
  BY DEF Verify, TypeInv, TypeOK, HoldingInv
<1>3. staged'.id = staged.id
  BY <1>2 DEF Verify, Publication
<1>4. /\ InOperation /\ InOperation' /\ Staging /\ Staging'
  BY DEF Verify, InOperation, Staging
<1> QED  BY <1>1, <1>3, <1>4, SameHistory, MidwayHistory

LEMMA PutJournalHistory ==
  ASSUME TypeInv, RecordsInv, HistoryInv, PutJournal PROVE HistoryInv'
<1>1. /\ UNCHANGED <<requests, queue, document, commits, staged>>
      /\ journal' = staged
  BY DEF PutJournal, scratch
<1>2. /\ InOperation /\ InOperation' /\ Staging /\ Staging'
  BY DEF PutJournal, InOperation, Staging, PublicationSteps
<1>3. Reachable' = Reachable  BY <1>1, SameHistory
<1>4. CallersInv' /\ ControlInv'
  BY <1>1, <1>2, SameCallers DEF HistoryInv
<1>5. AnswersInv'  BY <1>1, <1>3, SameAnswers DEF HistoryInv, AnswersInv
<1>6. staged.id \notin Reachable
  BY ReachableStored DEF PutJournal, RecordsInv, StagedInv, TypeInv
<1>7. OpenInv'  BY <1>1, <1>3, <1>6 DEF OpenInv
<1> QED  BY <1>4, <1>5, <1>7 DEF HistoryInv, AnswersInv

LEMMA PublishHistory ==
  ASSUME TypeInv, RecordsInv, TypeInv', HistoryInv,
         \/ PutCommit \/ ReplaceWorking \/ PublicationFails
         \/ \E n \in NodeIds : pc = "index" /\ (PutNode(n) \/ DeleteNode(n))
  PROVE  HistoryInv'
<1>1. UNCHANGED <<requests, queue, document, journal, staged>>
  BY DEF PutCommit, ReplaceWorking, PublicationFails, PutNode, DeleteNode,
         repository, scratch
<1>2. InOperation /\ InOperation' /\ Staging /\ (Staging' \/ Rescuing')
  BY DEF PutCommit, ReplaceWorking, PublicationFails, PutNode, DeleteNode,
         InOperation, Staging, Rescuing, PublicationSteps, RecoverySteps
<1>3. Reachable' = Reachable
  BY PutCommitHistory, SameHistory
     DEF ReplaceWorking, PublicationFails, PutNode, DeleteNode, repository
<1> QED  BY <1>1, <1>2, <1>3, MidwayHistory

LEMMA UpdateAnswers ==
  ASSUME TypeInv, RecordsInv, HistoryInv, UpdateDocument PROVE HistoryInv'
<1>1. /\ UNCHANGED <<requests, queue, journal, staged, commits>>
      /\ InOperation /\ InOperation' /\ Staging /\ Staging'
  BY DEF UpdateDocument, scratch, InOperation, Staging, PublicationSteps
<1>2. CallersInv' /\ ControlInv'
  BY <1>1, SameCallers DEF HistoryInv
<1>3. /\ document'.head = staged.id /\ Reachable' = Reachable \cup {staged.id}
      /\ staged.id \in CommitIds
  BY UpdateHistory
<1>4. journal = staged
  BY DEF UpdateDocument, RecordsInv, PublishInv, PublicationSteps
<1>5. OpenInv'  BY <1>1, <1>3, <1>4 DEF OpenInv, Committed
<1>6. \A r \in Requests : requests[r].status = "failed" =>
        requests[r].commit # staged.id
  <2>1. /\ Active.commit = staged.id /\ Active = requests[Head(queue)]
        /\ Active.status = "queued" /\ Head(queue) \in Requests
    BY <1>1, ActiveQueued DEF HistoryInv, ControlInv
  <2>2. staged.id # None  BY <1>3
  <2> QED  BY <2>1, <2>2 DEF HistoryInv, CallersInv
<1>7. \A r \in Requests :
        /\ requests[r].status = "done" =>
             requests[r].commit \in Reachable \cup {None}
        /\ requests[r].status = "failed" => requests[r].commit \notin Reachable
  BY AnswersByCall DEF HistoryInv, AnswersInv
<1>8. \A r \in Requests :
        /\ requests'[r].status = "done" =>
             requests'[r].commit \in Reachable' \cup {None}
        /\ requests'[r].status = "failed" => requests'[r].commit \notin Reachable'
  BY <1>1, <1>3, <1>6, <1>7
<1>9. AcknowledgedReachable' /\ FailedNeverPublished'
  BY <1>8 DEF AcknowledgedReachable, Acknowledged, FailedNeverPublished
<1> QED  BY <1>2, <1>5, <1>9 DEF HistoryInv

LEMMA ClearHistory ==
  ASSUME TypeInv, RecordsInv, HistoryInv, ClearJournal PROVE HistoryInv'
<1>1. /\ Settle("done") /\ journal' = None /\ UNCHANGED <<document, commits>>
      /\ InOperation /\ Staging
  BY DEF ClearJournal, InOperation, Staging, PublicationSteps
<1>2. Reachable' = Reachable  BY <1>1, SameHistory
<1>3. OpenInv'  BY <1>1 DEF OpenInv
<1>4. /\ staged = journal /\ journal # None /\ document = staged.after.document
  BY DEF ClearJournal, RecordsInv, PublishInv, PublicationSteps
<1>5. document.head = staged.id
  BY <1>4 DEF RecordsInv, JournalInv, WellFormed
<1>6. document.head \in Reachable \cup {None}
  BY CommitsGraph, ReachableHolds DEF TypeInv, TypeOK, Document, Heads, Reachable
<1>7. Active.commit \in Reachable \cup {None}
  BY <1>1, <1>5, <1>6 DEF HistoryInv, ControlInv
<1> QED  BY <1>1, <1>2, <1>3, <1>7, SettleHistory

LEMMA RecoverHistory ==
  ASSUME TypeInv, RecordsInv, TypeInv', HistoryInv,
         \/ RecoverRead \/ RecoverUnrecognized \/ RecoverCommit
         \/ RestoreOriginal \/ RollbackIndexFails \/ RecoverFails
         \/ \E n \in NodeIds :
              pc = "recoverIndex" /\ (PutNode(n) \/ DeleteNode(n))
  PROVE  HistoryInv'
<1>1. pc \in RecoverySteps /\ UNCHANGED <<journal, document>>
  BY DEF RecoverRead, RecoverUnrecognized, RecoverCommit, RestoreOriginal,
         RollbackIndexFails, RecoverFails, PutNode, DeleteNode, repository,
         RecoverySteps
<1>2. Reachable' = Reachable
  BY RecoverCommitHistory, SameHistory
     DEF RecoverRead, RecoverUnrecognized, RestoreOriginal, RollbackIndexFails,
         RecoverFails, PutNode, DeleteNode, repository
<1>3. CASE GiveUp
  BY <1>1, <1>2, <1>3, GiveUpHistory
<1>4. CASE ~GiveUp
  <2>1. /\ UNCHANGED <<requests, queue, cause, staged>>
        /\ pc' \in RecoverySteps
    BY <1>4 DEF RecoverRead, RecoverUnrecognized, RecoverCommit,
         RestoreOriginal, RollbackIndexFails, RecoverFails, PutNode, DeleteNode,
         scratch, RecoverySteps
  <2>2. /\ InOperation' <=> InOperation
        /\ Staging' \/ Rescuing' <=> Staging \/ Rescuing
    BY <1>1, <2>1 DEF InOperation, Staging, Rescuing, RecoverySteps,
                      PublicationSteps
  <2> QED  BY <1>1, <1>2, <2>1, <2>2, MidwayHistory
<1> QED  BY <1>3, <1>4

LEMMA RecoverClearHistory ==
  ASSUME TypeInv, RecordsInv, HistoryInv, RecoverClear PROVE HistoryInv'
<1>1. /\ pc \in RecoverySteps /\ journal' = None /\ journal # None
      /\ UNCHANGED <<document, commits>>
  BY DEF RecoverClear, RecoverySteps, TypeInv, HoldingInv
<1>2. Reachable' = Reachable  BY <1>1, SameHistory
<1>3. OpenInv'  BY <1>1 DEF OpenInv
<1>4. CASE cause = "inline"
  <2>1. /\ Settle(IF Committed THEN "done" ELSE "failed") /\ InOperation
        /\ Active.commit = journal.id
    BY <1>1, <1>4 DEF RecoverClear, InOperation, HistoryInv, ControlInv,
                      Rescuing, RecordsInv, RecoverInv
  <2>2. CASE Committed
    <3>1. document.head \in Reachable \cup {None}
      BY CommitsGraph, ReachableHolds
         DEF TypeInv, TypeOK, Document, Heads, Reachable
    <3>2. Settle("done") /\ Active.commit \in Reachable \cup {None}
      BY <2>1, <2>2, <3>1 DEF Committed
    <3> QED  BY <1>2, <1>3, <2>1, <3>2, SettleHistory
  <2>3. CASE ~Committed
    <3>1. Settle("failed") /\ Active.commit \notin Reachable
      BY <1>1, <2>1, <2>3 DEF HistoryInv, OpenInv
    <3> QED  BY <1>2, <1>3, <2>1, <3>1, SettleHistory
  <2> QED  BY <2>2, <2>3
<1>5. CASE cause # "inline"
  <2>1. /\ UNCHANGED <<requests, queue>>
        /\ cause = "boot" => pc' = "idle"
        /\ cause = "entry" => pc' = "admit"
        /\ cause \in {"boot", "entry"} /\ cause' = "boot"
    BY <1>5 DEF RecoverClear, ForgetScratch, TypeInv, TypeOK
  <2>2. /\ InOperation' <=> InOperation
        /\ ~Staging /\ ~Rescuing /\ ~Staging' /\ ~Rescuing'
    BY <1>1, <2>1 DEF InOperation, Staging, Rescuing, RecoverySteps,
                      PublicationSteps
  <2>3. CallersInv' /\ ControlInv'
    BY <2>1, <2>2, SameCallers DEF HistoryInv
  <2>4. AnswersInv'
    BY <1>2, <2>1, SameAnswers DEF HistoryInv, AnswersInv
  <2> QED  BY <1>3, <2>3, <2>4 DEF HistoryInv, AnswersInv
<1> QED  BY <1>4, <1>5

LEMMA CrashHistory ==
  ASSUME TypeInv, HistoryInv, Crash PROVE HistoryInv'
<1>1. /\ requests \in [Requests -> Request]
      /\ queue' = <<>> /\ pc' = "down" /\ UNCHANGED <<journal, document, commits>>
  BY DEF Crash, TypeInv, TypeOK, repository
<1>2. \A r \in Requests :
        /\ requests'[r].commit = requests[r].commit
        /\ requests'[r].status \in {requests[r].status, "lost"}
  BY <1>1 DEF Crash, Request
<1>3. Reachable' = Reachable  BY <1>1, SameHistory
<1>4. OpenInv'  BY <1>1, <1>3, OpenKept DEF HistoryInv
<1>5. CallersInv'
  BY <1>1, <1>2 DEF HistoryInv, CallersInv
<1>6. ControlInv'
  BY <1>1 DEF ControlInv, InOperation, Staging, Rescuing, PublicationSteps,
              RecoverySteps
<1>7. \A r \in Requests :
        /\ requests[r].status = "done" =>
             requests[r].commit \in Reachable \cup {None}
        /\ requests[r].status = "failed" => requests[r].commit \notin Reachable
  BY AnswersByCall DEF HistoryInv, AnswersInv
<1>8. \A r \in Requests :
        /\ requests'[r].status = "done" =>
             requests'[r].commit \in Reachable' \cup {None}
        /\ requests'[r].status = "failed" => requests'[r].commit \notin Reachable'
  BY <1>2, <1>3, <1>7
<1>9. AcknowledgedReachable' /\ FailedNeverPublished'
  BY <1>8 DEF AcknowledgedReachable, Acknowledged, FailedNeverPublished
<1> QED  BY <1>4, <1>5, <1>6, <1>9 DEF HistoryInv

(* Booting, an external edit, or nothing at all.                           *)
LEMMA OutsideHistory ==
  ASSUME TypeInv, HistoryInv, Boot \/ EditWorking \/ UNCHANGED vars
  PROVE  HistoryInv'
<1>1. UNCHANGED <<requests, queue, journal, document, commits, staged>>
  BY DEF Boot, EditWorking, vars, repository, scratch
<1>2. /\ InOperation' <=> InOperation
      /\ Staging' \/ Rescuing' <=> Staging \/ Rescuing
  <2>1. CASE Boot
    <3>1. /\ pc = "down" /\ cause = "boot" /\ cause' = "boot"
          /\ pc' \in {"idle", "recover"}
      BY <2>1 DEF Boot, TypeInv, HoldingInv, scratch
    <3> QED  BY <3>1 DEF InOperation, Staging, Rescuing, PublicationSteps,
                         RecoverySteps
  <2>2. CASE EditWorking \/ UNCHANGED vars
    <3>1. pc' = pc /\ cause' = cause
      BY <2>2 DEF EditWorking, vars, scratch
    <3> QED  BY <3>1 DEF InOperation, Staging, Rescuing
  <2> QED  BY <2>1, <2>2
<1> QED  BY <1>1, <1>2, SameHistory, MidwayHistory

LEMMA HistoryInit == Init => HistoryInv
<1> SUFFICES ASSUME Init PROVE HistoryInv  OBVIOUS
<1>1. /\ queue = <<>> /\ pc = "idle" /\ journal = None
      /\ \A r \in Requests : requests[r].commit = None /\ requests[r].status = "new"
  BY DEF Init
<1>2. ControlInv /\ OpenInv
  BY <1>1 DEF ControlInv, OpenInv, InOperation, Staging, Rescuing,
              PublicationSteps, RecoverySteps
<1>3. CallersInv  BY <1>1 DEF CallersInv
<1>4. AcknowledgedReachable /\ FailedNeverPublished
  BY <1>1 DEF AcknowledgedReachable, Acknowledged, FailedNeverPublished
<1> QED  BY <1>2, <1>3, <1>4 DEF HistoryInv

LEMMA HistoryNext ==
  TypeInv /\ RecordsInv /\ HistoryInv /\ [Next]_vars => HistoryInv'
<1> SUFFICES ASSUME TypeInv, RecordsInv, HistoryInv, [Next]_vars
             PROVE  HistoryInv'
  OBVIOUS
<1>1. TypeInv'  BY TypeNext
<1>2. ASSUME NEW r \in Requests, Enqueue(r) PROVE HistoryInv'
  BY <1>2, EnqueueHistory
<1>3. ASSUME StageSubmit PROVE HistoryInv'
  <2>1. PICK content \in Contents, template \in TemplateIds \cup {None} :
          Stage(Active.base, content, template)
    BY <1>3 DEF StageSubmit
  <2> QED  BY <1>3, <2>1, StageHistory DEF StageSubmit
<1>4. ASSUME StageCapture \/ StageRevert PROVE HistoryInv'
  BY <1>4, StageHistory DEF StageCapture, StageRevert
<1>5. ASSUME NEW n \in NodeIds, PutNode(n) \/ DeleteNode(n) PROVE HistoryInv'
  <2>1. pc \in {"index", "recoverIndex"}  BY <1>5 DEF PutNode, DeleteNode
  <2> QED  BY <1>1, <1>5, <2>1, PublishHistory, RecoverHistory
<1>6. ASSUME \/ RestoreWorking \/ Refuse \/ Abandon \/ RejectChanged
      PROVE  HistoryInv'
  BY <1>6, RefuseHistory
<1>7. ASSUME PutCommit \/ ReplaceWorking \/ PublicationFails PROVE HistoryInv'
  BY <1>1, <1>7, PublishHistory
<1>8. ASSUME \/ RecoverRead \/ RecoverUnrecognized \/ RecoverCommit
             \/ RestoreOriginal \/ RollbackIndexFails \/ RecoverFails
      PROVE  HistoryInv'
  BY <1>1, <1>8, RecoverHistory
<1> QED
  BY <1>2, <1>3, <1>4, <1>5, <1>6, <1>7, <1>8, BeginHistory, VerifyHistory,
     PutJournalHistory, UpdateAnswers, ClearHistory, RecoverClearHistory,
     CrashHistory, OutsideHistory
     DEF Next, Operate, Publish, Recover, Fail

(* The whole inductive invariant holds of every state the service reaches. *)
THEOREM Consistent == Spec => []IInv
<1>1. Init => IInv  BY TypeInit, RecordsInit, HistoryInit DEF IInv
<1>2. IInv /\ [Next]_vars => IInv'
  BY TypeNext, RecordsNext, HistoryNext DEF IInv
<1> QED  BY <1>1, <1>2, PTL DEF Spec

(* No version a caller was told of is ever lost: not by another operation, *)
(* a failed publication, a recovery or a crash.                            *)
THEOREM AcknowledgedCorrect == Spec => []AcknowledgedReachable
<1>1. IInv => AcknowledgedReachable  BY DEF IInv, HistoryInv
<1> QED  BY <1>1, Consistent, PTL

(* A call that was answered with a failure has no version in the history,  *)
(* now or later.                                                           *)
THEOREM FailureCorrect == Spec => []FailedNeverPublished
<1>1. IInv => FailedNeverPublished  BY DEF IInv, HistoryInv
<1> QED  BY <1>1, Consistent, PTL

-------------------------------------------------------------------------------
(* The refinement of DocumentHistory.                                      *)

LEMMA SameAcknowledged ==
  ASSUME \A r \in Requests :
           /\ requests'[r].status = "done" <=> requests[r].status = "done"
           /\ requests[r].status = "done" =>
                requests'[r].commit = requests[r].commit
  PROVE  Acknowledged' = Acknowledged
BY DEF Acknowledged

(* Answering a caller acknowledges at most the version its call staged.    *)
LEMMA SettleAcknowledged ==
  ASSUME TypeInv, CallersInv, InOperation, NEW s, Settle(s)
  PROVE  /\ s # "done" \/ Active.commit = None => Acknowledged' = Acknowledged
         /\ s = "done" /\ Active.commit # None =>
              Acknowledged' = Acknowledged \cup {Active.commit}
<1> DEFINE h == Head(queue)
<1>1. /\ requests \in [Requests -> Request] /\ h \in Requests
      /\ Active = requests[h] /\ requests[h].status = "queued"
  BY ActiveQueued DEF TypeInv, TypeOK
<1>2. requests' = [requests EXCEPT ![h].status = s]  BY DEF Settle
<1>3. /\ \A r \in Requests : requests'[r].commit = requests[r].commit
      /\ \A r \in Requests \ {h} : requests'[r] = requests[r]
      /\ requests'[h].status = s
  BY <1>1, <1>2 DEF Request
<1>4. CASE s # "done"
  <2>1. Acknowledged' = Acknowledged
    BY <1>1, <1>3, <1>4, SameAcknowledged
  <2> QED  BY <1>4, <2>1
<1>5. CASE s = "done"
  <2>1. Acknowledged' = (Acknowledged \cup {requests[h].commit}) \ {None}
    BY <1>1, <1>3, <1>5 DEF Acknowledged
  <2>2. None \notin Acknowledged  BY DEF Acknowledged
  <2> QED  BY <1>1, <1>5, <2>1, <2>2
<1> QED  BY <1>4, <1>5

(* A step that shows nothing of itself in the history.                     *)
LEMMA Stutters ==
  ASSUME UNCHANGED <<document, commits>>, Acknowledged' = Acknowledged
  PROVE  UNCHANGED History!hvars
BY SameHistory DEF History!hvars

(* A step in which nobody is answered.                                     *)
LEMMA QuietStutters ==
  ASSUME UNCHANGED <<document, commits, requests>> PROVE UNCHANGED History!hvars
BY Stutters DEF Acknowledged

LEMMA RefineInit == Init => History!HInit
<1> SUFFICES ASSUME Init PROVE History!HInit  OBVIOUS
<1>1. /\ document.head = None /\ commits = [c \in CommitIds |-> None]
      /\ \A r \in Requests : requests[r].status = "new"
  BY DEF Init
<1>2. Reachable = {}  BY <1>1, NothingReachable DEF Reachable
<1>3. Acknowledged = {}  BY <1>1 DEF Acknowledged
<1> QED  BY <1>1, <1>2, <1>3 DEF History!HInit

(* Storing a new commit object records a version.                          *)
LEMMA StoreRecords ==
  ASSUME TypeOK, ObjectsInv, NEW c \in CommitIds, NEW v \in Commit,
         commits[c] = None, commits' = [commits EXCEPT ![c] = v],
         UNCHANGED document, Reachable' = Reachable, Acknowledged' = Acknowledged
  PROVE  History!HNext
<1>1. c \notin Reachable  BY ReachableStored
<1>2. v \in History!Version
  BY DEF History!Version, History!Heads, Commit, Heads
<1>3. History!Record(c, v)  BY <1>1 DEF History!Record
<1> QED  BY <1>2, <1>3 DEF History!HNext

(* Telling a caller of the version that is the head.                       *)
LEMMA TellAcknowledges ==
  ASSUME TypeInv, CallersInv, InOperation, Settle("done"),
         UNCHANGED <<document, commits>>, Active.commit = document.head
  PROVE  [History!HNext]_(History!hvars)
<1>1. Reachable' = Reachable  BY SameHistory
<1>2. CASE Active.commit = None
  BY <1>2, SettleAcknowledged, Stutters
<1>3. CASE Active.commit # None
  <2>1. Acknowledged' = Acknowledged \cup {document.head}
    BY <1>3, SettleAcknowledged
  <2>2. document.head \in Reachable /\ document.head \in CommitIds
    BY <1>3, CommitsGraph, ReachableHolds
       DEF TypeInv, TypeOK, Document, Heads, Reachable
  <2>3. History!Acknowledge(document.head)
    BY <1>1, <2>1, <2>2 DEF History!Acknowledge
  <2> QED  BY <2>2, <2>3 DEF History!HNext
<1> QED  BY <1>2, <1>3

(* Ending an operation without telling anybody of a new version.           *)
LEMMA SettleStutters ==
  ASSUME TypeInv, CallersInv, InOperation, NEW s, Settle(s),
         s # "done" \/ Active.commit = None, UNCHANGED <<document, commits>>
  PROVE  UNCHANGED History!hvars
BY SettleAcknowledged, Stutters
LEMMA GiveUpAcknowledged ==
  ASSUME TypeInv, CallersInv, pc \in RecoverySteps, GiveUp
  PROVE  Acknowledged' = Acknowledged
<1>1. CASE cause = "boot"
  BY <1>1 DEF GiveUp, Acknowledged
<1>2. CASE cause = "entry"
  BY <1>2, SettleAcknowledged DEF GiveUp, InOperation
<1>3. CASE cause \notin {"boot", "entry"}
  BY <1>3, SettleAcknowledged DEF GiveUp, InOperation
<1> QED  BY <1>1, <1>2, <1>3

------------------------------------------------------------------------------
LEMMA RefineNext ==
  IInv /\ IInv' /\ [Next]_vars => [History!HNext]_(History!hvars)
<1> SUFFICES ASSUME IInv, IInv', [Next]_vars
             PROVE  [History!HNext]_(History!hvars)
  OBVIOUS
<1> USE DEF IInv, HistoryInv
<1>1. ASSUME NEW r \in Requests, Enqueue(r)
      PROVE  UNCHANGED History!hvars
  <2>1. /\ requests \in [Requests -> Request] /\ requests[r].status = "new"
        /\ UNCHANGED <<document, commits>>
    BY <1>1 DEF Enqueue, TypeInv, TypeOK, repository
  <2>2. /\ \A q \in Requests \ {r} : requests'[q] = requests[q]
        /\ requests'[r].status = "queued"
    BY <1>1, <2>1 DEF Enqueue, Request
  <2>3. Acknowledged' = Acknowledged  BY <2>1, <2>2, SameAcknowledged
  <2> QED  BY <2>1, <2>3, Stutters
<1>2. ASSUME \/ BeginNext \/ Verify \/ PutJournal \/ ReplaceWorking
             \/ PublicationFails \/ RecoverRead \/ RestoreOriginal
             \/ RollbackIndexFails \/ Boot \/ EditWorking \/ UNCHANGED vars
             \/ \E n \in NodeIds : PutNode(n) \/ DeleteNode(n)
      PROVE  UNCHANGED History!hvars
  BY <1>2, QuietStutters
     DEF BeginNext, Verify, PutJournal, ReplaceWorking, PublicationFails,
         RecoverRead, RestoreOriginal, RollbackIndexFails, Boot, EditWorking,
         PutNode, DeleteNode, vars, repository
<1>3. ASSUME NEW expected, NEW content, NEW template, pc = "admit",
             Stage(expected, content, template)
      PROVE  UNCHANGED History!hvars
  <2>1. InOperation  BY <1>3 DEF InOperation
  <2>2. /\ requests \in [Requests -> Request] /\ Head(queue) \in Requests
        /\ requests[Head(queue)].status = "queued"
    BY <2>1, ActiveQueued DEF TypeInv, TypeOK
  <2>3. PICK c : requests' = [requests EXCEPT ![Head(queue)].commit = c]
    BY <1>3 DEF Stage
  <2>4. /\ \A q \in Requests \ {Head(queue)} : requests'[q] = requests[q]
        /\ requests'[Head(queue)].status = "queued"
    BY <2>2, <2>3 DEF Request
  <2>5. Acknowledged' = Acknowledged  BY <2>2, <2>4, SameAcknowledged
  <2> QED  BY <1>3, <2>5, Stutters DEF Stage
<1>4. ASSUME StageSubmit \/ StageCapture \/ StageRevert
      PROVE  UNCHANGED History!hvars
  <2>1. pc = "admit" /\ \E e, t, v : Stage(e, t, v)
    BY <1>4 DEF StageSubmit, StageCapture, StageRevert
  <2> QED  BY <1>3, <2>1
<1>5. ASSUME RestoreWorking \/ Refuse \/ Abandon \/ RejectChanged
      PROVE  UNCHANGED History!hvars
  <2>1. /\ pc \in {"admit", "verify", "journal"}
        /\ UNCHANGED <<document, commits>>
    BY <1>5 DEF RestoreWorking, Refuse, Abandon, RejectChanged, repository
  <2>2. InOperation  BY <2>1 DEF InOperation
  <2>3. CASE RestoreWorking
    <3>1. Settle("done") /\ pc = "admit"  BY <2>3 DEF RestoreWorking
    <3>2. Active.commit = None
      BY <2>2, <3>1 DEF ControlInv, Staging, Rescuing, PublicationSteps,
                        RecoverySteps
    <3> QED  BY <2>1, <2>2, <3>1, <3>2, SettleStutters
  <2>4. CASE Refuse \/ Abandon \/ RejectChanged
    <3>1. Settle("failed")  BY <2>4 DEF Refuse, Abandon, RejectChanged
    <3> QED  BY <2>1, <2>2, <3>1, SettleStutters
  <2> QED  BY <1>5, <2>3, <2>4
<1>6. ASSUME PutCommit PROVE History!HNext
  <2>1. staged \in Publication /\ commits[staged.id] = None
    BY <1>6 DEF PutCommit, PublishInv, RecordsInv, HoldingInv, TypeInv, TypeOK,
                PublicationSteps
  <2>2. Reachable' = Reachable  BY <1>6, PutCommitHistory
  <2>3. Acknowledged' = Acknowledged
    BY <1>6 DEF PutCommit, Acknowledged
  <2> QED  BY <1>6, <2>1, <2>2, <2>3, PublicationType, StoreRecords
           DEF PutCommit, TypeInv, RecordsInv
<1>7. ASSUME UpdateDocument PROVE History!HNext
  <2>1. /\ document.head = commits[staged.id].parent
        /\ document'.head = staged.id /\ staged.id \in CommitIds
        /\ commits[staged.id] # None
        /\ Reachable' = Reachable \cup {staged.id}
    BY <1>7, UpdateHistory
  <2>2. staged.id \notin Reachable
    <3>1. journal = staged /\ journal # None /\ document = staged.before.document
      BY <1>7 DEF UpdateDocument, RecordsInv, PublishInv, PublicationSteps
    <3>2. ~Committed
      BY <3>1 DEF RecordsInv, JournalInv, WellFormed, Committed
    <3> QED  BY <3>1, <3>2 DEF OpenInv
  <2>3. UNCHANGED <<commits, requests>>  BY <1>7 DEF UpdateDocument
  <2>4. Acknowledged' = Acknowledged  BY <2>3 DEF Acknowledged
  <2>5. History!Publish(staged.id)
    BY <2>1, <2>2, <2>3, <2>4 DEF History!Publish
  <2> QED  BY <2>1, <2>5 DEF History!HNext
<1>8. ASSUME ClearJournal PROVE [History!HNext]_(History!hvars)
  <2>1. /\ Settle("done") /\ UNCHANGED <<document, commits>>
        /\ InOperation /\ Staging
    BY <1>8 DEF ClearJournal, InOperation, Staging, PublicationSteps
  <2>2. /\ staged = journal /\ journal # None
        /\ document = staged.after.document
    BY <1>8 DEF ClearJournal, RecordsInv, PublishInv, PublicationSteps
  <2>3. Active.commit = document.head
    BY <2>1, <2>2 DEF RecordsInv, JournalInv, WellFormed, ControlInv
  <2> QED  BY <2>1, <2>3, TellAcknowledges
<1>9. ASSUME RecoverUnrecognized \/ RecoverFails PROVE UNCHANGED History!hvars
  <2>1. /\ GiveUp /\ pc \in RecoverySteps /\ UNCHANGED <<document, commits>>
    BY <1>9 DEF RecoverUnrecognized, RecoverFails, RecoverySteps, repository
  <2> QED  BY <2>1, GiveUpAcknowledged, Stutters
<1>10. ASSUME RecoverCommit PROVE [History!HNext]_(History!hvars)
  <2>1. /\ pc \in RecoverySteps /\ journal # None /\ journal \in Publication
        /\ commits' = [commits EXCEPT ![journal.id] = journal.commit]
        /\ UNCHANGED document
    BY <1>10 DEF RecoverCommit, RecoverySteps, TypeInv, TypeOK, HoldingInv
  <2>2. Acknowledged' = Acknowledged
    <3>1. CASE Resolvable  BY <1>10, <3>1 DEF RecoverCommit, Acknowledged
    <3>2. CASE ~Resolvable
      BY <1>10, <2>1, <3>2, GiveUpAcknowledged DEF RecoverCommit
    <3> QED  BY <3>1, <3>2
  <2>3. journal.id \in CommitIds /\ journal.commit \in Commit
    BY <2>1, PublicationType
  <2>4. Reachable' = Reachable  BY <1>10, RecoverCommitHistory
  <2>5. CASE commits[journal.id] = None
    BY <2>1, <2>2, <2>3, <2>4, <2>5, StoreRecords DEF TypeInv, RecordsInv
  <2>6. CASE commits[journal.id] # None
    <3>1. commits[journal.id] = journal.commit
      BY <2>1, <2>6 DEF RecordsInv, JournalInv, WellFormed
    <3>2. commits' = commits  BY <2>1, <2>3, <3>1 DEF TypeInv, TypeOK
    <3> QED  BY <2>1, <2>2, <3>2, Stutters
  <2> QED  BY <2>5, <2>6
<1>11. ASSUME RecoverClear PROVE [History!HNext]_(History!hvars)
  <2>1. /\ pc \in RecoverySteps /\ journal # None
        /\ UNCHANGED <<document, commits>>
    BY <1>11 DEF RecoverClear, RecoverySteps, TypeInv, HoldingInv
  <2>2. CASE cause = "inline"
    <3>1. /\ Settle(IF Committed THEN "done" ELSE "failed") /\ InOperation
          /\ Active.commit = journal.id
      BY <1>11, <2>1, <2>2 DEF RecoverClear, InOperation, ControlInv, Rescuing,
                               RecordsInv, RecoverInv
    <3>2. CASE Committed
      <4>1. Settle("done") /\ Active.commit = document.head
        BY <3>1, <3>2 DEF Committed
      <4> QED  BY <2>1, <3>1, <4>1, TellAcknowledges
    <3>3. CASE ~Committed
      <4>1. Settle("failed")  BY <3>1, <3>3
      <4> QED  BY <2>1, <3>1, <4>1, SettleStutters
    <3> QED  BY <3>2, <3>3
  <2>3. CASE cause # "inline"
    <3>1. UNCHANGED requests
      BY <1>11, <2>3 DEF RecoverClear, TypeInv, TypeOK
    <3> QED  BY <2>1, <3>1, QuietStutters
  <2> QED  BY <2>2, <2>3
<1>12. ASSUME Crash PROVE UNCHANGED History!hvars
  <2>1. requests \in [Requests -> Request] /\ UNCHANGED <<document, commits>>
    BY <1>12 DEF Crash, TypeInv, TypeOK, repository
  <2>2. \A r \in Requests :
          /\ requests'[r].commit = requests[r].commit
          /\ requests'[r].status = "done" <=> requests[r].status = "done"
    BY <1>12, <2>1 DEF Crash, Request
  <2> QED  BY <2>1, <2>2, SameAcknowledged, Stutters
<1> QED
  BY <1>1, <1>2, <1>4, <1>5, <1>6, <1>7, <1>8, <1>9, <1>10, <1>11, <1>12
     DEF Next, Operate, Publish, Recover, Fail

(* The commit service implements DocumentHistory: whatever the interleaving*)
(* of failures, crashes and recoveries, versions are only ever added, each *)
(* as the child of the head it was made from, and none is ever taken back. *)
THEOREM Refinement == Spec => RefinesHistory
<1>1. IInv /\ IInv' /\ [Next]_vars => [History!HNext]_(History!hvars)
  BY RefineNext
<1>2. Spec => []IInv  BY Consistent
<1>3. Spec => History!HInit /\ [][History!HNext]_(History!hvars)
  BY RefineInit, <1>1, <1>2, PTL DEF Spec
<1> QED  BY <1>3 DEF RefinesHistory, History!HSpec
================================================================================
