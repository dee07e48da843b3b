-------------------------- MODULE PaperCommitsRecords --------------------------
(***************************************************************************)
(* Proofs that the variables of the commit service keep to their types and *)
(* that its durable records stay consistent, for every value of the        *)
(* constants and every bound on the environment: RecordsInv is inductive,  *)
(* and with no publication pending it makes the node records and the       *)
(* template those of the head.                                             *)
(***************************************************************************)
EXTENDS PaperCommitsInv, TLAPS, FiniteSetTheorems

USE NoneIsNoCommit, ConstantsAssumption

-------------------------------------------------------------------------------
(* Types.                                                                  *)

(* The number of node records of an index is a natural number.             *)
LEMMA CountType ==
  ASSUME NEW index PROVE Cardinality(Indexed(index)) \in Nat
<1>1. Indexed(index) \subseteq NodeIds  BY DEF Indexed
<1>2. IsFiniteSet(Indexed(index))  BY <1>1, FS_Subset
<1> QED  BY <1>2, FS_CardinalityType

LEMMA IndexType ==
  ASSUME NEW layout, NEW c \in Heads PROVE IndexOf(layout, c) \in Index
BY DEF IndexOf, Index

LEMMA PlanType ==
  ASSUME NEW current \in Index, NEW next \in Index
  PROVE  ReplaceIndex(current, next) \in
           [target : Index, puts : SUBSET NodeIds, deletes : SUBSET NodeIds]
BY DEF ReplaceIndex, Indexed

LEMMA NoWritesType ==
  NoWrites \in
    [target : Index, puts : SUBSET NodeIds, deletes : SUBSET NodeIds]
BY IndexType, PlanType DEF NoWrites, Heads

(* What forgetting and answering do to the types.                          *)
LEMMA SettleType ==
  ASSUME TypeOK, queue # <<>>,
         NEW status \in {"done", "failed", "unresolved"}, Settle(status)
  PROVE  /\ requests' \in [Requests -> Request]
         /\ queue' \in Seq(Requests)
         /\ pc' = "idle"
         /\ cause' = "boot" /\ staged' = None /\ seen' = Missing
         /\ plan' \in
              [target : Index, puts : SUBSET NodeIds, deletes : SUBSET NodeIds]
         /\ broken' \in BOOLEAN
<1>1. requests' \in [Requests -> Request]
  BY DEF Settle, TypeOK, Request
<1>2. queue' \in Seq(Requests)
  BY DEF Settle, TypeOK
<1> QED  BY <1>1, <1>2, NoWritesType DEF Settle, ForgetScratch

(* Staging builds a publication of the right type.                         *)
LEMMA StageType ==
  ASSUME TypeInv, pc = "admit", working # Missing,
         NEW expected \in Heads, NEW content \in Contents,
         NEW template \in TemplateIds \cup {None},
         Stage(expected, content, template)
  PROVE  TypeInv'
<1>1. PICK c \in CommitIds, layout \in Layouts :
        /\ staged' =
             [id |-> c,
              commit |-> [parent |-> expected, content |-> content,
                          template |-> template],
              before |-> [document |-> document, nodes |-> nodes,
                          working |-> working],
              after |-> [document |->
                           [head |-> c, template |-> template,
                            nodeCount |->
                              Cardinality(Indexed(IndexOf(layout, c)))],
                         nodes |-> IndexOf(layout, c)]]
        /\ requests' = [requests EXCEPT ![Head(queue)].commit = c]
        /\ snapshots' = snapshots \cup {content}
        /\ pc' = "verify"
        /\ UNCHANGED <<document, nodes, commits, journal, working, queue, cause,
                       seen, plan, broken, interference>>
  BY DEF Stage
<1>2. Cardinality(Indexed(IndexOf(layout, c))) \in Nat  BY CountType
<1>3. IndexOf(layout, c) \in Index  BY IndexType DEF Heads
<1>4. staged' \in Publication
  BY <1>1, <1>2, <1>3
     DEF TypeInv, TypeOK, Publication, Commit, Document, Heads
<1>5. requests' \in [Requests -> Request]
  <2>1. requests \in [Requests -> Request]  BY DEF TypeInv, TypeOK
  <2>2. \A q \in Request : [q EXCEPT !.commit = c] \in Request
    BY DEF Request, Heads
  <2> QED  BY <1>1, <2>1, <2>2
<1>6. snapshots' \in SUBSET Contents  BY <1>1 DEF TypeInv, TypeOK
<1>7. TypeOK'  BY <1>1, <1>4, <1>5, <1>6 DEF TypeInv, TypeOK
<1>8. QueueInv'
  BY <1>1 DEF TypeInv, QueueInv, InOperation, RecoverySteps, PublicationSteps
<1>9. HoldingInv'
  <2>1. staged' # None  BY <1>4, NoneIsNoRecord
  <2> QED  BY <1>1, <2>1 DEF HoldingInv, RecoverySteps, PublicationSteps
<1> QED  BY <1>7, <1>8, <1>9 DEF TypeInv

LEMMA SettleTypeInv ==
  ASSUME TypeInv, InOperation,
         NEW status \in {"done", "failed", "unresolved"}, Settle(status),
         document' \in Document, nodes' \in Index,
         commits' \in [CommitIds -> Commit \cup {None}],
         snapshots' \in SUBSET Contents, journal' \in Publication \cup {None},
         working' \in Contents \cup {Missing},
         interference' \in [crash : 0..MaxCrashes, fault : 0..MaxFaults,
                            edit : 0..MaxEdits]
  PROVE  TypeInv'
<1>1. queue # <<>>  BY DEF TypeInv, QueueInv
<1>2. TypeOK'  BY <1>1, SettleType DEF TypeInv, TypeOK
<1>3. QueueInv'
  BY DEF Settle, QueueInv, InOperation, RecoverySteps, PublicationSteps
<1>4. HoldingInv'
  BY DEF Settle, HoldingInv, RecoverySteps, PublicationSteps
<1> QED  BY <1>2, <1>3, <1>4 DEF TypeInv

LEMMA GiveUpTypeInv ==
  ASSUME TypeInv, pc \in RecoverySteps, GiveUp,
         document' \in Document, nodes' \in Index,
         commits' \in [CommitIds -> Commit \cup {None}],
         snapshots' \in SUBSET Contents, journal' \in Publication \cup {None},
         working' \in Contents \cup {Missing},
         interference' \in [crash : 0..MaxCrashes, fault : 0..MaxFaults,
                            edit : 0..MaxEdits]
  PROVE  TypeInv'
<1>1. CASE cause = "boot"
  <2>1. /\ pc' = "idle" /\ ForgetScratch /\ UNCHANGED <<requests, queue>>
    BY <1>1 DEF GiveUp
  <2>2. TypeOK'  BY <2>1, NoWritesType DEF TypeInv, TypeOK, ForgetScratch
  <2>3. QueueInv'
    BY <2>1 DEF QueueInv, InOperation, RecoverySteps, PublicationSteps
  <2>4. HoldingInv'
    BY <2>1 DEF HoldingInv, RecoverySteps, PublicationSteps
  <2> QED  BY <2>2, <2>3, <2>4 DEF TypeInv
<1>2. CASE cause # "boot"
  <2>1. InOperation  BY <1>2 DEF InOperation
  <2>2. Settle(IF cause = "entry" THEN "failed" ELSE "unresolved")
    BY <1>2 DEF GiveUp
  <2>3. CASE cause = "entry"
    <3>1. Settle("failed")  BY <2>2, <2>3
    <3> QED  BY <2>1, <3>1, SettleTypeInv
  <2>4. CASE cause # "entry"
    <3>1. Settle("unresolved")  BY <2>2, <2>4
    <3> QED  BY <2>1, <3>1, SettleTypeInv
  <2> QED  BY <2>3, <2>4
<1> QED  BY <1>1, <1>2

LEMMA InterfereType ==
  ASSUME TypeInv,
         \/ Interfere("crash", MaxCrashes) \/ Interfere("fault", MaxFaults)
         \/ Interfere("edit", MaxEdits)
  PROVE  interference' \in [crash : 0..MaxCrashes, fault : 0..MaxFaults,
                            edit : 0..MaxEdits]
BY DEF TypeInv, TypeOK, Interfere

LEMMA TypeInit == Init => TypeInv
<1> SUFFICES ASSUME Init PROVE TypeInv  OBVIOUS
<1>1. nodes \in Index
  <2>1. PICK layout \in Layouts : nodes = IndexOf(layout, None)  BY DEF Init
  <2> QED  BY <2>1, IndexType DEF Heads
<1>2. document \in Document
  <2>1. Cardinality(Indexed(nodes)) \in Nat  BY CountType
  <2>2. document = [head |-> None, template |-> None,
                    nodeCount |-> Cardinality(Indexed(nodes))]
    BY DEF Init
  <2> QED  BY <2>1, <2>2 DEF Document, Heads
<1>3. requests \in [Requests -> Request]  BY DEF Init, Request, Heads
<1>4. plan \in
        [target : Index, puts : SUBSET NodeIds, deletes : SUBSET NodeIds]
  BY NoWritesType DEF Init
<1>8. interference \in [crash : 0..MaxCrashes, fault : 0..MaxFaults,
                         edit : 0..MaxEdits]
  <2>1. MaxCrashes \in Nat /\ MaxFaults \in Nat /\ MaxEdits \in Nat
    OBVIOUS
  <2>2. 0 \in 0..MaxCrashes /\ 0 \in 0..MaxFaults /\ 0 \in 0..MaxEdits
    BY <2>1
  <2> QED  BY <2>2 DEF Init
<1>9. commits \in [CommitIds -> Commit \cup {None}] /\ queue \in Seq(Requests)
  BY DEF Init
<1>5. TypeOK  BY <1>1, <1>2, <1>3, <1>4, <1>8, <1>9 DEF Init, TypeOK
<1>6. QueueInv
  BY DEF Init, QueueInv, InOperation, RecoverySteps, PublicationSteps
<1>7. HoldingInv
  BY DEF Init, HoldingInv, RecoverySteps, PublicationSteps
<1> QED  BY <1>5, <1>6, <1>7 DEF TypeInv

(* A step that leaves the callers and their queue alone.                   *)
LEMMA QuietQueue ==
  ASSUME QueueInv, UNCHANGED queue, InOperation' => InOperation
  PROVE  QueueInv'
BY DEF QueueInv

LEMMA EnqueueType ==
  ASSUME TypeInv, NEW r \in Requests, Enqueue(r) PROVE TypeInv'
<1> USE DEF TypeInv
<1>1. requests' \in [Requests -> Request]
  <2>1. \A q \in Request,
           kind \in {"submit", "capture", "revert", "restore"},
           base \in Heads, target \in Heads :
          [q EXCEPT !.kind = kind, !.base = base, !.target = target,
                    !.status = "queued"] \in Request
    BY DEF Request
  <2>2. Reachable \cup {None} \subseteq Heads
    BY DEF Reachable, ReachableFrom, Heads
  <2>3. requests \in [Requests -> Request]  BY DEF TypeOK
  <2>4. PICK kind \in {"submit", "capture", "revert", "restore"},
             base \in Heads, target \in Heads :
          requests' = [requests EXCEPT ![r] =
            [@ EXCEPT !.kind = kind, !.base = base, !.target = target,
                      !.status = "queued"]]
    BY <2>2 DEF Enqueue
  <2>5. [requests[r] EXCEPT !.kind = kind, !.base = base, !.target = target,
                            !.status = "queued"] \in Request
    BY <2>1, <2>3
  <2> QED  BY <2>3, <2>4, <2>5
<1>2. queue' \in Seq(Requests) /\ queue' # <<>>
  BY DEF Enqueue, TypeOK
<1>3. TypeOK'  BY <1>1, <1>2 DEF Enqueue, TypeOK, repository, scratch
<1>4. QueueInv'  BY <1>2 DEF QueueInv
<1>5. HoldingInv'  BY DEF Enqueue, HoldingInv, repository, scratch
<1> QED  BY <1>3, <1>4, <1>5

(* Inside an operation the request at the head of the queue is one.        *)
LEMMA ActiveType ==
  ASSUME TypeInv, InOperation
  PROVE  queue # <<>> /\ Head(queue) \in Requests /\ Active \in Request
BY DEF TypeInv, TypeOK, QueueInv, Active

LEMMA TypeNext == TypeInv /\ [Next]_vars => TypeInv'
<1> SUFFICES ASSUME TypeInv, [Next]_vars PROVE TypeInv'  OBVIOUS
<1> USE DEF TypeInv
<1>0. pc = "admit" => InOperation  BY DEF InOperation
<1>1. ASSUME NEW r \in Requests, Enqueue(r) PROVE TypeInv'
  BY <1>1, EnqueueType
<1>2. ASSUME BeginNext PROVE TypeInv'
  <2>1. TypeOK'
    BY <1>2 DEF BeginNext, TypeOK, repository, RecoverySteps
  <2>2. QueueInv'
    BY <1>2 DEF BeginNext, QueueInv
  <2>3. HoldingInv'
    BY <1>2 DEF BeginNext, HoldingInv, repository, RecoverySteps,
                PublicationSteps
  <2> QED  BY <2>1, <2>2, <2>3
<1>3. ASSUME StageSubmit PROVE TypeInv'
  <2>1. Active.base \in Heads /\ working # Missing
    BY <1>0, <1>3, ActiveType DEF StageSubmit, MaySubmit, Request
  <2>2. PICK content \in Contents, template \in TemplateIds \cup {None} :
          Stage(Active.base, content, template)
    BY <1>3 DEF StageSubmit
  <2> QED  BY <1>3, <2>1, <2>2, StageType DEF StageSubmit
<1>4. ASSUME StageCapture PROVE TypeInv'
  <2>1. /\ document.head \in Heads /\ document.template \in TemplateIds \cup {None}
        /\ working \in Contents /\ working # Missing
    BY <1>4 DEF StageCapture, MayCapture, TypeOK, Document
  <2> QED  BY <1>4, <2>1, StageType DEF StageCapture
<1>5. ASSUME StageRevert PROVE TypeInv'
  <2>1. /\ Active.base \in Heads /\ working # Missing
        /\ Active.target \in CommitIds /\ commits[Active.target] # None
    BY <1>0, <1>5, ActiveType
       DEF StageRevert, MayRevert, MaySubmit, Request, Reachable, ReachableFrom
  <2>2. commits[Active.target] \in Commit  BY <2>1 DEF TypeOK
  <2>3. /\ commits[Active.target].content \in Contents
        /\ commits[Active.target].template \in TemplateIds \cup {None}
    BY <2>2 DEF Commit
  <2> QED  BY <1>5, <2>1, <2>3, StageType DEF StageRevert
<1>6. ASSUME RestoreWorking PROVE TypeInv'
  <2>1. HeadContent \in Contents
    BY <1>6 DEF RestoreWorking, MayRestore, TypeOK
  <2> QED  BY <1>0, <1>6, <2>1, SettleTypeInv DEF RestoreWorking, TypeOK, repository
<1>7. ASSUME Refuse PROVE TypeInv'
  BY <1>0, <1>7, SettleTypeInv DEF Refuse, TypeOK, repository
<1>8. ASSUME Abandon PROVE TypeInv'
  <2>1. InOperation  BY <1>8 DEF Abandon, InOperation
  <2> QED  BY <1>8, <2>1, SettleTypeInv, InterfereType
           DEF Abandon, TypeOK, repository
<1>9. ASSUME Verify PROVE TypeInv'
  <2>1. staged \in Publication
    BY <1>9 DEF Verify, TypeOK, HoldingInv
  <2>2. staged' \in Publication
    BY <1>9, <2>1 DEF Verify, TypeOK, Publication
  <2>3. TypeOK'  BY <1>9, <2>2 DEF Verify, TypeOK, repository
  <2>4. QueueInv'
    BY <1>9 DEF Verify, QueueInv, InOperation
  <2>5. HoldingInv'
    BY <1>9, <2>2, NoneIsNoRecord
       DEF Verify, HoldingInv, PublicationSteps, RecoverySteps
  <2> QED  BY <2>3, <2>4, <2>5
<1>10. ASSUME RejectChanged PROVE TypeInv'
  <2>1. InOperation  BY <1>10 DEF RejectChanged, InOperation
  <2> QED  BY <1>10, <2>1, SettleTypeInv DEF RejectChanged, TypeOK, repository
<1>11. ASSUME PutJournal PROVE TypeInv'
  <2>1. staged \in Publication
    BY <1>11 DEF PutJournal, TypeOK, HoldingInv
  <2>2. snapshots' \in SUBSET Contents
    BY <1>11, <2>1 DEF PutJournal, TypeOK, Publication
  <2>3. TypeOK'
    BY <1>11, <2>1, <2>2 DEF PutJournal, TypeOK, scratch, PublicationSteps
  <2>4. QueueInv'
    BY <1>11 DEF PutJournal, QueueInv, InOperation
  <2>5. HoldingInv'
    BY <1>11, <2>1, NoneIsNoRecord
       DEF PutJournal, HoldingInv, scratch
  <2> QED  BY <2>3, <2>4, <2>5
<1>12. ASSUME PutCommit PROVE TypeInv'
  <2>1. staged \in Publication /\ journal # None
    BY <1>12 DEF PutCommit, TypeOK, HoldingInv, PublicationSteps
  <2>2. staged.id \in CommitIds /\ staged.commit \in Commit
    BY <2>1 DEF Publication
  <2>3. TypeOK'
    BY <1>12, <2>2 DEF PutCommit, TypeOK, scratch, PublicationSteps
  <2>4. QueueInv'
    BY <1>12 DEF PutCommit, QueueInv, InOperation, PublicationSteps
  <2>5. HoldingInv'
    BY <1>12, <2>1, NoneIsNoRecord
       DEF PutCommit, HoldingInv, scratch, PublicationSteps
  <2> QED  BY <2>3, <2>4, <2>5
<1>13. ASSUME ReplaceWorking PROVE TypeInv'
  <2>1. staged \in Publication /\ journal # None
    BY <1>13 DEF ReplaceWorking, TypeOK, HoldingInv, PublicationSteps
  <2>2. /\ staged.commit.content \in Contents
        /\ staged.before.nodes \in Index /\ staged.after.nodes \in Index
    BY <2>1 DEF Publication, Commit
  <2>3. plan' \in
          [target : Index, puts : SUBSET NodeIds, deletes : SUBSET NodeIds]
    BY <1>13, <2>2, PlanType DEF ReplaceWorking
  <2>4. TypeOK'
    BY <1>13, <2>2, <2>3
       DEF ReplaceWorking, TypeOK, repository, PublicationSteps
  <2>5. QueueInv'
    BY <1>13 DEF ReplaceWorking, QueueInv, InOperation, PublicationSteps
  <2>6. HoldingInv'
    BY <1>13, <2>1, NoneIsNoRecord
       DEF ReplaceWorking, HoldingInv, repository, PublicationSteps
  <2> QED  BY <2>4, <2>5, <2>6
<1>14. ASSUME NEW n \in NodeIds, PutNode(n) PROVE TypeInv'
  <2>1. plan' \in
          [target : Index, puts : SUBSET NodeIds, deletes : SUBSET NodeIds]
    BY <1>14 DEF PutNode, TypeOK
  <2>2. nodes' \in Index  BY <1>14 DEF PutNode, TypeOK, Index
  <2>3. TypeOK'  BY <1>14, <2>1, <2>2 DEF PutNode, TypeOK
  <2>4. QueueInv'  BY <1>14 DEF PutNode, QueueInv, InOperation
  <2>5. HoldingInv'  BY <1>14 DEF PutNode, HoldingInv
  <2> QED  BY <2>3, <2>4, <2>5
<1>15. ASSUME NEW n \in NodeIds, DeleteNode(n) PROVE TypeInv'
  <2>1. plan' \in
          [target : Index, puts : SUBSET NodeIds, deletes : SUBSET NodeIds]
    BY <1>15 DEF DeleteNode, TypeOK
  <2>2. nodes' \in Index  BY <1>15 DEF DeleteNode, TypeOK, Index
  <2>3. TypeOK'  BY <1>15, <2>1, <2>2 DEF DeleteNode, TypeOK
  <2>4. QueueInv'  BY <1>15 DEF DeleteNode, QueueInv, InOperation
  <2>5. HoldingInv'  BY <1>15 DEF DeleteNode, HoldingInv
  <2> QED  BY <2>3, <2>4, <2>5
<1>16. ASSUME UpdateDocument PROVE TypeInv'
  <2>1. staged \in Publication /\ journal # None
    BY <1>16 DEF UpdateDocument, TypeOK, HoldingInv, PublicationSteps
  <2>2. TypeOK'
    BY <1>16, <2>1
       DEF UpdateDocument, TypeOK, scratch, PublicationSteps, Publication
  <2>3. QueueInv'
    BY <1>16 DEF UpdateDocument, QueueInv, InOperation, PublicationSteps
  <2>4. HoldingInv'
    BY <1>16, <2>1, NoneIsNoRecord
       DEF UpdateDocument, HoldingInv, scratch, PublicationSteps
  <2> QED  BY <2>2, <2>3, <2>4
<1>17. ASSUME ClearJournal PROVE TypeInv'
  <2>1. InOperation  BY <1>17 DEF ClearJournal, InOperation, PublicationSteps
  <2> QED  BY <1>17, <2>1, SettleTypeInv DEF ClearJournal, TypeOK
<1>18. ASSUME PublicationFails PROVE TypeInv'
  <2>1. journal # None /\ InOperation
    BY <1>18 DEF PublicationFails, HoldingInv, InOperation
  <2>2. interference' \in [crash : 0..MaxCrashes, fault : 0..MaxFaults,
                           edit : 0..MaxEdits]
    BY <1>18, InterfereType DEF PublicationFails, TypeOK
  <2>3. TypeOK'
    BY <1>18, <2>2 DEF PublicationFails, TypeOK, repository, RecoverySteps
  <2>4. QueueInv'
    BY <1>18, <2>1 DEF PublicationFails, QueueInv
  <2>5. HoldingInv'
    BY <1>18, <2>1
       DEF PublicationFails, HoldingInv, repository, PublicationSteps
  <2> QED  BY <2>3, <2>4, <2>5
<1>19. ASSUME RecoverRead PROVE TypeInv'
  <2>1. journal \in Publication
    BY <1>19 DEF RecoverRead, TypeOK, HoldingInv, RecoverySteps
  <2>2. journal.after.nodes \in Index /\ journal.before.nodes \in Index
    BY <2>1 DEF Publication
  <2>3. plan' \in
          [target : Index, puts : SUBSET NodeIds, deletes : SUBSET NodeIds]
    BY <1>19, <2>2, PlanType DEF RecoverRead, TypeOK
  <2>4. TypeOK'
    BY <1>19, <2>3 DEF RecoverRead, TypeOK, repository, RecoverySteps
  <2>5. QueueInv'
    BY <1>19
       DEF RecoverRead, QueueInv, InOperation, RecoverySteps, PublicationSteps
  <2>6. HoldingInv'
    BY <1>19 DEF RecoverRead, HoldingInv, repository, RecoverySteps,
                 PublicationSteps
  <2> QED  BY <2>4, <2>5, <2>6
<1>20. ASSUME RecoverUnrecognized PROVE TypeInv'
  <2>1. pc \in RecoverySteps  BY <1>20 DEF RecoverUnrecognized, RecoverySteps
  <2> QED  BY <1>20, <2>1, GiveUpTypeInv
           DEF RecoverUnrecognized, TypeOK, repository
<1>21. ASSUME RecoverCommit PROVE TypeInv'
  <2>1. pc \in RecoverySteps  BY <1>21 DEF RecoverCommit, RecoverySteps
  <2>2. journal \in Publication
    BY <2>1 DEF TypeOK, HoldingInv
  <2>3. commits' \in [CommitIds -> Commit \cup {None}]
    BY <1>21, <2>2 DEF RecoverCommit, TypeOK, Publication
  <2>4. CASE Resolvable
    <3>1. pc' = "recoverIndex" /\ UNCHANGED <<requests, queue, scratch>>
      BY <1>21, <2>4 DEF RecoverCommit
    <3>2. TypeOK'
      BY <1>21, <2>3, <3>1 DEF RecoverCommit, TypeOK, scratch, RecoverySteps
    <3>3. QueueInv'
      BY <1>21, <3>1
         DEF RecoverCommit, QueueInv, InOperation, scratch, RecoverySteps,
             PublicationSteps
    <3>4. HoldingInv'
      BY <1>21, <2>1, <3>1
         DEF RecoverCommit, HoldingInv, RecoverySteps, PublicationSteps
    <3> QED  BY <3>2, <3>3, <3>4
  <2>5. CASE ~Resolvable
    <3>1. GiveUp  BY <1>21, <2>5 DEF RecoverCommit
    <3> QED  BY <1>21, <2>1, <2>3, <3>1, GiveUpTypeInv
             DEF RecoverCommit, TypeOK
  <2> QED  BY <2>4, <2>5
<1>22. ASSUME RestoreOriginal PROVE TypeInv'
  <2>1. journal \in Publication
    BY <1>22 DEF RestoreOriginal, TypeOK, HoldingInv, RecoverySteps
  <2>2. working' \in Contents \cup {Missing}
    BY <1>22, <2>1 DEF RestoreOriginal, TypeOK, Publication
  <2>3. TypeOK'
    BY <1>22, <2>2
       DEF RestoreOriginal, TypeOK, repository, scratch, RecoverySteps
  <2>4. QueueInv'
    BY <1>22 DEF RestoreOriginal, QueueInv, InOperation, scratch,
                 RecoverySteps, PublicationSteps
  <2>5. HoldingInv'
    BY <1>22 DEF RestoreOriginal, HoldingInv, repository, RecoverySteps,
                 PublicationSteps
  <2> QED  BY <2>3, <2>4, <2>5
<1>23. ASSUME RecoverClear PROVE TypeInv'
  <2>1. pc \in RecoverySteps  BY <1>23 DEF RecoverClear, RecoverySteps
  <2>2. CASE cause = "inline"
    <3>1. InOperation  BY <2>1, <2>2 DEF InOperation
    <3>2. Settle(IF Committed THEN "done" ELSE "failed")
      BY <1>23, <2>2 DEF RecoverClear
    <3>3. CASE Committed
      <4>1. Settle("done")  BY <3>2, <3>3
      <4> QED  BY <1>23, <3>1, <4>1, SettleTypeInv DEF RecoverClear, TypeOK
    <3>4. CASE ~Committed
      <4>1. Settle("failed")  BY <3>2, <3>4
      <4> QED  BY <1>23, <3>1, <4>1, SettleTypeInv DEF RecoverClear, TypeOK
    <3> QED  BY <3>3, <3>4
  <2>3. CASE cause # "inline"
    <3>1. /\ pc' = IF cause = "boot" THEN "idle" ELSE "admit"
          /\ ForgetScratch /\ UNCHANGED <<requests, queue>>
      BY <1>23, <2>3 DEF RecoverClear, TypeOK
    <3>2. TypeOK'
      BY <1>23, <3>1, NoWritesType DEF RecoverClear, TypeOK, ForgetScratch
    <3>3. QueueInv'
      BY <2>1, <3>1 DEF QueueInv, InOperation, RecoverySteps, PublicationSteps
    <3>4. HoldingInv'
      BY <3>1 DEF HoldingInv, RecoverySteps, PublicationSteps
    <3> QED  BY <3>2, <3>3, <3>4
  <2> QED  BY <2>2, <2>3
<1>24. ASSUME RollbackIndexFails PROVE TypeInv'
  <2>1. interference' \in [crash : 0..MaxCrashes, fault : 0..MaxFaults,
                           edit : 0..MaxEdits]
    BY <1>24, InterfereType DEF RollbackIndexFails
  <2>2. TypeOK'
    BY <1>24, <2>1, NoWritesType DEF RollbackIndexFails, TypeOK, repository
  <2>3. QueueInv'  BY <1>24 DEF RollbackIndexFails, QueueInv, InOperation
  <2>4. HoldingInv'
    BY <1>24 DEF RollbackIndexFails, HoldingInv, repository
  <2> QED  BY <2>2, <2>3, <2>4
<1>25. ASSUME RecoverFails PROVE TypeInv'
  <2>1. pc \in RecoverySteps  BY <1>25 DEF RecoverFails, RecoverySteps
  <2>2. interference' \in [crash : 0..MaxCrashes, fault : 0..MaxFaults,
                           edit : 0..MaxEdits]
    BY <1>25, InterfereType DEF RecoverFails, TypeOK
  <2> QED  BY <1>25, <2>1, <2>2, GiveUpTypeInv
           DEF RecoverFails, TypeOK, repository
<1>26. ASSUME Crash PROVE TypeInv'
  <2>1. interference' \in [crash : 0..MaxCrashes, fault : 0..MaxFaults,
                           edit : 0..MaxEdits]
    BY <1>26, InterfereType DEF Crash
  <2>2. requests' \in [Requests -> Request]
    <3>1. requests \in [Requests -> Request]  BY DEF TypeOK
    <3>2. \A q \in Request : [q EXCEPT !.status = "lost"] \in Request
      BY DEF Request
    <3> QED  BY <1>26, <3>1, <3>2 DEF Crash
  <2>3. TypeOK'
    <3>1. /\ pc' = "down" /\ queue' = <<>> /\ cause' = "boot"
          /\ staged' = None /\ seen' = Missing /\ plan' = NoWrites
          /\ broken' = FALSE /\ UNCHANGED <<repository, working>>
      BY <1>26 DEF Crash, ForgetScratch
    <3>2. queue' \in Seq(Requests)  BY <3>1
    <3>3. plan' \in
            [target : Index, puts : SUBSET NodeIds, deletes : SUBSET NodeIds]
      BY <3>1, NoWritesType
    <3> QED  BY <2>1, <2>2, <3>1, <3>2, <3>3 DEF TypeOK, repository
  <2>4. QueueInv'
    BY <1>26
       DEF Crash, QueueInv, InOperation, RecoverySteps, PublicationSteps
  <2>5. HoldingInv'
    BY <1>26 DEF Crash, HoldingInv, ForgetScratch, RecoverySteps,
                 PublicationSteps
  <2> QED  BY <2>3, <2>4, <2>5
<1>27. ASSUME Boot PROVE TypeInv'
  <2>1. TypeOK'  BY <1>27 DEF Boot, TypeOK, repository, scratch, RecoverySteps
  <2>2. HoldingInv'
    BY <1>27 DEF Boot, HoldingInv, repository, RecoverySteps, PublicationSteps
  <2>3. QueueInv'
    BY <1>27 DEF Boot, HoldingInv, QueueInv, InOperation, PublicationSteps,
                 scratch
  <2> QED  BY <2>1, <2>2, <2>3
<1>28. ASSUME EditWorking PROVE TypeInv'
  <2>1. interference' \in [crash : 0..MaxCrashes, fault : 0..MaxFaults,
                           edit : 0..MaxEdits]
    BY <1>28, InterfereType DEF EditWorking
  <2>2. TypeOK'
    BY <1>28, <2>1 DEF EditWorking, TypeOK, repository, scratch
  <2>3. QueueInv'  BY <1>28 DEF EditWorking, QueueInv, InOperation, scratch
  <2>4. HoldingInv'  BY <1>28 DEF EditWorking, HoldingInv, repository, scratch
  <2> QED  BY <2>2, <2>3, <2>4
<1>29. CASE UNCHANGED vars
  <2>1. TypeOK'  BY <1>29 DEF TypeOK, vars, repository, scratch
  <2>2. QueueInv'  BY <1>29 DEF QueueInv, InOperation, vars, scratch
  <2>3. HoldingInv'  BY <1>29 DEF HoldingInv, vars, repository, scratch
  <2> QED  BY <2>1, <2>2, <2>3
<1> QED
  BY <1>1, <1>2, <1>3, <1>4, <1>5, <1>6, <1>7, <1>8, <1>9, <1>10, <1>11,
     <1>12, <1>13, <1>14, <1>15, <1>16, <1>17, <1>18, <1>19, <1>20, <1>21,
     <1>22, <1>23, <1>24, <1>25, <1>26, <1>27, <1>28, <1>29
     DEF Next, Operate, Publish, Recover, Fail

(* Every variable of the service keeps to its type, whatever is requested, *)
(* fails or crashes.                                                       *)
THEOREM TypeCorrect == Spec => []TypeOK
<1>1. TypeInv => TypeOK  BY DEF TypeInv
<1> QED  BY TypeInit, TypeNext, <1>1, PTL DEF Spec

-------------------------------------------------------------------------------
(* Records.                                                                *)

LEMMA NothingToWrite == NoWrites.puts = {} /\ NoWrites.deletes = {}
BY DEF NoWrites, ReplaceIndex, Indexed, IndexOf

(* What stamping an index with one commit gives.                           *)
LEMMA IndexOfOne ==
  ASSUME NEW layout, NEW c, NEW n \in Indexed(IndexOf(layout, c))
  PROVE  IndexOf(layout, c)[n] = c
BY DEF Indexed, IndexOf

(* Both records of a document in memory and both of a journal are typed.   *)
LEMMA PublicationType ==
  ASSUME NEW p \in Publication
  PROVE  /\ p.id \in CommitIds /\ p.commit \in Commit /\ p.commit # None
         /\ p.commit.parent \in Heads
         /\ p.before.document \in Document /\ p.after.document \in Document
         /\ p.before.nodes \in Index /\ p.after.nodes \in Index
         /\ p.before.working \in Contents
BY NoneIsNoRecord DEF Publication, Commit

(* A plan made now leads to its target.                                    *)
LEMMA PlanLeads ==
  ASSUME NEW t \in Index, nodes \in Index, UNCHANGED nodes,
         plan' = ReplaceIndex(nodes, t)
  PROVE  LeadsTo(t)'
<1>1. /\ plan'.target = t /\ plan'.puts = Indexed(t)
      /\ plan'.deletes = Indexed(nodes) \ Indexed(t)
  BY DEF ReplaceIndex
<1>2. \A n \in NodeIds \ (plan'.puts \cup plan'.deletes) : nodes'[n] = t[n]
  BY <1>1 DEF Indexed
<1> QED  BY <1>1, <1>2 DEF LeadsTo

(* A plan carried out has arrived.                                         *)
LEMMA PlanDone ==
  ASSUME NEW t \in Index, nodes \in Index, LeadsTo(t), IndexReplaced
  PROVE  nodes = t
BY DEF LeadsTo, IndexReplaced, Index

(* One write of the plan brings it one node nearer.                        *)
LEMMA WriteLeads ==
  ASSUME TypeOK, NEW t \in Index, LeadsTo(t), NEW n \in NodeIds,
         PutNode(n) \/ DeleteNode(n)
  PROVE  /\ LeadsTo(t)'
         /\ nodes'[n] = t[n]
         /\ \A m \in NodeIds \ {n} : nodes'[m] = nodes[m]
<1>1. nodes \in Index /\ plan \in
        [target : Index, puts : SUBSET NodeIds, deletes : SUBSET NodeIds]
  BY DEF TypeOK
<1>2. CASE PutNode(n)
  <2>1. /\ n \in plan.puts /\ nodes' = [nodes EXCEPT ![n] = plan.target[n]]
        /\ plan'.target = plan.target /\ plan'.puts = plan.puts \ {n}
        /\ plan'.deletes = plan.deletes
    BY <1>1, <1>2 DEF PutNode
  <2>2. /\ nodes'[n] = t[n]
        /\ \A m \in NodeIds \ {n} : nodes'[m] = nodes[m]
    BY <1>1, <2>1 DEF LeadsTo, Index
  <2> QED  BY <2>1, <2>2 DEF LeadsTo
<1>3. CASE DeleteNode(n)
  <2>1. /\ n \in plan.deletes /\ nodes' = [nodes EXCEPT ![n] = Absent]
        /\ plan'.target = plan.target /\ plan'.puts = plan.puts
        /\ plan'.deletes = plan.deletes \ {n}
    BY <1>1, <1>3 DEF DeleteNode
  <2>2. t[n] = Absent  BY <2>1 DEF LeadsTo, Indexed
  <2>3. /\ nodes'[n] = t[n]
        /\ \A m \in NodeIds \ {n} : nodes'[m] = nodes[m]
    BY <1>1, <2>1, <2>2 DEF Index
  <2> QED  BY <2>1, <2>3 DEF LeadsTo
<1> QED  BY <1>2, <1>3

------------------------------------------------------------------------------
(* Steps that leave the repository alone keep what is said of it.          *)
LEMMA QuietRepository ==
  ASSUME ObjectsInv, JournalInv, UNCHANGED repository
  PROVE  ObjectsInv' /\ JournalInv'
<1>1. ObjectsInv'  BY DEF ObjectsInv, repository
<1>2. JournalInv'  BY DEF JournalInv, WellFormed, Committed, repository
<1> QED  BY <1>1, <1>2

(* A service between two operations has nothing staged or half recovered.  *)
LEMMA Resting ==
  ASSUME pc' \in {"idle", "down", "admit"}, broken' = FALSE,
         pc' = "admit" => journal' = None
  PROVE  StagedInv' /\ PublishInv' /\ RecoverInv' /\ BrokenInv' /\ EntryInv'
BY DEF StagedInv, PublishInv, RecoverInv, BrokenInv, EntryInv, PublicationSteps,
       RecoverySteps

LEMMA Untouched ==
  ASSUME RecordsInv, UNCHANGED <<repository, pc, scratch>>
  PROVE  RecordsInv'
<1> USE DEF RecordsInv, repository, scratch
<1>1. ObjectsInv' /\ JournalInv'  BY QuietRepository
<1>2. StagedInv'  BY DEF StagedInv, WellFormed
<1>3. PublishInv'  BY DEF PublishInv, LeadsTo
<1>4. RecoverInv'
  BY DEF RecoverInv, LeadsTo, RecoverTarget, Committed
<1>5. BrokenInv' /\ EntryInv'
  BY DEF BrokenInv, EntryInv, Committed, IndexReplaced
<1> QED  BY <1>1, <1>2, <1>3, <1>4, <1>5

LEMMA SettleRests == ASSUME NEW s, Settle(s) PROVE pc' = "idle" /\ broken' = FALSE
BY DEF Settle, ForgetScratch
LEMMA GiveUpRests == ASSUME GiveUp PROVE pc' = "idle" /\ broken' = FALSE
BY SettleRests DEF GiveUp, ForgetScratch

(* Ending an operation without touching the repository.                    *)
LEMMA RestsQuietly ==
  ASSUME RecordsInv, UNCHANGED repository, pc' \in {"idle", "down"},
         broken' = FALSE
  PROVE  RecordsInv'
BY QuietRepository, Resting DEF RecordsInv

LEMMA RecordsInit == Init => RecordsInv
<1> SUFFICES ASSUME Init PROVE RecordsInv  OBVIOUS
<1>1. PICK layout \in Layouts : nodes = IndexOf(layout, None)  BY DEF Init
<1>2. \A n \in Indexed(nodes) : nodes[n] = None  BY <1>1, IndexOfOne
<1>3. document.head = None /\ document.nodeCount = Cardinality(Indexed(nodes))
  BY DEF Init
<1>4. SameVersion(document, nodes)  BY <1>2, <1>3 DEF SameVersion
<1>5. ObjectsInv  BY <1>3 DEF Init, ObjectsInv
<1>6. JournalInv  BY <1>4 DEF Init, JournalInv
<1>7. StagedInv /\ PublishInv /\ RecoverInv /\ BrokenInv /\ EntryInv
  BY DEF Init, StagedInv, PublishInv, RecoverInv, BrokenInv, EntryInv,
         PublicationSteps, RecoverySteps
<1> QED  BY <1>5, <1>6, <1>7 DEF RecordsInv

LEMMA BeginRecords ==
  ASSUME TypeInv, RecordsInv, BeginNext PROVE RecordsInv'
<1> USE DEF RecordsInv
<1>1. ObjectsInv' /\ JournalInv'  BY QuietRepository DEF BeginNext
<1>2. ~broken  BY DEF BeginNext, BrokenInv
<1>3. CASE journal = None
  <2>1. pc' = "admit" /\ broken' = FALSE /\ journal' = None
    BY <1>2, <1>3 DEF BeginNext, repository
  <2> QED  BY <1>1, <2>1, Resting
<1>4. CASE journal # None
  <2>1. /\ pc' = "recover" /\ cause' = "entry" /\ broken' = FALSE
        /\ journal' = journal
    BY <1>2, <1>4 DEF BeginNext, repository, TypeInv, TypeOK
  <2> QED  BY <1>1, <1>4, <2>1
           DEF StagedInv, PublishInv, RecoverInv, BrokenInv, EntryInv,
               PublicationSteps, RecoverySteps
<1> QED  BY <1>3, <1>4

LEMMA StageRecords ==
  ASSUME TypeInv, RecordsInv, pc = "admit", working # Missing,
         NEW content \in Contents, NEW template \in TemplateIds \cup {None},
         Stage(document.head, content, template)
  PROVE  RecordsInv'
<1> USE DEF RecordsInv, TypeInv
<1>1. PICK c \in CommitIds, layout \in Layouts :
        /\ Fresh(c)
        /\ staged' =
             [id |-> c,
              commit |-> [parent |-> document.head, content |-> content,
                          template |-> template],
              before |-> [document |-> document, nodes |-> nodes,
                          working |-> working],
              after |-> [document |->
                           [head |-> c, template |-> template,
                            nodeCount |->
                              Cardinality(Indexed(IndexOf(layout, c)))],
                         nodes |-> IndexOf(layout, c)]]
        /\ snapshots' = snapshots \cup {content}
        /\ pc' = "verify"
        /\ UNCHANGED <<document, nodes, commits, journal, cause, plan, broken>>
  BY DEF Stage
<1>2. journal = None /\ ~broken
  BY DEF EntryInv, BrokenInv
<1>3. ObjectsInv'  BY <1>1 DEF ObjectsInv
<1>4. JournalInv'  BY <1>1, <1>2 DEF JournalInv
<1>5. StagedInv'
  <2>1. SameVersion(document, nodes)  BY <1>2 DEF JournalInv
  <2>2. SameVersion(staged'.after.document, staged'.after.nodes)
    BY <1>1, IndexOfOne DEF SameVersion
  <2>3. commits[c] = None /\ document.head # c
    BY <1>1 DEF Fresh, ObjectsInv
  <2>4. WellFormed(staged)'
    BY <1>1, <2>1, <2>2, <2>3 DEF WellFormed
  <2>5. TypeInv'  BY StageType DEF TypeOK, Document
  <2>6. staged' # None  BY <1>1, <2>5 DEF HoldingInv
  <2> QED  BY <1>1, <2>3, <2>4, <2>6 DEF StagedInv
<1>6. PublishInv' /\ RecoverInv' /\ BrokenInv' /\ EntryInv'
  BY <1>1, <1>2 DEF PublishInv, RecoverInv, BrokenInv, EntryInv,
                    PublicationSteps, RecoverySteps
<1> QED  BY <1>3, <1>4, <1>5, <1>6

LEMMA VerifyRecords ==
  ASSUME TypeInv, RecordsInv, Verify PROVE RecordsInv'
<1> USE DEF RecordsInv, TypeInv
<1>1. ObjectsInv' /\ JournalInv'  BY QuietRepository DEF Verify
<1>2. staged \in Publication /\ ~broken /\ journal = None
  BY DEF Verify, TypeOK, HoldingInv, BrokenInv, EntryInv
<1>3. document = staged.before.document  BY DEF Verify, StagedInv
<1>4. staged' = staged
  BY <1>2, <1>3 DEF Verify, Publication
<1>5. StagedInv'
  BY <1>4 DEF Verify, StagedInv, WellFormed, repository
<1>6. PublishInv' /\ RecoverInv' /\ BrokenInv' /\ EntryInv'
  BY <1>2 DEF Verify, PublishInv, RecoverInv, BrokenInv, EntryInv,
              PublicationSteps, RecoverySteps, repository
<1> QED  BY <1>1, <1>5, <1>6

LEMMA PutJournalRecords ==
  ASSUME TypeInv, RecordsInv, PutJournal PROVE RecordsInv'
<1> USE DEF RecordsInv, TypeInv
<1>1. /\ staged # None /\ WellFormed(staged) /\ commits[staged.id] = None
      /\ document = staged.before.document /\ nodes = staged.before.nodes
  BY DEF PutJournal, StagedInv
<1>2. /\ journal' = staged /\ staged' = staged /\ pc' = "commit" /\ ~broken'
      /\ UNCHANGED <<document, nodes, commits>>
      /\ snapshots' = snapshots \cup {staged.before.working}
  BY DEF PutJournal, scratch, BrokenInv
<1>3. ObjectsInv'  BY <1>2 DEF ObjectsInv
<1>4. WellFormed(staged)'  BY <1>1, <1>2 DEF WellFormed
<1>5. ~Committed'  BY <1>1, <1>2 DEF Committed, WellFormed
<1>6. JournalInv'
  <2>1. WellFormed(journal)'  BY <1>2, <1>4 DEF WellFormed
  <2> QED  BY <1>1, <1>2, <1>5, <2>1 DEF JournalInv
<1>7. PublishInv'  BY <1>1, <1>2 DEF PublishInv
<1>8. StagedInv' /\ RecoverInv' /\ BrokenInv' /\ EntryInv'
  BY <1>2 DEF StagedInv, RecoverInv, BrokenInv, EntryInv, RecoverySteps
<1> QED  BY <1>3, <1>6, <1>7, <1>8

(* Storing the commit object of a well-formed publication, again or for    *)
(* the first time, leaves every stored version readable.                   *)
LEMMA CommitStored ==
  ASSUME TypeOK, ObjectsInv, JournalInv, journal # None,
         commits' = [commits EXCEPT ![journal.id] = journal.commit],
         UNCHANGED <<document, nodes, snapshots, journal>>
  PROVE  ObjectsInv' /\ JournalInv' /\ commits'[journal.id] # None
<1>1. journal \in Publication  BY DEF TypeOK
<1>2. /\ journal.id \in CommitIds /\ journal.commit # None
      /\ journal.commit \in Commit
  BY <1>1, PublicationType
<1>3. /\ WellFormed(journal)
      /\ document \in {journal.before.document, journal.after.document}
      /\ Committed => commits[journal.id] # None
  BY DEF JournalInv
<1>4. commits[journal.id] \in {None, journal.commit}
  BY <1>3 DEF WellFormed
<1>5. /\ commits'[journal.id] = journal.commit
      /\ \A c \in CommitIds \ {journal.id} : commits'[c] = commits[c]
  BY <1>2 DEF TypeOK
<1>6. ObjectsInv'
  <2>1. journal.commit.parent # None => commits'[journal.commit.parent] # None
    <3>1. CASE Committed
      <4>1. commits[journal.id] = journal.commit  BY <1>3, <1>4, <3>1
      <4>2. ParentOf(commits, journal.id) = journal.commit.parent
        BY <1>2, <4>1 DEF ParentOf
      <4> QED  BY <1>2, <1>5, <4>1, <4>2 DEF ObjectsInv, Commit, Heads
    <3>2. CASE ~Committed
      <4>1. document.head = journal.commit.parent
        BY <1>3, <3>2 DEF WellFormed, Committed
      <4> QED  BY <1>2, <1>5, <4>1 DEF ObjectsInv, Commit, Heads
    <3> QED  BY <3>1, <3>2
  <2>2. ASSUME NEW c \in CommitIds, commits'[c] # None
        PROVE  /\ commits'[c].content \in snapshots
               /\ ParentOf(commits', c) # None =>
                    commits'[ParentOf(commits', c)] # None
    <3>1. CASE c = journal.id
      BY <1>2, <1>3, <1>5, <2>1, <3>1 DEF ParentOf, WellFormed
    <3>2. CASE c # journal.id
      <4>1. commits'[c] = commits[c] /\ ParentOf(commits', c) = ParentOf(commits, c)
        BY <1>5, <3>2 DEF ParentOf
      <4>2. ParentOf(commits, c) \in Heads
        BY <2>2, <4>1 DEF ParentOf, TypeOK, Commit
      <4> QED  BY <1>2, <1>5, <2>2, <4>1, <4>2 DEF ObjectsInv, Heads
    <3> QED  BY <3>1, <3>2
  <2>3. document.head # None =>
          /\ commits'[document.head] # None
          /\ commits'[document.head].template = document.template
    <3>1. document.head \in Heads  BY DEF TypeOK, Document
    <3>2. document.head = journal.id =>
            commits[journal.id] = journal.commit
      BY <1>3, <1>4 DEF Committed
    <3> QED  BY <1>2, <1>5, <3>1, <3>2 DEF ObjectsInv, Heads
  <2> QED  BY <2>2, <2>3 DEF ObjectsInv
<1>7. JournalInv'
  <2>1. WellFormed(journal)'  BY <1>3, <1>5 DEF WellFormed
  <2> QED  BY <1>2, <1>5, <2>1 DEF JournalInv, Committed
<1> QED  BY <1>2, <1>5, <1>6, <1>7

LEMMA PutCommitRecords ==
  ASSUME TypeInv, RecordsInv, PutCommit PROVE RecordsInv'
<1> USE DEF RecordsInv, TypeInv
<1>1. /\ journal # None /\ journal = staged
      /\ document = staged.before.document /\ nodes = staged.before.nodes
  BY DEF PutCommit, PublishInv, PublicationSteps
<1>2. /\ commits' = [commits EXCEPT ![journal.id] = journal.commit]
      /\ UNCHANGED <<document, nodes, snapshots, journal, staged>>
      /\ pc' = "working" /\ ~broken'
  BY <1>1 DEF PutCommit, scratch, BrokenInv
<1>3. ObjectsInv' /\ JournalInv' /\ commits'[journal.id] # None
  BY <1>1, <1>2, CommitStored
<1>4. PublishInv'  BY <1>1, <1>2, <1>3 DEF PublishInv
<1>5. StagedInv' /\ RecoverInv' /\ BrokenInv' /\ EntryInv'
  BY <1>2 DEF StagedInv, RecoverInv, BrokenInv, EntryInv, RecoverySteps
<1> QED  BY <1>3, <1>4, <1>5

LEMMA ReplaceWorkingRecords ==
  ASSUME TypeInv, RecordsInv, ReplaceWorking PROVE RecordsInv'
<1> USE DEF RecordsInv, TypeInv
<1>1. ObjectsInv' /\ JournalInv'  BY QuietRepository DEF ReplaceWorking
<1>2. /\ journal # None /\ journal = staged /\ commits[staged.id] # None
      /\ document = staged.before.document /\ nodes = staged.before.nodes
  BY DEF ReplaceWorking, PublishInv, PublicationSteps
<1>3. staged \in Publication  BY <1>2 DEF TypeOK
<1>4. /\ UNCHANGED <<document, nodes, commits, journal, staged>>
      /\ plan' = ReplaceIndex(nodes, staged.after.nodes)
      /\ pc' = "index" /\ ~broken'
  BY <1>2 DEF ReplaceWorking, repository, BrokenInv
<1>5. LeadsTo(staged.after.nodes)'
  <2>1. LeadsTo(journal.after.nodes)'
    BY <1>2, <1>3, <1>4, PlanLeads, PublicationType DEF TypeOK, LeadsTo
  <2> QED  BY <1>2, <1>4, <2>1 DEF LeadsTo
<1>6. PublishInv'  BY <1>2, <1>4, <1>5 DEF PublishInv
<1>7. StagedInv' /\ RecoverInv' /\ BrokenInv' /\ EntryInv'
  BY <1>4 DEF StagedInv, RecoverInv, BrokenInv, EntryInv, RecoverySteps
<1> QED  BY <1>1, <1>6, <1>7

LEMMA WriteRecords ==
  ASSUME TypeInv, RecordsInv, NEW n \in NodeIds, PutNode(n) \/ DeleteNode(n)
  PROVE  RecordsInv'
<1> USE DEF RecordsInv, TypeInv
<1>1. /\ UNCHANGED <<document, commits, snapshots, journal, pc, staged, cause,
                     broken>>
      /\ pc \in {"index", "recoverIndex"} /\ ~IndexReplaced
  BY DEF PutNode, DeleteNode, IndexReplaced
<1>2. ~broken  BY <1>1 DEF BrokenInv
<1>3. journal # None /\ journal \in Publication
  BY <1>1 DEF HoldingInv, TypeOK, PublicationSteps, RecoverySteps
<1> DEFINE t == IF pc = "index" THEN journal.after.nodes ELSE RecoverTarget
<1>4. t \in {journal.before.nodes, journal.after.nodes}
  BY DEF RecoverTarget
<1>5. t \in Index  BY <1>3, <1>4, PublicationType
<1>6. LeadsTo(t)
  BY <1>1, <1>2 DEF PublishInv, RecoverInv, PublicationSteps, RecoverySteps
<1> HIDE DEF t
<1>7. /\ LeadsTo(t)' /\ nodes'[n] = t[n]
      /\ \A m \in NodeIds \ {n} : nodes'[m] = nodes[m]
  <2>1. PICK u : u = t  OBVIOUS
  <2>2. LeadsTo(u)' /\ nodes'[n] = u[n]
        /\ \A m \in NodeIds \ {n} : nodes'[m] = nodes[m]
    BY <1>5, <1>6, <2>1, WriteLeads
  <2>3. t' = t  BY <1>1 DEF t, RecoverTarget, Committed
  <2> QED  BY <2>1, <2>2, <2>3 DEF LeadsTo
<1>8. ObjectsInv'  BY <1>1 DEF ObjectsInv
<1>9. JournalInv'
  BY <1>1, <1>3, <1>4, <1>7 DEF JournalInv, WellFormed, Committed
<1>10. PublishInv' /\ RecoverInv'
  <2>1. CASE pc = "index"
    BY <1>1, <1>7, <2>1 DEF t, PublishInv, RecoverInv, RecoverySteps, LeadsTo,
                            PublicationSteps
  <2>2. CASE pc = "recoverIndex"
    BY <1>1, <1>7, <2>2 DEF t, PublishInv, RecoverInv, PublicationSteps,
                            LeadsTo, RecoverTarget, Committed, RecoverySteps
  <2> QED  BY <1>1, <2>1, <2>2
<1>11. StagedInv' /\ BrokenInv' /\ EntryInv'
  BY <1>1, <1>2 DEF StagedInv, BrokenInv, EntryInv
<1> QED  BY <1>8, <1>9, <1>10, <1>11

LEMMA UpdateRecords ==
  ASSUME TypeInv, RecordsInv, UpdateDocument PROVE RecordsInv'
<1> USE DEF RecordsInv, TypeInv
<1>1. /\ journal # None /\ journal = staged /\ commits[staged.id] # None
      /\ document = staged.before.document /\ LeadsTo(staged.after.nodes)
  BY DEF UpdateDocument, PublishInv, PublicationSteps
<1>2. staged \in Publication  BY <1>1 DEF TypeOK
<1>3. /\ UNCHANGED <<nodes, commits, snapshots, journal, staged>>
      /\ document' = staged.after.document
      /\ pc' = "clear" /\ ~broken'
  BY DEF UpdateDocument, scratch, BrokenInv
<1>4. nodes = staged.after.nodes
  BY <1>1, <1>2, PlanDone, PublicationType DEF UpdateDocument, TypeOK
<1>5. WellFormed(journal) /\ commits[journal.id] = journal.commit
  BY <1>1 DEF JournalInv, WellFormed
<1>6. ObjectsInv'
  BY <1>1, <1>2, <1>3, <1>5, PublicationType DEF ObjectsInv, WellFormed
<1>7. JournalInv'
  BY <1>1, <1>3, <1>5 DEF JournalInv, WellFormed, Committed
<1>8. PublishInv'  BY <1>1, <1>3, <1>4 DEF PublishInv
<1>9. StagedInv' /\ RecoverInv' /\ BrokenInv' /\ EntryInv'
  BY <1>3 DEF StagedInv, RecoverInv, BrokenInv, EntryInv, RecoverySteps
<1> QED  BY <1>6, <1>7, <1>8, <1>9

LEMMA ClearRecords ==
  ASSUME TypeInv, RecordsInv, ClearJournal PROVE RecordsInv'
<1> USE DEF RecordsInv, TypeInv
<1>1. /\ journal # None /\ journal = staged
      /\ document = staged.after.document /\ nodes = staged.after.nodes
  BY DEF ClearJournal, PublishInv, PublicationSteps
<1>2. SameVersion(document, nodes)  BY <1>1 DEF JournalInv, WellFormed
<1>3. /\ journal' = None /\ pc' = "idle" /\ broken' = FALSE
      /\ UNCHANGED <<document, nodes, commits, snapshots>>
  BY SettleRests DEF ClearJournal
<1>4. ObjectsInv'  BY <1>3 DEF ObjectsInv
<1>5. JournalInv'  BY <1>2, <1>3 DEF JournalInv
<1> QED  BY <1>3, <1>4, <1>5, Resting

LEMMA PublicationFailsRecords ==
  ASSUME TypeInv, RecordsInv, PublicationFails PROVE RecordsInv'
<1> USE DEF RecordsInv, TypeInv
<1>1. ObjectsInv' /\ JournalInv'  BY QuietRepository DEF PublicationFails
<1>2. /\ journal # None /\ journal = staged /\ ~broken
  BY DEF PublicationFails, PublishInv, BrokenInv, PublicationSteps
<1>3. /\ pc' = "recover" /\ ~broken' /\ journal' = journal /\ staged' = staged
  BY <1>2 DEF PublicationFails, repository
<1> QED  BY <1>1, <1>2, <1>3
         DEF StagedInv, PublishInv, RecoverInv, BrokenInv, EntryInv,
             PublicationSteps

------------------------------------------------------------------------------
LEMMA RecoverReadRecords ==
  ASSUME TypeInv, RecordsInv, RecoverRead PROVE RecordsInv'
<1> USE DEF RecordsInv, TypeInv
<1>1. ObjectsInv' /\ JournalInv'  BY QuietRepository DEF RecoverRead
<1>2. /\ journal # None
      /\ cause = "inline" => journal = staged
      /\ ~broken
  BY DEF RecoverRead, RecoverInv, BrokenInv, RecoverySteps
<1>3. journal \in Publication  BY <1>2 DEF TypeOK
<1>4. /\ UNCHANGED <<document, nodes, journal, staged, cause>>
      /\ plan' = ReplaceIndex(nodes, RecoverTarget)
      /\ pc' = "recoverCommit" /\ ~broken'
  BY <1>2 DEF RecoverRead, repository, RecoverTarget
<1>5. LeadsTo(RecoverTarget)'
  <2>1. PICK u : u = RecoverTarget  OBVIOUS
  <2>2. u \in Index  BY <1>3, <2>1, PublicationType DEF RecoverTarget
  <2>3. LeadsTo(u)'  BY <1>4, <2>1, <2>2, PlanLeads DEF TypeOK
  <2>4. RecoverTarget' = u
    BY <1>4, <2>1 DEF RecoverTarget, Committed
  <2> QED  BY <2>3, <2>4 DEF LeadsTo
<1>6. RecoverInv'  BY <1>2, <1>4, <1>5 DEF RecoverInv
<1>7. StagedInv' /\ PublishInv' /\ BrokenInv' /\ EntryInv'
  BY <1>4 DEF StagedInv, PublishInv, BrokenInv, EntryInv, PublicationSteps
<1> QED  BY <1>1, <1>6, <1>7

LEMMA RecoverCommitRecords ==
  ASSUME TypeInv, RecordsInv, RecoverCommit PROVE RecordsInv'
<1> USE DEF RecordsInv, TypeInv
<1>1. /\ journal # None
      /\ cause = "inline" => journal = staged
      /\ ~broken /\ LeadsTo(RecoverTarget)
  BY DEF RecoverCommit, RecoverInv, BrokenInv, RecoverySteps
<1>2. ObjectsInv' /\ JournalInv' /\ commits'[journal.id] # None
  BY <1>1, CommitStored DEF RecoverCommit
<1>3. CASE Resolvable
  <2>1. /\ pc' = "recoverIndex" /\ UNCHANGED <<requests, queue, scratch>>
        /\ UNCHANGED <<document, nodes, journal>>
    BY <1>3 DEF RecoverCommit
  <2>2. LeadsTo(RecoverTarget)'
    BY <1>1, <2>1 DEF LeadsTo, RecoverTarget, Committed, scratch
  <2>3. RecoverInv'
    BY <1>1, <1>2, <2>1, <2>2 DEF RecoverInv, scratch
  <2>4. StagedInv' /\ PublishInv' /\ BrokenInv' /\ EntryInv'
    BY <1>1, <2>1 DEF StagedInv, PublishInv, BrokenInv, EntryInv,
                      PublicationSteps, scratch
  <2> QED  BY <1>2, <2>3, <2>4
<1>4. CASE ~Resolvable
  <2>1. GiveUp  BY <1>4 DEF RecoverCommit
  <2> QED  BY <1>2, <2>1, GiveUpRests, Resting
<1> QED  BY <1>3, <1>4

LEMMA RestoreOriginalRecords ==
  ASSUME TypeInv, RecordsInv, RestoreOriginal PROVE RecordsInv'
<1> USE DEF RecordsInv, TypeInv
<1>1. ObjectsInv' /\ JournalInv'  BY QuietRepository DEF RestoreOriginal
<1>2. /\ journal # None
      /\ cause = "inline" => journal = staged
      /\ commits[journal.id] # None
      /\ ~broken => LeadsTo(RecoverTarget)
  BY DEF RestoreOriginal, RecoverInv, RecoverySteps
<1>3. journal \in Publication  BY <1>2 DEF TypeOK
<1>4. ~Committed /\ IndexReplaced  BY DEF RestoreOriginal
<1>5. ~broken => nodes = journal.before.nodes
  BY <1>2, <1>3, <1>4, PlanDone, PublicationType DEF RecoverTarget, TypeOK
<1>6. /\ pc' = "recoverClear" /\ UNCHANGED repository /\ UNCHANGED scratch
  BY DEF RestoreOriginal
<1>7. RecoverInv'
  BY <1>2, <1>4, <1>5, <1>6
     DEF RecoverInv, Committed, repository, scratch
<1>8. StagedInv' /\ PublishInv' /\ BrokenInv' /\ EntryInv'
  BY <1>4, <1>6 DEF StagedInv, PublishInv, BrokenInv, EntryInv, Committed,
                    IndexReplaced, PublicationSteps, repository, scratch
<1> QED  BY <1>1, <1>7, <1>8

LEMMA RecoverClearRecords ==
  ASSUME TypeInv, RecordsInv, RecoverClear PROVE RecordsInv'
<1> USE DEF RecordsInv, TypeInv
<1>1. journal # None /\ ~broken /\ pc \in RecoverySteps
  BY DEF RecoverClear, RecoverInv, RecoverySteps
<1>2. journal \in Publication  BY <1>1 DEF TypeOK
<1>3. /\ WellFormed(journal)
      /\ document \in {journal.before.document, journal.after.document}
  BY <1>1 DEF JournalInv
<1>4. SameVersion(document, nodes)
  <2>1. CASE pc = "recoverClear"
    <3>1. ~Committed /\ nodes = journal.before.nodes
      BY <1>1, <2>1 DEF RecoverInv
    <3>2. document = journal.before.document
      BY <1>3, <3>1 DEF WellFormed, Committed
    <3> QED  BY <1>3, <3>1, <3>2 DEF WellFormed
  <2>2. CASE pc # "recoverClear"
    <3>1. pc = "recoverIndex" /\ IndexReplaced /\ Committed
      BY <2>2 DEF RecoverClear
    <3>2. LeadsTo(journal.after.nodes)
      BY <1>1, <3>1 DEF RecoverInv, RecoverTarget
    <3>3. nodes = journal.after.nodes
      BY <1>2, <3>1, <3>2, PlanDone, PublicationType DEF TypeOK
    <3>4. document = journal.after.document
      BY <1>3, <3>1 DEF WellFormed, Committed
    <3> QED  BY <1>3, <3>3, <3>4 DEF WellFormed
  <2> QED  BY <2>1, <2>2
<1>5. /\ journal' = None
      /\ UNCHANGED <<document, nodes, commits, snapshots>>
  BY DEF RecoverClear
<1>6. pc' \in {"idle", "admit"} /\ broken' = FALSE
  <2>1. CASE cause = "inline"
    <3>1. Settle(IF Committed THEN "done" ELSE "failed")
      BY <2>1 DEF RecoverClear
    <3> QED  BY <3>1 DEF Settle, ForgetScratch
  <2>2. CASE cause # "inline"
    BY <2>2 DEF RecoverClear, ForgetScratch, TypeOK
  <2> QED  BY <2>1, <2>2
<1>7. ObjectsInv'  BY <1>5 DEF ObjectsInv
<1>8. JournalInv'  BY <1>4, <1>5 DEF JournalInv
<1> QED  BY <1>5, <1>6, <1>7, <1>8, Resting

LEMMA RollbackIndexFailsRecords ==
  ASSUME TypeInv, RecordsInv, RollbackIndexFails PROVE RecordsInv'
<1> USE DEF RecordsInv, TypeInv
<1>1. ObjectsInv' /\ JournalInv'  BY QuietRepository DEF RollbackIndexFails
<1>2. /\ journal # None
      /\ cause = "inline" => journal = staged
      /\ commits[journal.id] # None
  BY DEF RollbackIndexFails, RecoverInv, RecoverySteps
<1>3. /\ pc = "recoverIndex" /\ pc' = pc /\ broken' = TRUE /\ ~Committed
      /\ plan' = NoWrites
      /\ UNCHANGED <<document, commits, journal, cause, staged>>
  BY DEF RollbackIndexFails, repository
<1>4. RecoverInv' /\ BrokenInv'
  BY <1>2, <1>3, NothingToWrite
     DEF RecoverInv, BrokenInv, Committed, IndexReplaced
<1>5. StagedInv' /\ PublishInv' /\ EntryInv'
  BY <1>3 DEF StagedInv, PublishInv, EntryInv, PublicationSteps
<1> QED  BY <1>1, <1>4, <1>5

LEMMA BootRecords ==
  ASSUME TypeInv, RecordsInv, Boot PROVE RecordsInv'
<1> USE DEF RecordsInv, TypeInv
<1>1. ObjectsInv' /\ JournalInv'  BY QuietRepository DEF Boot
<1>2. ~broken /\ cause = "boot"  BY DEF Boot, BrokenInv, HoldingInv
<1>3. ~broken' /\ cause' = "boot" /\ journal' = journal
  BY <1>2 DEF Boot, repository, scratch
<1>4. pc' = IF journal = None THEN "idle" ELSE "recover"  BY DEF Boot
<1> QED  BY <1>1, <1>3, <1>4
         DEF StagedInv, PublishInv, RecoverInv, BrokenInv, EntryInv,
             PublicationSteps, RecoverySteps

------------------------------------------------------------------------------
LEMMA RecordsNext == TypeInv /\ RecordsInv /\ [Next]_vars => RecordsInv'
<1> SUFFICES ASSUME TypeInv, RecordsInv, [Next]_vars PROVE RecordsInv'
  OBVIOUS
<1>1. ASSUME NEW r \in Requests, Enqueue(r) PROVE RecordsInv'
  BY <1>1, Untouched DEF Enqueue
<1>2. ASSUME StageSubmit PROVE RecordsInv'
  <2>1. PICK content \in Contents, template \in TemplateIds \cup {None} :
          Stage(document.head, content, template)
    BY <1>2 DEF StageSubmit, MaySubmit
  <2> QED  BY <1>2, <2>1, StageRecords DEF StageSubmit, MaySubmit
<1>3. ASSUME StageCapture PROVE RecordsInv'
  <2>1. working \in Contents /\ document.template \in TemplateIds \cup {None}
    BY <1>3 DEF StageCapture, MayCapture, TypeInv, TypeOK, Document
  <2> QED  BY <1>3, <2>1, StageRecords DEF StageCapture, MayCapture
<1>4. ASSUME StageRevert PROVE RecordsInv'
  <2>1. commits[Active.target] \in Commit
    BY <1>4 DEF StageRevert, MayRevert, TypeInv, TypeOK, Reachable,
                ReachableFrom
  <2>2. /\ commits[Active.target].content \in Contents
        /\ commits[Active.target].template \in TemplateIds \cup {None}
    BY <2>1 DEF Commit
  <2> QED  BY <1>4, <2>2, StageRecords DEF StageRevert, MayRevert, MaySubmit
<1>5. ASSUME RestoreWorking \/ Refuse \/ Abandon \/ RejectChanged
      PROVE  RecordsInv'
  BY <1>5, SettleRests, RestsQuietly
     DEF RestoreWorking, Refuse, Abandon, RejectChanged
<1>6. ASSUME RecoverUnrecognized \/ RecoverFails PROVE RecordsInv'
  BY <1>6, GiveUpRests, RestsQuietly DEF RecoverUnrecognized, RecoverFails
<1>7. ASSUME Crash PROVE RecordsInv'
  BY <1>7, RestsQuietly DEF Crash, ForgetScratch
<1>8. ASSUME EditWorking \/ UNCHANGED vars PROVE RecordsInv'
  BY <1>8, Untouched DEF EditWorking, vars
<1>9. ASSUME NEW n \in NodeIds, PutNode(n) \/ DeleteNode(n) PROVE RecordsInv'
  BY <1>9, WriteRecords
<1> QED
  BY <1>1, <1>2, <1>3, <1>4, <1>5, <1>6, <1>7, <1>8, <1>9, BeginRecords,
     VerifyRecords, PutJournalRecords, PutCommitRecords, ReplaceWorkingRecords,
     UpdateRecords, ClearRecords, PublicationFailsRecords, RecoverReadRecords,
     RecoverCommitRecords, RestoreOriginalRecords, RecoverClearRecords,
     RollbackIndexFailsRecords, BootRecords
     DEF Next, Operate, Publish, Recover, Fail

(* The durable records agree with one another in every state the service   *)
(* can reach: RecordsInv is an inductive invariant together with the types.*)
THEOREM RecordsConsistent == Spec => [](TypeInv /\ RecordsInv)
<1>1. Init => TypeInv /\ RecordsInv  BY TypeInit, RecordsInit
<1>2. TypeInv /\ RecordsInv /\ [Next]_vars => (TypeInv /\ RecordsInv)'
  BY TypeNext, RecordsNext
<1> QED  BY <1>1, <1>2, PTL DEF Spec

(* A document is always bound to the template its head was gated by and,   *)
(* with no publication pending, every node record was stamped by the head  *)
(* and the document counts them, whatever failed or crashed before: the    *)
(* publication and its recovery of publishCommit and recoverPublication.   *)
THEOREM RecordsCorrect == Spec => []RecordsBelongToHead
<1>1. TypeInv /\ RecordsInv => RecordsBelongToHead
  <2> SUFFICES ASSUME TypeInv, RecordsInv PROVE RecordsBelongToHead  OBVIOUS
  <2>1. document.head # None => document.template = commits[document.head].template
    BY DEF RecordsInv, ObjectsInv
  <2>2. journal = None =>
          /\ \A n \in Indexed(nodes) : nodes[n] = document.head
          /\ document.nodeCount = Cardinality(Indexed(nodes))
    BY DEF RecordsInv, JournalInv, SameVersion
  <2> QED  BY <2>1, <2>2 DEF RecordsBelongToHead
<1> QED  BY <1>1, RecordsConsistent, PTL

------------------------------------------------------------------------------
(* The Working DOCX, while no editor has written it.                       *)

(* A step that is no editor's leaves the count of edits alone.             *)
LEMMA Unedited ==
  ASSUME TypeInv,
         \/ Interfere("fault", MaxFaults) \/ Interfere("crash", MaxCrashes)
         \/ UNCHANGED interference
  PROVE  interference'.edit = interference.edit
BY DEF TypeInv, TypeOK, Interfere

LEMMA Edited ==
  ASSUME TypeInv, Interfere("edit", MaxEdits) PROVE interference'.edit # 0
BY DEF TypeInv, TypeOK, Interfere

(* Where an operation has ended or not yet begun nothing but the journal   *)
(* and the file matter.                                                    *)
LEMMA FileRests ==
  ASSUME TypeInv, FileInv, interference'.edit = interference.edit,
         UNCHANGED <<document, commits, journal, working>>,
         pc' \in {"idle", "admit", "down", "recover"}
  PROVE  FileInv'
BY DEF FileInv, WorkingMatchesHead, HeadContent, Committed

(* A publication and a recovery under way look at what they have in hand.  *)
LEMMA FileStays ==
  ASSUME TypeInv, FileInv, interference'.edit = interference.edit,
         UNCHANGED <<document, commits, journal, working, pc, staged, seen>>
  PROVE  FileInv'
BY DEF FileInv, WorkingMatchesHead, HeadContent, Committed

(* Storing the commit of a publication changes no commit it starts from.   *)
LEMMA FileCommitStored ==
  ASSUME TypeInv, RecordsInv, FileInv, interference'.edit = interference.edit,
         journal # None, commits' = [commits EXCEPT ![journal.id] = journal.commit],
         UNCHANGED <<document, journal, working>>
  PROVE  interference'.edit = 0 =>
           /\ working' # Missing
           /\ Committed' => working' = journal'.commit.content
           /\ working' \in {journal'.before.working, journal'.commit.content}
           /\ journal'.before.document.head # None =>
                commits'[journal'.before.document.head].content = journal'.before.working
<1>1. journal \in Publication
  BY DEF TypeInv, TypeOK
<1>2. journal.before.document.head # journal.id /\ journal.before.document.head \in Heads
  BY <1>1, PublicationType DEF RecordsInv, JournalInv, WellFormed, Document
<1>3. journal.before.document.head # None =>
        commits'[journal.before.document.head] = commits[journal.before.document.head]
  BY <1>2 DEF TypeInv, TypeOK, Heads
<1> QED  BY <1>3 DEF FileInv, Committed

LEMMA StageFile ==
  ASSUME TypeInv, RecordsInv, FileInv, pc = "admit", working # Missing,
         NEW expected \in Heads, NEW content \in Contents,
         NEW template \in TemplateIds \cup {None}, Stage(expected, content, template)
  PROVE  FileInv'
<1>1. /\ staged'.before.working = working /\ pc' = "verify"
      /\ UNCHANGED <<document, commits, journal, working, interference>>
  BY DEF Stage
<1>2. journal = None
  BY DEF RecordsInv, EntryInv
<1> QED  BY <1>1, <1>2 DEF FileInv, WorkingMatchesHead, HeadContent

LEMMA PutJournalFile ==
  ASSUME TypeInv, RecordsInv, FileInv, PutJournal PROVE FileInv'
<1>1. /\ journal = None /\ staged # None /\ WellFormed(staged)
      /\ document = staged.before.document
  BY DEF PutJournal, RecordsInv, EntryInv, StagedInv
<1>2. document.head # staged.id
  BY <1>1 DEF WellFormed
<1>3. /\ journal' = staged /\ pc' = "commit"
      /\ UNCHANGED <<document, commits, working, interference, staged>>
  BY DEF PutJournal, scratch
<1>4. interference.edit = 0 => /\ working # Missing /\ WorkingMatchesHead
                               /\ working = staged.before.working
  BY <1>1 DEF FileInv, PutJournal
<1> QED  BY <1>1, <1>2, <1>3, <1>4 DEF FileInv, Committed, WorkingMatchesHead, HeadContent

LEMMA PutCommitFile ==
  ASSUME TypeInv, RecordsInv, FileInv, PutCommit PROVE FileInv'
<1>1. journal # None /\ journal = staged
  BY DEF PutCommit, RecordsInv, PublishInv, PublicationSteps
<1>2. /\ commits' = [commits EXCEPT ![journal.id] = journal.commit]
      /\ pc = "commit" /\ pc' = "working"
      /\ UNCHANGED <<document, journal, working, interference, staged>>
  BY <1>1 DEF PutCommit, scratch
<1>3. interference.edit = 0 => working = staged.before.working
  BY <1>2 DEF FileInv
<1> QED  BY <1>1, <1>2, <1>3, FileCommitStored DEF FileInv

LEMMA ReplaceWorkingFile ==
  ASSUME TypeInv, RecordsInv, FileInv, ReplaceWorking PROVE FileInv'
<1>1. /\ journal # None /\ journal = staged /\ staged \in Publication
      /\ document = staged.before.document
  BY DEF ReplaceWorking, RecordsInv, PublishInv, PublicationSteps, TypeInv, TypeOK
<1>2. /\ working' = staged.commit.content /\ pc' = "index"
      /\ UNCHANGED <<document, commits, journal, interference, staged>>
  BY DEF ReplaceWorking, repository
<1>3. staged.commit.content # Missing
  BY <1>1, PublicationType DEF Commit
<1>4. ~Committed
  BY <1>1 DEF RecordsInv, JournalInv, WellFormed, Committed
<1> QED  BY <1>1, <1>2, <1>3, <1>4 DEF FileInv, Committed

LEMMA UpdateFile ==
  ASSUME TypeInv, RecordsInv, FileInv, UpdateDocument PROVE FileInv'
<1>1. journal # None /\ journal = staged
  BY DEF UpdateDocument, RecordsInv, PublishInv, PublicationSteps
<1>2. /\ pc = "index" /\ pc' = "clear"
      /\ UNCHANGED <<commits, journal, working, interference, staged>>
  BY DEF UpdateDocument, scratch
<1>3. interference.edit = 0 => working = journal.commit.content
  BY <1>1, <1>2 DEF FileInv
<1> QED  BY <1>1, <1>2, <1>3 DEF FileInv

(* Once its journal is gone the document's head is the side the file is on.*)
LEMMA SideMatches ==
  ASSUME TypeInv, RecordsInv, FileInv, journal # None, interference.edit = 0,
         \/ Committed
         \/ ~Committed /\ working = journal.before.working
  PROVE  WorkingMatchesHead
<1>1. WellFormed(journal) /\ document \in {journal.before.document, journal.after.document}
  BY DEF RecordsInv, JournalInv
<1>2. CASE Committed
  <2>1. commits[journal.id] = journal.commit
    BY <1>1, <1>2 DEF RecordsInv, JournalInv, WellFormed
  <2> QED  BY <1>2, <2>1 DEF FileInv, WorkingMatchesHead, HeadContent, Committed
<1>3. CASE ~Committed
  <2>1. document = journal.before.document
    BY <1>1, <1>3 DEF WellFormed, Committed
  <2> QED  BY <1>3, <2>1 DEF FileInv, WorkingMatchesHead, HeadContent
<1> QED  BY <1>2, <1>3

LEMMA ClearFile ==
  ASSUME TypeInv, RecordsInv, FileInv, ClearJournal PROVE FileInv'
<1>1. journal # None /\ journal = staged /\ document = staged.after.document
  BY DEF ClearJournal, RecordsInv, PublishInv, PublicationSteps
<1>2. Committed
  BY <1>1 DEF RecordsInv, JournalInv, WellFormed, Committed
<1>3. interference.edit = 0 => WorkingMatchesHead
  BY <1>1, <1>2, SideMatches
<1>4. /\ journal' = None /\ pc' = "idle"
      /\ UNCHANGED <<document, commits, working, interference>>
  BY DEF ClearJournal, Settle
<1> QED  BY <1>3, <1>4 DEF FileInv, WorkingMatchesHead, HeadContent

LEMMA RecoverCommitFile ==
  ASSUME TypeInv, RecordsInv, FileInv, RecoverCommit PROVE FileInv'
<1>1. journal # None /\ pc = "recoverCommit"
  BY DEF RecoverCommit, RecordsInv, RecoverInv, RecoverySteps
<1>2. /\ commits' = [commits EXCEPT ![journal.id] = journal.commit]
      /\ UNCHANGED <<document, journal, working, interference>>
  BY DEF RecoverCommit
<1>3. (pc' = "recoverIndex" /\ seen' = seen) \/ pc' = "idle"
  BY GiveUpRests DEF RecoverCommit, scratch
<1>4. interference.edit = 0 => working = seen
  BY <1>1 DEF FileInv
<1> QED  BY <1>1, <1>2, <1>3, <1>4, FileCommitStored DEF FileInv

LEMMA RestoreOriginalFile ==
  ASSUME TypeInv, RecordsInv, FileInv, RestoreOriginal PROVE FileInv'
<1>1. journal # None /\ pc = "recoverIndex" /\ ~Committed
  BY DEF RestoreOriginal, RecordsInv, RecoverInv, RecoverySteps
<1>2. /\ pc' = "recoverClear"
      /\ UNCHANGED <<document, commits, journal, interference>>
  BY DEF RestoreOriginal, repository
<1>3. interference.edit = 0 => working' = journal.before.working
  BY <1>1 DEF FileInv, RestoreOriginal
<1>4. journal.before.working # Missing
  BY <1>1, PublicationType DEF TypeInv, TypeOK
<1> QED  BY <1>1, <1>2, <1>3, <1>4 DEF FileInv, Committed

LEMMA RecoverClearFile ==
  ASSUME TypeInv, RecordsInv, FileInv, RecoverClear PROVE FileInv'
<1>1. journal # None
  BY DEF RecoverClear, RecordsInv, RecoverInv, RecoverySteps
<1>2. interference.edit = 0 => WorkingMatchesHead
  <2>1. CASE pc = "recoverClear"
    BY <1>1, <2>1, SideMatches DEF FileInv, RecordsInv, RecoverInv
  <2>2. CASE pc # "recoverClear"
    BY <1>1, <2>2, SideMatches DEF RecoverClear
  <2> QED  BY <2>1, <2>2
<1>3. pc' \in {"idle", "admit"}
  BY DEF RecoverClear, Settle, TypeInv, TypeOK
<1>4. journal' = None /\ UNCHANGED <<document, commits, working, interference>>
  BY DEF RecoverClear
<1> QED  BY <1>1, <1>2, <1>3, <1>4 DEF FileInv, WorkingMatchesHead, HeadContent

LEMMA FileInit == Init => FileInv
BY DEF Init, FileInv, WorkingMatchesHead

LEMMA FileNext == TypeInv /\ RecordsInv /\ FileInv /\ [Next]_vars => FileInv'
<1> SUFFICES ASSUME TypeInv, RecordsInv, FileInv, [Next]_vars PROVE FileInv'
  OBVIOUS
<1>1. ASSUME NEW r \in Requests, Enqueue(r) PROVE FileInv'
  BY <1>1, FileStays DEF Enqueue, repository, scratch
<1>2. ASSUME BeginNext PROVE FileInv'
  BY <1>2, FileRests DEF BeginNext, repository
<1>3. ASSUME StageSubmit \/ StageCapture \/ StageRevert PROVE FileInv'
  <2>1. document.head \in Heads /\ document.template \in TemplateIds \cup {None}
    BY DEF TypeInv, TypeOK, Document
  <2>2. CASE StageSubmit
    BY <2>1, <2>2, StageFile DEF StageSubmit, MaySubmit
  <2>3. CASE StageCapture
    BY <2>1, <2>3, StageFile DEF StageCapture, MayCapture, TypeInv, TypeOK
  <2>4. CASE StageRevert
    <3>1. commits[Active.target] \in Commit
      BY <2>4 DEF StageRevert, MayRevert, TypeInv, TypeOK, Reachable, ReachableFrom
    <3> QED  BY <2>1, <2>4, <3>1, StageFile DEF StageRevert, MayRevert, MaySubmit, Commit
  <2> QED  BY <1>3, <2>2, <2>3, <2>4
<1>4. ASSUME RestoreWorking PROVE FileInv'
  <2>1. working = Missing /\ UNCHANGED interference
    BY <1>4 DEF RestoreWorking, MayRestore
  <2> QED  BY <2>1 DEF FileInv
<1>5. ASSUME Refuse \/ Abandon \/ RejectChanged PROVE FileInv'
  <2>1. pc' = "idle" /\ UNCHANGED <<repository, working>>
    BY <1>5, SettleRests DEF Refuse, Abandon, RejectChanged
  <2>2. interference'.edit = interference.edit
    BY <1>5, Unedited DEF Refuse, Abandon, RejectChanged
  <2> QED  BY <2>1, <2>2, FileRests DEF repository
<1>6. ASSUME Verify PROVE FileInv'
  <2>1. staged'.before.working = staged.before.working
    BY <1>6 DEF Verify, TypeInv, TypeOK, HoldingInv, Publication
  <2>2. /\ pc = "verify" /\ pc' = "journal"
        /\ UNCHANGED <<document, commits, journal, working, interference>>
    BY <1>6 DEF Verify, repository
  <2> QED  BY <2>1, <2>2 DEF FileInv, WorkingMatchesHead, HeadContent, Committed
<1>7. ASSUME NEW n \in NodeIds, PutNode(n) \/ DeleteNode(n) PROVE FileInv'
  BY <1>7, FileStays DEF PutNode, DeleteNode
<1>8. ASSUME PublicationFails PROVE FileInv'
  BY <1>8, Unedited, FileRests DEF PublicationFails, repository
<1>9. ASSUME RecoverRead PROVE FileInv'
  <2>1. /\ seen' = working /\ pc' = "recoverCommit"
        /\ UNCHANGED <<document, commits, journal, working, interference>>
    BY <1>9 DEF RecoverRead, repository
  <2> QED  BY <2>1 DEF FileInv, WorkingMatchesHead, HeadContent, Committed
<1>10. ASSUME RecoverUnrecognized \/ RecoverFails PROVE FileInv'
  <2>1. pc' = "idle" /\ UNCHANGED <<repository, working>>
    BY <1>10, GiveUpRests DEF RecoverUnrecognized, RecoverFails
  <2>2. interference'.edit = interference.edit
    BY <1>10, Unedited DEF RecoverUnrecognized, RecoverFails
  <2> QED  BY <2>1, <2>2, FileRests DEF repository
<1>11. ASSUME RollbackIndexFails PROVE FileInv'
  BY <1>11, Unedited, FileStays DEF RollbackIndexFails, repository
<1>12. ASSUME Crash PROVE FileInv'
  BY <1>12, Unedited, FileRests DEF Crash, repository
<1>13. ASSUME Boot PROVE FileInv'
  BY <1>13, FileRests DEF Boot, repository
<1>14. ASSUME EditWorking PROVE FileInv'
  BY <1>14, Edited DEF EditWorking, FileInv
<1>15. ASSUME UNCHANGED vars PROVE FileInv'
  BY <1>15, FileStays DEF vars, repository, scratch
<1> QED
  BY <1>1, <1>2, <1>3, <1>4, <1>5, <1>6, <1>7, <1>8, <1>9, <1>10, <1>11, <1>12, <1>13,
     <1>14, <1>15, PutJournalFile, PutCommitFile, ReplaceWorkingFile, UpdateFile,
     ClearFile, RecoverCommitFile, RestoreOriginalFile, RecoverClearFile
     DEF Next, Operate, Publish, Recover, Fail

(* Unless an editor has touched it, the Working DOCX is the head's with no *)
(* publication pending, and otherwise what recovery needs to finish or to  *)
(* undo the publication: publishCommit and recoverPublication.             *)
THEOREM WorkingCorrect == Spec => []WorkingRecoverable
<1>1. TypeInv /\ RecordsInv /\ FileInv => WorkingRecoverable
  <2> SUFFICES ASSUME TypeInv, RecordsInv, FileInv, interference.edit = 0, journal # None
               PROVE  /\ Recognizable
                      /\ \/ Committed /\ working = journal.commit.content
                         \/ /\ document.head = journal.before.document.head
                            /\ working \in {journal.before.working, journal.commit.content}
    BY DEF FileInv, WorkingRecoverable
  <2>1. /\ WellFormed(journal) /\ journal.before.working \in snapshots
        /\ document \in {journal.before.document, journal.after.document}
        /\ \A n \in NodeIds : nodes[n] \in {journal.before.nodes[n], journal.after.nodes[n]}
    BY DEF RecordsInv, JournalInv
  <2>2. Recognizable
    BY <2>1 DEF Recognizable, WellFormed, FileInv
  <2>3. Committed \/ document.head = journal.before.document.head
    BY <2>1 DEF WellFormed, Committed
  <2> QED  BY <2>2, <2>3 DEF FileInv
<1>2. Init => TypeInv /\ RecordsInv /\ FileInv
  BY TypeInit, RecordsInit, FileInit
<1>3. TypeInv /\ RecordsInv /\ FileInv /\ [Next]_vars => (TypeInv /\ RecordsInv /\ FileInv)'
  BY TypeNext, RecordsNext, FileNext
<1> QED  BY <1>1, <1>2, <1>3, PTL DEF Spec

(* The steps that write the Working DOCX are those of the service's own    *)
(* publication, its rollback and recoverMissingWorking, and the editors'.  *)
LEMMA WritesFile ==
  ASSUME TypeInv, [Next]_vars, working' # working,
         interference'.edit = interference.edit
  PROVE  RestoreWorking \/ ReplaceWorking \/ RestoreOriginal
<1>1. ASSUME EditWorking PROVE FALSE
  BY <1>1 DEF EditWorking, Interfere, TypeInv, TypeOK
<1>2. ASSUME Operate, ~RestoreWorking PROVE FALSE
  BY <1>2 DEF Operate, BeginNext, StageSubmit, StageCapture, StageRevert, Stage, Refuse,
     Verify, RejectChanged
<1>3. ASSUME Publish, ~ReplaceWorking PROVE FALSE
  BY <1>3 DEF Publish, PutJournal, PutCommit, PutNode, DeleteNode, UpdateDocument,
     ClearJournal
<1>4. ASSUME Recover, ~RestoreOriginal PROVE FALSE
  BY <1>4 DEF Recover, RecoverRead, RecoverUnrecognized, RecoverCommit, RecoverClear
<1>5. ASSUME \/ \E r \in Requests : Enqueue(r)
             \/ Fail \/ Crash \/ Boot \/ UNCHANGED vars
      PROVE  FALSE
  BY <1>5 DEF Enqueue, Fail, Abandon, PublicationFails, RollbackIndexFails, RecoverFails,
     Crash, Boot, vars
<1> QED  BY <1>1, <1>2, <1>3, <1>4, <1>5 DEF Next

(* Whatever editors do, the service fills a missing Working DOCX with the  *)
(* head's bytes and nothing else, and replaces one only by a side of the   *)
(* publication it has retained.                                            *)
THEOREM WritesCorrect == Spec => WritesAreVersions
<1>1. TypeInv /\ RecordsInv /\ [Next]_vars =>
        [working' # working /\ interference'.edit = interference.edit =>
           IF working = Missing THEN journal = None /\ working' = HeadContent
           ELSE /\ journal # None
                /\ working' \in {journal.before.working, journal.commit.content}]_vars
  <2> SUFFICES ASSUME TypeInv, RecordsInv, [Next]_vars, working' # working,
                      interference'.edit = interference.edit
               PROVE  IF working = Missing THEN journal = None /\ working' = HeadContent
                      ELSE /\ journal # None
                           /\ working' \in {journal.before.working, journal.commit.content}
    OBVIOUS
  <2>1. CASE RestoreWorking
    BY <2>1 DEF RestoreWorking, MayRestore, RecordsInv, EntryInv
  <2>2. CASE ReplaceWorking
    BY <2>2 DEF ReplaceWorking, RecordsInv, PublishInv, PublicationSteps
  <2>3. CASE RestoreOriginal
    BY <2>3 DEF RestoreOriginal, RecordsInv, RecoverInv, RecoverySteps
  <2> QED  BY <2>1, <2>2, <2>3, WritesFile
<1> QED  BY <1>1, RecordsConsistent, PTL DEF Spec, WritesAreVersions
================================================================================
