--------------------------- MODULE PaperImportsProofs ---------------------------
(***************************************************************************)
(* Imports keep to their own files and are taken back completely or not at *)
(* all, for any number of imports, names, formats, nodes and failures.     *)
(***************************************************************************)
EXTENDS PaperImports, TLAPS

(* Where an import has its source, its Working copy, and neither.          *)
WithSource ==
  Committing \cup {"link", "unlink", "seal", "store", "rollback", "unnodes", "unsource",
                   "done", "refused"}
WithWorking ==
  Committing \cup {"seal", "store", "rollback", "unnodes", "unsource", "unwork",
                   "done", "refused"}
WithNothing == {"new", "copy", "renodes", "rerecord"}

(* An import's files carry the name it is at; two imports never share one  *)
(* because a file has one creator.                                         *)
OwnName(i) ==
  /\ \A s \in Names \X Formats : sources[s] = i => s = Source(i)
  /\ \A n \in Names : works[n] = i => n = name[i]

(* Which files it has follows from its step, and after a failure from      *)
(* whether removing one ever failed.                                       *)
FilesOK(i) ==
  /\ OwnName(i)
  /\ pc[i] \in WithSource => name[i] \in Names /\ sources[Source(i)] = i
  /\ pc[i] \in WithWorking => name[i] \in Names /\ works[name[i]] = i
  /\ pc[i] \in {"link", "unlink"} => \A n \in Names : works[n] # i
  /\ pc[i] = "unwork" => \A s \in Names \X Formats : sources[s] # i
  /\ pc[i] \in WithNothing => ~Owns(i)
  /\ pc[i] = "failed" /\ interference.fault = 0 => ~Owns(i)

(* The record names the files; one without its files is being taken back.  *)
RecordOK(i) ==
  /\ Tracked(i) =>
       /\ record[i].name = name[i] /\ name[i] \in Names
       /\ pc[i] \in Committing \cup (Ended \ {"failed"}) \cup
            {"rollback", "unsource", "unwork", "renodes", "rerecord"}
  /\ pc[i] \in Committing \cup {"rollback", "renodes", "rerecord", "done", "refused"} =>
       Tracked(i)
  /\ Tracked(i) /\ pc[i] = "lost" => sources[Source(i)] = i /\ works[name[i]] = i

(* Before the record there are no nodes until it is stored, after it all   *)
(* of them; a compensation has the ones in place still to delete, unless   *)
(* it has trouble to tell of.                                              *)
NodesOK(i) ==
  /\ pc[i] \in {"new", "copy", "link", "unlink", "seal", "failed"} => nodes[i] = {}
  /\ Tracked(i) /\ ~Undone(i) => nodes[i] = Parts
  /\ pc[i] \in Compensating /\ (Tracked(i) \/ ~trouble[i]) => nodes[i] \subseteq left[i]
  /\ (pc[i] \in {"unsource", "unwork"} /\ ~Tracked(i)) \/ pc[i] = "rerecord" => left[i] = {}

(* Others commit a document only outside the lease of its import's         *)
(* compensation, and nothing is compensated that anyone has published.     *)
CommitOK(i) ==
  /\ other[i] # "idle" => Tracked(i) /\ pc[i] \in Ended \ {"failed"}
  /\ journal[i] \/ (Tracked(i) /\ record[i].head) => Tracked(i) /\ pc[i] \notin Compensating

ImportOK(i) == FilesOK(i) /\ RecordOK(i) /\ NodesOK(i) /\ CommitOK(i)
ImportsInv == TypeOK /\ \A i \in Imports : ImportOK(i)

(* A step of one import, of its compensation, or of a commit of its        *)
(* document.                                                               *)
ImportStep(i) ==
  Stage(i) \/ StageFails(i) \/ Import(i) \/ OtherCommit(i) \/ Recover(i)

USE DEF files, records, locals

------------------------------------------------------------------------------
LEMMA Bounds ==
  MaxName \in Nat /\ MaxCrashes \in Nat /\ MaxFaults \in Nat /\ MaxForeign \in Nat
BY ImportsAssumption DEF ImportsAssumption

LEMMA Interference ==
  ASSUME TypeOK,
         \/ Interfere("fault", MaxFaults)
         \/ Interfere("crash", MaxCrashes) \/ Interfere("foreign", MaxForeign)
  PROVE  /\ interference' \in [crash : 0..MaxCrashes, fault : 0..MaxFaults,
                               foreign : 0..MaxForeign]
         /\ interference'.fault # 0 \/ interference'.fault = interference.fault
         /\ Interfere("fault", MaxFaults) => interference'.fault # 0
BY Bounds DEF TypeOK, Interfere

LEMMA InitTypes == Init => TypeOK
BY ImportsAssumption
   DEF Init, TypeOK, ImportsAssumption, Names, Ended, Committing, Compensating, Record

LEMMA Renamed ==
  ASSUME TypeOK, NEW i \in Imports, name[i] \in Names, NextName(i)
  PROVE  name' \in [Imports -> 1..(MaxName + 1)]
BY Bounds DEF TypeOK, NextName, Names

LEMMA StepTypes ==
  ASSUME TypeOK, NEW i \in Imports, ImportOK(i), ImportStep(i)
  PROVE  TypeOK'
<1> USE DEF TypeOK, Ended, Committing, Compensating
<1>1. CASE Stage(i)
  <2>1. reserved' \in [Imports -> SUBSET Names]
    BY <1>1 DEF Stage, Record
  <2> QED  BY <1>1, <2>1 DEF Stage, Go
<1>2. CASE StageFails(i)
  BY <1>2 DEF StageFails, Go
<1>3. CASE SkipReserved(i)
  BY <1>3, Renamed DEF SkipReserved
<1>4. CASE CopySource(i)
  <2>1. CASE sources[Source(i)] = Nobody
    BY <1>4, <2>1 DEF CopySource
  <2>2. CASE sources[Source(i)] # Nobody
    BY <1>4, <2>2, Renamed DEF CopySource
  <2> QED  BY <2>1, <2>2
<1>5. CASE CopyFails(i)
  BY <1>5 DEF CopyFails, Go
<1>6. CASE LinkWorking(i)
  <2>1. CASE works[name[i]] = Nobody
    BY <1>6, <2>1 DEF LinkWorking
  <2>2. CASE works[name[i]] # Nobody
    BY <1>6, <2>2 DEF LinkWorking
  <2> QED  BY <2>1, <2>2
<1>7. CASE LinkFails(i)
  BY <1>7 DEF LinkFails, Go
<1>8. CASE Unlink(i)
  <2>1. name[i] \in Names
    BY <1>8 DEF Unlink, Go, ImportOK, FilesOK, WithSource
  <2> QED  BY <1>8, <2>1, Renamed DEF Unlink, Go
<1>9. CASE UnlinkLast(i)
  BY <1>9 DEF UnlinkLast, Go
<1>10. CASE UnlinkFails(i)
  BY <1>10, Interference DEF UnlinkFails, Go
<1>11. CASE Seal(i)
  BY <1>11 DEF Seal, Go
<1>12. CASE SealFails(i)
  <2>1. pc' = [pc EXCEPT ![i] = "failed"]
    BY <1>12 DEF SealFails, Go
  <2>2. sources' \in [Names \X Formats -> Imports \cup {Nobody, Foreign}]
    BY <1>12 DEF SealFails
  <2>3. works' \in [Names -> Imports \cup {Nobody, Foreign}]
    BY <1>12 DEF SealFails
  <2>4. interference' \in [crash : 0..MaxCrashes, fault : 0..MaxFaults,
                           foreign : 0..MaxForeign]
    BY <1>12, Interference DEF SealFails, Quietly
  <2> QED  BY <1>12, <2>1, <2>2, <2>3, <2>4 DEF SealFails
<1>13. CASE PutRecord(i)
  <2>1. name[i] \in Names
    BY <1>13 DEF PutRecord, Go, ImportOK, FilesOK, WithSource
  <2>2. record' \in [Imports -> Record \cup {None}]
    BY <1>13, <2>1 DEF PutRecord, Record
  <2> QED  BY <1>13, <2>2 DEF PutRecord, Go
<1>14. CASE StoreFails(i)
  BY <1>14 DEF StoreFails, Go
<1>15. CASE \E p \in Parts : PutNode(i, p)
  BY <1>15 DEF PutNode
<1>16. CASE RootJournals(i)
  BY <1>16 DEF RootJournals, Go
<1>17. CASE RootPublishes(i)
  <2>1. record[i] \in Record
    BY <1>17 DEF RootPublishes, Go, ImportOK, RecordOK, Tracked
  <2>2. record' \in [Imports -> Record \cup {None}]
    BY <1>17, <2>1 DEF RootPublishes, Record
  <2> QED  BY <1>17, <2>2 DEF RootPublishes, Go
<1>18. CASE RootSettles(i)
  BY <1>18 DEF RootSettles, Go
<1>19. CASE RootFails(i)
  BY <1>19 DEF RootFails, Go
<1>20. CASE Rollback(i)
  <2>1. left' \in [Imports -> SUBSET Parts]
    BY <1>20 DEF Rollback
  <2>2. pc' \in {[pc EXCEPT ![i] = "refused"], [pc EXCEPT ![i] = "unsource"]}
    BY <1>20 DEF Rollback
  <2> QED  BY <1>20, <2>1, <2>2 DEF Rollback
<1>21. CASE RemoveSource(i)
  BY <1>21 DEF RemoveSource, Go
<1>22. CASE RemoveWorking(i)
  BY <1>22 DEF RemoveWorking
<1>23. CASE NodesGone(i)
  BY <1>23 DEF NodesGone, Go
<1>24. CASE \E p \in Parts : DeleteNode(i, p)
  BY <1>24 DEF DeleteNode
<1>25. CASE \E p \in Parts : DeleteNodeFails(i, p)
  <2>1. PICK p \in Parts : DeleteNodeFails(i, p)
    BY <1>25
  <2>2. CASE pc[i] = "unnodes"
    <3>1. /\ left' = [left EXCEPT ![i] = left[i] \ {p}]
          /\ trouble' = [trouble EXCEPT ![i] = TRUE]
      BY <2>1, <2>2 DEF DeleteNodeFails
    <3>2. left' \in [Imports -> SUBSET Parts]
      BY <3>1
    <3>3. trouble' \in [Imports -> BOOLEAN]
      BY <3>1
    <3> QED  BY <2>1, <2>2, <3>2, <3>3, Interference DEF DeleteNodeFails
  <2>3. CASE pc[i] # "unnodes"
    BY <2>1, <2>3, Interference DEF DeleteNodeFails
  <2> QED  BY <2>2, <2>3
<1>26. CASE DeleteRecord(i)
  BY <1>26 DEF DeleteRecord, Go
<1>27. CASE CompensationFails(i)
  BY <1>27, Interference DEF CompensationFails
<1>28. CASE OtherStages(i)
  BY <1>28 DEF OtherStages, Other
<1>29. CASE OtherJournals(i)
  BY <1>29 DEF OtherJournals, Other
<1>30. CASE OtherPublishes(i)
  <2>1. record[i] \in Record
    BY <1>30 DEF OtherPublishes
  <2>2. record' \in [Imports -> Record \cup {None}]
    BY <1>30, <2>1 DEF OtherPublishes, Record
  <2> QED  BY <1>30, <2>2 DEF OtherPublishes, Other
<1>31. CASE OtherEnds(i)
  BY <1>31 DEF OtherEnds, Other
<1>32. CASE Recover(i)
  BY <1>32 DEF Recover
<1> QED
  BY <1>1, <1>2, <1>3, <1>4, <1>5, <1>6, <1>7, <1>8, <1>9, <1>10, <1>11, <1>12, 
     <1>13, <1>14, <1>15, <1>16, <1>17, <1>18, <1>19, <1>20, <1>21, <1>22, 
     <1>23, <1>24, <1>25, <1>26, <1>27, <1>28, <1>29, <1>30, <1>31, <1>32
  DEF ImportStep, Import, Publish, Persist, Root, Compensate, OtherCommit

LEMMA EnvironmentTypes ==
  ASSUME TypeOK, Place \/ Crash PROVE TypeOK'
<1>1. CASE Place
  BY <1>1, Interference DEF Place, TypeOK
<1>2. CASE Crash
  <2>1. pc' \in [Imports -> Ended \cup Committing \cup Compensating \cup
               {"new", "copy", "link", "unlink", "seal", "store", "rollback"}]
    BY <1>2 DEF Crash, TypeOK, Ended
  <2>2. other' \in [Imports -> {"idle", "staged", "journaled", "published"}]
    BY <1>2 DEF Crash
  <2> QED  BY <1>2, <2>1, <2>2, Interference DEF Crash, TypeOK
<1> QED  BY <1>1, <1>2

------------------------------------------------------------------------------
(* What a step of one import may do to the files and to another import: it *)
(* takes free paths and frees its own, and nothing else.                   *)
Takes(i) ==
  /\ \A s \in Names \X Formats : sources'[s] # sources[s] =>
       \/ sources[s] = Nobody /\ sources'[s] = i
       \/ sources[s] = i /\ sources'[s] = Nobody /\ pc[i] \in Compensating \cup {"unlink", "seal"}
  /\ \A n \in Names : works'[n] # works[n] =>
       \/ works[n] = Nobody /\ works'[n] = i
       \/ works[n] = i /\ works'[n] = Nobody /\ pc[i] \in Compensating \cup {"seal"}

LEMMA StepTakes ==
  ASSUME TypeOK, NEW i \in Imports, ImportOK(i), ImportStep(i)
  PROVE  Takes(i)
<1> USE DEF TypeOK, Takes, Compensating
<1>1. CASE Stage(i)
  BY <1>1 DEF Stage, Go
<1>2. CASE StageFails(i)
  BY <1>2 DEF StageFails, Go
<1>3. CASE SkipReserved(i)
  BY <1>3 DEF SkipReserved, NextName
<1>4. CASE CopySource(i)
  BY <1>4 DEF CopySource, Go, NextName
<1>5. CASE CopyFails(i)
  BY <1>5 DEF CopyFails, Go
<1>6. CASE LinkWorking(i)
  BY <1>6 DEF LinkWorking
<1>7. CASE LinkFails(i)
  BY <1>7 DEF LinkFails, Go
<1>8. CASE Unlink(i)
  BY <1>8 DEF Unlink, Go, ImportOK, FilesOK, WithSource, WithWorking, Source
<1>9. CASE UnlinkLast(i)
  BY <1>9 DEF UnlinkLast, Go, ImportOK, FilesOK, WithSource, WithWorking, Source
<1>10. CASE UnlinkFails(i)
  BY <1>10 DEF UnlinkFails, Go, Interfere
<1>11. CASE Seal(i)
  BY <1>11 DEF Seal, Go
<1>12. CASE SealFails(i)
  BY <1>12 DEF SealFails, Go, Quietly, Interfere, ImportOK, FilesOK, WithSource, WithWorking, Source
<1>13. CASE PutRecord(i)
  BY <1>13 DEF PutRecord, Go
<1>14. CASE StoreFails(i)
  BY <1>14 DEF StoreFails, Go
<1>15. CASE \E p \in Parts : PutNode(i, p)
  BY <1>15 DEF PutNode
<1>16. CASE RootJournals(i)
  BY <1>16 DEF RootJournals, Go
<1>17. CASE RootPublishes(i)
  BY <1>17 DEF RootPublishes, Go
<1>18. CASE RootSettles(i)
  BY <1>18 DEF RootSettles, Go
<1>19. CASE RootFails(i)
  BY <1>19 DEF RootFails, Go
<1>20. CASE Rollback(i)
  BY <1>20 DEF Rollback
<1>21. CASE RemoveSource(i)
  BY <1>21 DEF RemoveSource, Go, ImportOK, FilesOK, WithSource, WithWorking, Source
<1>22. CASE RemoveWorking(i)
  BY <1>22 DEF RemoveWorking, ImportOK, FilesOK, WithWorking
<1>23. CASE NodesGone(i)
  BY <1>23 DEF NodesGone, Go
<1>24. CASE \E p \in Parts : DeleteNode(i, p)
  BY <1>24 DEF DeleteNode
<1>25. CASE \E p \in Parts : DeleteNodeFails(i, p)
  BY <1>25 DEF DeleteNodeFails, Interfere
<1>26. CASE DeleteRecord(i)
  BY <1>26 DEF DeleteRecord, Go
<1>27. CASE CompensationFails(i)
  BY <1>27 DEF CompensationFails, ImportOK, FilesOK, WithWorking
<1>28. CASE OtherStages(i)
  BY <1>28 DEF OtherStages, Other
<1>29. CASE OtherJournals(i)
  BY <1>29 DEF OtherJournals, Other
<1>30. CASE OtherPublishes(i)
  BY <1>30 DEF OtherPublishes, Other
<1>31. CASE OtherEnds(i)
  BY <1>31 DEF OtherEnds, Other
<1>32. CASE Recover(i)
  BY <1>32 DEF Recover
<1> QED
  BY <1>1, <1>2, <1>3, <1>4, <1>5, <1>6, <1>7, <1>8, <1>9, <1>10, <1>11, <1>12, 
     <1>13, <1>14, <1>15, <1>16, <1>17, <1>18, <1>19, <1>20, <1>21, <1>22, 
     <1>23, <1>24, <1>25, <1>26, <1>27, <1>28, <1>29, <1>30, <1>31, <1>32
  DEF ImportStep, Import, Publish, Persist, Root, Compensate, OtherCommit

(* The others stay where they are.                                         *)
SameAs(j) ==
  /\ pc'[j] = pc[j] /\ name'[j] = name[j] /\ record'[j] = record[j]
  /\ nodes'[j] = nodes[j] /\ left'[j] = left[j] /\ trouble'[j] = trouble[j]
  /\ journal'[j] = journal[j] /\ other'[j] = other[j]

LEMMA StepSpares ==
  ASSUME TypeOK, NEW i \in Imports, ImportStep(i), NEW j \in Imports \ {i}
  PROVE  /\ SameAs(j)
         /\ interference'.fault # 0 \/ interference'.fault = interference.fault
<1> USE DEF TypeOK, SameAs
<1>1. CASE Stage(i)
  BY <1>1 DEF Stage, Go
<1>2. CASE StageFails(i)
  BY <1>2 DEF StageFails, Go
<1>3. CASE SkipReserved(i)
  BY <1>3 DEF SkipReserved, NextName
<1>4. CASE CopySource(i)
  BY <1>4 DEF CopySource, Go, NextName
<1>5. CASE CopyFails(i)
  BY <1>5 DEF CopyFails, Go
<1>6. CASE LinkWorking(i)
  BY <1>6 DEF LinkWorking
<1>7. CASE LinkFails(i)
  BY <1>7 DEF LinkFails, Go
<1>8. CASE Unlink(i)
  BY <1>8 DEF Unlink, Go, NextName
<1>9. CASE UnlinkLast(i)
  BY <1>9 DEF UnlinkLast, Go
<1>10. CASE UnlinkFails(i)
  BY <1>10, Interference DEF UnlinkFails, Go
<1>11. CASE Seal(i)
  BY <1>11 DEF Seal, Go
<1>12. CASE SealFails(i)
  BY <1>12, Interference DEF SealFails, Go, Quietly
<1>13. CASE PutRecord(i)
  BY <1>13 DEF PutRecord, Go
<1>14. CASE StoreFails(i)
  BY <1>14 DEF StoreFails, Go
<1>15. CASE \E p \in Parts : PutNode(i, p)
  BY <1>15 DEF PutNode
<1>16. CASE RootJournals(i)
  BY <1>16 DEF RootJournals, Go
<1>17. CASE RootPublishes(i)
  BY <1>17 DEF RootPublishes, Go
<1>18. CASE RootSettles(i)
  BY <1>18 DEF RootSettles, Go
<1>19. CASE RootFails(i)
  BY <1>19 DEF RootFails, Go
<1>20. CASE Rollback(i)
  BY <1>20 DEF Rollback
<1>21. CASE RemoveSource(i)
  BY <1>21 DEF RemoveSource, Go
<1>22. CASE RemoveWorking(i)
  BY <1>22 DEF RemoveWorking
<1>23. CASE NodesGone(i)
  BY <1>23 DEF NodesGone, Go
<1>24. CASE \E p \in Parts : DeleteNode(i, p)
  BY <1>24 DEF DeleteNode
<1>25. CASE \E p \in Parts : DeleteNodeFails(i, p)
  BY <1>25, Interference DEF DeleteNodeFails, Go
<1>26. CASE DeleteRecord(i)
  BY <1>26 DEF DeleteRecord, Go
<1>27. CASE CompensationFails(i)
  BY <1>27, Interference DEF CompensationFails, Go
<1>28. CASE OtherStages(i)
  BY <1>28 DEF OtherStages, Other
<1>29. CASE OtherJournals(i)
  BY <1>29 DEF OtherJournals, Other
<1>30. CASE OtherPublishes(i)
  BY <1>30 DEF OtherPublishes, Other
<1>31. CASE OtherEnds(i)
  BY <1>31 DEF OtherEnds, Other
<1>32. CASE Recover(i)
  BY <1>32 DEF Recover
<1> QED
  BY <1>1, <1>2, <1>3, <1>4, <1>5, <1>6, <1>7, <1>8, <1>9, <1>10, <1>11, <1>12, 
     <1>13, <1>14, <1>15, <1>16, <1>17, <1>18, <1>19, <1>20, <1>21, <1>22, 
     <1>23, <1>24, <1>25, <1>26, <1>27, <1>28, <1>29, <1>30, <1>31, <1>32
  DEF ImportStep, Import, Publish, Persist, Root, Compensate, OtherCommit

KeepsFiles(j) ==
  /\ \A s \in Names \X Formats : sources'[s] = j <=> sources[s] = j
  /\ \A n \in Names : works'[n] = j <=> works[n] = j

LEMMA SourceTyped ==
  ASSUME TypeOK, NEW j \in Imports, name[j] \in Names
  PROVE  Source(j) \in Names \X Formats
BY ImportsAssumption DEF TypeOK, Source, ImportsAssumption

LEMMA Elsewhere ==
  ASSUME TypeOK, NEW j \in Imports, ImportOK(j), SameAs(j), KeepsFiles(j),
         interference'.fault # 0 \/ interference'.fault = interference.fault
  PROVE  ImportOK(j)'
<1> USE DEF SameAs
<1>1. Source(j)' = Source(j)
  BY DEF Source
<1>2. Owns(j)' <=> Owns(j)
  BY DEF Owns, KeepsFiles
<1>3. OwnName(j)'
  BY <1>1 DEF OwnName, KeepsFiles, ImportOK, FilesOK
<1>4. FilesOK(j)'
  BY <1>1, <1>2, <1>3, SourceTyped DEF FilesOK, ImportOK, KeepsFiles
<1>5. RecordOK(j)'
  BY <1>1, SourceTyped DEF RecordOK, ImportOK, KeepsFiles, Tracked
<1>6. NodesOK(j)'
  BY DEF NodesOK, ImportOK, Tracked, Undone
<1>7. CommitOK(j)'
  BY DEF CommitOK, ImportOK, Tracked
<1> QED  BY <1>4, <1>5, <1>6, <1>7 DEF ImportOK

LEMMA RecordsAreSome == None \notin Record
BY ImportsAssumption DEF ImportsAssumption, Record, Names

LEMMA HeadSet ==
  ASSUME TypeOK, NEW i \in Imports, record[i] # None,
         record' = [record EXCEPT ![i].head = TRUE]
  PROVE  record'[i] # None /\ record'[i].name = record[i].name
<1>1. record[i] \in Record
  BY DEF TypeOK
<1>2. record'[i] = [record[i] EXCEPT !.head = TRUE]
  BY DEF TypeOK
<1>3. record'[i] \in Record /\ record'[i].name = record[i].name
  BY <1>1, <1>2 DEF Record
<1> QED  BY <1>3, RecordsAreSome

------------------------------------------------------------------------------
(* The invariant of the import that takes the step.                        *)
LEMMA StepFiles ==
  ASSUME TypeOK, TypeOK', NEW i \in Imports, ImportOK(i), ImportStep(i), i # Nobody
  PROVE  FilesOK(i)'
<1> USE SourceTyped DEF TypeOK, FilesOK, OwnName, Source, Owns, WithSource, WithWorking, WithNothing,
        Committing, Compensating, ImportOK
<1>1. CASE Stage(i)
  BY <1>1 DEF Stage, Go
<1>2. CASE StageFails(i)
  BY <1>2 DEF StageFails, Go
<1>3. CASE SkipReserved(i)
  BY <1>3 DEF SkipReserved, NextName
<1>4. CASE CopySource(i)
  <2>1. CASE sources[Source(i)] = Nobody
    BY <1>4, <2>1 DEF CopySource
  <2>2. CASE sources[Source(i)] # Nobody
    BY <1>4, <2>2 DEF CopySource, NextName
  <2> QED  BY <2>1, <2>2
<1>5. CASE CopyFails(i)
  BY <1>5 DEF CopyFails, Go
<1>6. CASE LinkWorking(i)
  BY <1>6 DEF LinkWorking
<1>7. CASE LinkFails(i)
  BY <1>7 DEF LinkFails, Go
<1>8. CASE Unlink(i)
  BY <1>8 DEF Unlink, Go, NextName
<1>9. CASE UnlinkLast(i)
  BY <1>9 DEF UnlinkLast, Go
<1>10. CASE UnlinkFails(i)
  BY <1>10 DEF UnlinkFails, Go, Interfere
<1>11. CASE Seal(i)
  BY <1>11 DEF Seal, Go
<1>12. CASE SealFails(i)
  <2>1. pc[i] = "seal" /\ pc' = [pc EXCEPT ![i] = "failed"] /\ UNCHANGED locals
    BY <1>12 DEF SealFails, Go
  <2>2. /\ sources' = sources \/ sources' = [sources EXCEPT ![Source(i)] = Nobody]
        /\ works' = works \/ works' = [works EXCEPT ![name[i]] = Nobody]
    BY <1>12 DEF SealFails
  <2>3. OwnName(i)'
    BY <2>1, <2>2
  <2>4. ASSUME interference'.fault = 0 PROVE ~Owns(i)'
    <3>1. /\ sources' = [sources EXCEPT ![Source(i)] = Nobody]
          /\ works' = [works EXCEPT ![name[i]] = Nobody]
      BY <1>12, <2>4, Interference DEF SealFails
    <3> QED  BY <2>1, <2>3, <3>1
  <2> QED  BY <2>1, <2>3, <2>4
<1>13. CASE PutRecord(i)
  BY <1>13 DEF PutRecord, Go
<1>14. CASE StoreFails(i)
  BY <1>14 DEF StoreFails, Go
<1>15. CASE \E p \in Parts : PutNode(i, p)
  BY <1>15 DEF PutNode
<1>16. CASE RootJournals(i)
  BY <1>16 DEF RootJournals, Go
<1>17. CASE RootPublishes(i)
  BY <1>17 DEF RootPublishes, Go
<1>18. CASE RootSettles(i)
  BY <1>18 DEF RootSettles, Go
<1>19. CASE RootFails(i)
  BY <1>19 DEF RootFails, Go
<1>20. CASE Rollback(i)
  BY <1>20 DEF Rollback
<1>21. CASE RemoveSource(i)
  BY <1>21 DEF RemoveSource, Go
<1>22. CASE RemoveWorking(i)
  BY <1>22 DEF RemoveWorking
<1>23. CASE NodesGone(i)
  BY <1>23 DEF NodesGone, Go
<1>24. CASE \E p \in Parts : DeleteNode(i, p)
  BY <1>24 DEF DeleteNode
<1>25. CASE \E p \in Parts : DeleteNodeFails(i, p)
  BY <1>25 DEF DeleteNodeFails, Interfere
<1>26. CASE DeleteRecord(i)
  BY <1>26 DEF DeleteRecord, Go
<1>27. CASE CompensationFails(i)
  BY <1>27 DEF CompensationFails, Interfere
<1>28. CASE OtherStages(i)
  BY <1>28 DEF OtherStages, Other
<1>29. CASE OtherJournals(i)
  BY <1>29 DEF OtherJournals, Other
<1>30. CASE OtherPublishes(i)
  BY <1>30 DEF OtherPublishes, Other
<1>31. CASE OtherEnds(i)
  BY <1>31 DEF OtherEnds, Other
<1>32. CASE Recover(i)
  BY <1>32 DEF Recover
<1> QED
  BY <1>1, <1>2, <1>3, <1>4, <1>5, <1>6, <1>7, <1>8, <1>9, <1>10, <1>11, <1>12, 
     <1>13, <1>14, <1>15, <1>16, <1>17, <1>18, <1>19, <1>20, <1>21, <1>22, 
     <1>23, <1>24, <1>25, <1>26, <1>27, <1>28, <1>29, <1>30, <1>31, <1>32
  DEF ImportStep, Import, Publish, Persist, Root, Compensate, OtherCommit

LEMMA StepRecord ==
  ASSUME TypeOK, TypeOK', NEW i \in Imports, ImportOK(i), ImportStep(i)
  PROVE  RecordOK(i)'
<1> USE ImportsAssumption DEF TypeOK, RecordOK, FilesOK, Source, WithSource, WithWorking, Committing,
        Compensating, Ended, Tracked, ImportOK
<1>1. CASE Stage(i)
  BY <1>1 DEF Stage, Go
<1>2. CASE StageFails(i)
  BY <1>2 DEF StageFails, Go
<1>3. CASE SkipReserved(i)
  BY <1>3 DEF SkipReserved, NextName
<1>4. CASE CopySource(i)
  BY <1>4 DEF CopySource, Go, NextName
<1>5. CASE CopyFails(i)
  BY <1>5 DEF CopyFails, Go
<1>6. CASE LinkWorking(i)
  BY <1>6 DEF LinkWorking
<1>7. CASE LinkFails(i)
  BY <1>7 DEF LinkFails, Go
<1>8. CASE Unlink(i)
  BY <1>8 DEF Unlink, Go, NextName
<1>9. CASE UnlinkLast(i)
  BY <1>9 DEF UnlinkLast, Go
<1>10. CASE UnlinkFails(i)
  BY <1>10 DEF UnlinkFails, Go, Interfere
<1>11. CASE Seal(i)
  BY <1>11 DEF Seal, Go
<1>12. CASE SealFails(i)
  BY <1>12 DEF SealFails, Go, Interfere, Quietly
<1>13. CASE PutRecord(i)
  <2>1. record'[i] = [name |-> name[i], head |-> FALSE] /\ name[i] \in Names
    BY <1>13 DEF PutRecord, Go
  <2>2. record'[i] \in Record
    BY <2>1 DEF Record
  <2>3. record'[i].name = name[i]
    BY <2>1
  <2>5. record'[i] # None
    BY <2>2, RecordsAreSome
  <2>4. pc'[i] = "root" /\ UNCHANGED name
    BY <1>13 DEF PutRecord, Go
  <2> QED  BY <2>1, <2>3, <2>4, <2>5
<1>14. CASE StoreFails(i)
  BY <1>14 DEF StoreFails, Go
<1>15. CASE \E p \in Parts : PutNode(i, p)
  BY <1>15 DEF PutNode
<1>16. CASE RootJournals(i)
  BY <1>16 DEF RootJournals, Go
<1>17. CASE RootPublishes(i)
  BY <1>17, HeadSet DEF RootPublishes, Go
<1>18. CASE RootSettles(i)
  BY <1>18 DEF RootSettles, Go
<1>19. CASE RootFails(i)
  BY <1>19 DEF RootFails, Go
<1>20. CASE Rollback(i)
  BY <1>20 DEF Rollback
<1>21. CASE RemoveSource(i)
  BY <1>21 DEF RemoveSource, Go
<1>22. CASE RemoveWorking(i)
  BY <1>22 DEF RemoveWorking
<1>23. CASE NodesGone(i)
  BY <1>23 DEF NodesGone, Go
<1>24. CASE \E p \in Parts : DeleteNode(i, p)
  BY <1>24 DEF DeleteNode
<1>25. CASE \E p \in Parts : DeleteNodeFails(i, p)
  BY <1>25 DEF DeleteNodeFails, Interfere
<1>26. CASE DeleteRecord(i)
  BY <1>26 DEF DeleteRecord, Go
<1>27. CASE CompensationFails(i)
  BY <1>27 DEF CompensationFails, Interfere
<1>28. CASE OtherStages(i)
  BY <1>28 DEF OtherStages, Other
<1>29. CASE OtherJournals(i)
  BY <1>29 DEF OtherJournals, Other
<1>30. CASE OtherPublishes(i)
  BY <1>30, HeadSet DEF OtherPublishes, Other
<1>31. CASE OtherEnds(i)
  BY <1>31 DEF OtherEnds, Other
<1>32. CASE Recover(i)
  BY <1>32 DEF Recover
<1> QED
  BY <1>1, <1>2, <1>3, <1>4, <1>5, <1>6, <1>7, <1>8, <1>9, <1>10, <1>11, <1>12, 
     <1>13, <1>14, <1>15, <1>16, <1>17, <1>18, <1>19, <1>20, <1>21, <1>22, 
     <1>23, <1>24, <1>25, <1>26, <1>27, <1>28, <1>29, <1>30, <1>31, <1>32
  DEF ImportStep, Import, Publish, Persist, Root, Compensate, OtherCommit

LEMMA StepNodes ==
  ASSUME TypeOK, TypeOK', NEW i \in Imports, ImportOK(i), ImportStep(i)
  PROVE  NodesOK(i)'
<1> USE DEF TypeOK, RecordOK, NodesOK, Committing, Compensating, Ended, Tracked, Undone, ImportOK
<1>1. CASE Stage(i)
  BY <1>1 DEF Stage, Go
<1>2. CASE StageFails(i)
  BY <1>2 DEF StageFails, Go
<1>3. CASE SkipReserved(i)
  BY <1>3 DEF SkipReserved, NextName
<1>4. CASE CopySource(i)
  BY <1>4 DEF CopySource, Go, NextName
<1>5. CASE CopyFails(i)
  BY <1>5 DEF CopyFails, Go
<1>6. CASE LinkWorking(i)
  BY <1>6 DEF LinkWorking
<1>7. CASE LinkFails(i)
  BY <1>7 DEF LinkFails, Go
<1>8. CASE Unlink(i)
  BY <1>8 DEF Unlink, Go, NextName
<1>9. CASE UnlinkLast(i)
  BY <1>9 DEF UnlinkLast, Go
<1>10. CASE UnlinkFails(i)
  BY <1>10 DEF UnlinkFails, Go, Interfere
<1>11. CASE Seal(i)
  BY <1>11 DEF Seal, Go
<1>12. CASE SealFails(i)
  BY <1>12 DEF SealFails, Go, Interfere, Quietly
<1>13. CASE PutRecord(i)
  BY <1>13 DEF PutRecord, Go
<1>14. CASE StoreFails(i)
  BY <1>14 DEF StoreFails, Go
<1>15. CASE \E p \in Parts : PutNode(i, p)
  BY <1>15 DEF PutNode
<1>16. CASE RootJournals(i)
  BY <1>16 DEF RootJournals, Go
<1>17. CASE RootPublishes(i)
  BY <1>17, HeadSet DEF RootPublishes, Go
<1>18. CASE RootSettles(i)
  BY <1>18 DEF RootSettles, Go
<1>19. CASE RootFails(i)
  BY <1>19 DEF RootFails, Go
<1>20. CASE Rollback(i)
  BY <1>20 DEF Rollback
<1>21. CASE RemoveSource(i)
  BY <1>21 DEF RemoveSource, Go
<1>22. CASE RemoveWorking(i)
  BY <1>22 DEF RemoveWorking
<1>23. CASE NodesGone(i)
  BY <1>23 DEF NodesGone, Go
<1>24. CASE \E p \in Parts : DeleteNode(i, p)
  BY <1>24 DEF DeleteNode
<1>25. CASE \E p \in Parts : DeleteNodeFails(i, p)
  BY <1>25 DEF DeleteNodeFails, Interfere
<1>26. CASE DeleteRecord(i)
  BY <1>26 DEF DeleteRecord, Go
<1>27. CASE CompensationFails(i)
  BY <1>27 DEF CompensationFails, Interfere
<1>28. CASE OtherStages(i)
  BY <1>28 DEF OtherStages, Other
<1>29. CASE OtherJournals(i)
  BY <1>29 DEF OtherJournals, Other
<1>30. CASE OtherPublishes(i)
  BY <1>30, HeadSet DEF OtherPublishes, Other
<1>31. CASE OtherEnds(i)
  BY <1>31 DEF OtherEnds, Other
<1>32. CASE Recover(i)
  BY <1>32 DEF Recover
<1> QED
  BY <1>1, <1>2, <1>3, <1>4, <1>5, <1>6, <1>7, <1>8, <1>9, <1>10, <1>11, <1>12, 
     <1>13, <1>14, <1>15, <1>16, <1>17, <1>18, <1>19, <1>20, <1>21, <1>22, 
     <1>23, <1>24, <1>25, <1>26, <1>27, <1>28, <1>29, <1>30, <1>31, <1>32
  DEF ImportStep, Import, Publish, Persist, Root, Compensate, OtherCommit

LEMMA StepCommit ==
  ASSUME TypeOK, TypeOK', NEW i \in Imports, ImportOK(i), ImportStep(i)
  PROVE  CommitOK(i)'
<1> USE DEF TypeOK, RecordOK, CommitOK, Committing, Compensating, Ended, Tracked, ImportOK
<1>1. CASE Stage(i)
  BY <1>1 DEF Stage, Go
<1>2. CASE StageFails(i)
  BY <1>2 DEF StageFails, Go
<1>3. CASE SkipReserved(i)
  BY <1>3 DEF SkipReserved, NextName
<1>4. CASE CopySource(i)
  BY <1>4 DEF CopySource, Go, NextName
<1>5. CASE CopyFails(i)
  BY <1>5 DEF CopyFails, Go
<1>6. CASE LinkWorking(i)
  BY <1>6 DEF LinkWorking
<1>7. CASE LinkFails(i)
  BY <1>7 DEF LinkFails, Go
<1>8. CASE Unlink(i)
  BY <1>8 DEF Unlink, Go, NextName
<1>9. CASE UnlinkLast(i)
  BY <1>9 DEF UnlinkLast, Go
<1>10. CASE UnlinkFails(i)
  BY <1>10 DEF UnlinkFails, Go, Interfere
<1>11. CASE Seal(i)
  BY <1>11 DEF Seal, Go
<1>12. CASE SealFails(i)
  BY <1>12 DEF SealFails, Go, Interfere, Quietly
<1>13. CASE PutRecord(i)
  BY <1>13 DEF PutRecord, Go
<1>14. CASE StoreFails(i)
  BY <1>14 DEF StoreFails, Go
<1>15. CASE \E p \in Parts : PutNode(i, p)
  BY <1>15 DEF PutNode
<1>16. CASE RootJournals(i)
  BY <1>16 DEF RootJournals, Go
<1>17. CASE RootPublishes(i)
  BY <1>17, HeadSet DEF RootPublishes, Go
<1>18. CASE RootSettles(i)
  BY <1>18 DEF RootSettles, Go
<1>19. CASE RootFails(i)
  BY <1>19 DEF RootFails, Go
<1>20. CASE Rollback(i)
  BY <1>20 DEF Rollback
<1>21. CASE RemoveSource(i)
  BY <1>21 DEF RemoveSource, Go
<1>22. CASE RemoveWorking(i)
  BY <1>22 DEF RemoveWorking
<1>23. CASE NodesGone(i)
  BY <1>23 DEF NodesGone, Go
<1>24. CASE \E p \in Parts : DeleteNode(i, p)
  BY <1>24 DEF DeleteNode
<1>25. CASE \E p \in Parts : DeleteNodeFails(i, p)
  BY <1>25 DEF DeleteNodeFails, Interfere
<1>26. CASE DeleteRecord(i)
  BY <1>26 DEF DeleteRecord, Go
<1>27. CASE CompensationFails(i)
  BY <1>27 DEF CompensationFails, Interfere
<1>28. CASE OtherStages(i)
  BY <1>28 DEF OtherStages, Other, Leased, Committable
<1>29. CASE OtherJournals(i)
  BY <1>29 DEF OtherJournals, Other
<1>30. CASE OtherPublishes(i)
  BY <1>30, HeadSet DEF OtherPublishes, Other
<1>31. CASE OtherEnds(i)
  BY <1>31 DEF OtherEnds, Other
<1>32. CASE Recover(i)
  BY <1>32 DEF Recover
<1> QED
  BY <1>1, <1>2, <1>3, <1>4, <1>5, <1>6, <1>7, <1>8, <1>9, <1>10, <1>11, <1>12, 
     <1>13, <1>14, <1>15, <1>16, <1>17, <1>18, <1>19, <1>20, <1>21, <1>22, 
     <1>23, <1>24, <1>25, <1>26, <1>27, <1>28, <1>29, <1>30, <1>31, <1>32
  DEF ImportStep, Import, Publish, Persist, Root, Compensate, OtherCommit

LEMMA StepInv ==
  ASSUME ImportsInv, NEW i \in Imports, ImportStep(i)
  PROVE  ImportsInv'
<1>1. TypeOK /\ ImportOK(i)
  BY DEF ImportsInv
<1>2. TypeOK'
  BY <1>1, StepTypes
<1>3. i # Nobody /\ i # Foreign
  BY ImportsAssumption DEF ImportsAssumption
<1>4. ImportOK(i)'
  BY <1>1, <1>2, <1>3, StepFiles, StepRecord, StepNodes, StepCommit DEF ImportOK
<1>5. ASSUME NEW j \in Imports \ {i} PROVE ImportOK(j)'
  <2>1. TypeOK /\ ImportOK(j) /\ j # Nobody
    BY ImportsAssumption DEF ImportsInv, ImportsAssumption
  <2>2. SameAs(j) /\ (interference'.fault # 0 \/ interference'.fault = interference.fault)
    BY <1>1, StepSpares
  <2>3. KeepsFiles(j)
    BY <1>1, <1>3, <2>1, StepTakes DEF Takes, KeepsFiles
  <2> QED  BY <2>1, <2>2, <2>3, Elsewhere
<1> QED  BY <1>2, <1>4, <1>5 DEF ImportsInv

LEMMA PlaceInv == ASSUME ImportsInv, Place PROVE ImportsInv'
<1>1. TypeOK'
  BY EnvironmentTypes DEF ImportsInv
<1>2. ASSUME NEW j \in Imports PROVE ImportOK(j)'
  <2>1. TypeOK /\ ImportOK(j) /\ j # Nobody /\ j # Foreign
    BY ImportsAssumption DEF ImportsInv, ImportsAssumption
  <2>2. SameAs(j)
    BY DEF Place, SameAs
  <2>3. KeepsFiles(j)
    BY <2>1 DEF Place, KeepsFiles, TypeOK
  <2>4. interference'.fault # 0 \/ interference'.fault = interference.fault
    BY <2>1, Interference DEF Place
  <2> QED  BY <2>1, <2>2, <2>3, <2>4, Elsewhere
<1> QED  BY <1>1, <1>2 DEF ImportsInv

(* The host dies: an import being taken back is torn, the others lost.     *)
LEMMA CrashInv == ASSUME ImportsInv, Crash PROVE ImportsInv'
<1>1. TypeOK'
  BY EnvironmentTypes DEF ImportsInv
<1>2. ASSUME NEW j \in Imports PROVE ImportOK(j)'
  <2>1. TypeOK /\ ImportOK(j)
    BY DEF ImportsInv
  <2>2. UNCHANGED <<files, records, locals>>
    BY DEF Crash
  <2>3. interference'.fault # 0 \/ interference'.fault = interference.fault
    BY <2>1, Interference DEF Crash
  <2>4. \/ pc[j] \in Ended \cup {"new"} /\ pc'[j] = pc[j]
        \/ pc[j] \in Compensating /\ Tracked(j) /\ pc'[j] = "torn"
        \/ /\ pc[j] \notin Ended \cup {"new"} /\ ~(pc[j] \in Compensating /\ Tracked(j))
           /\ pc'[j] = "lost"
    BY DEF Crash, Tracked
  <2>5. other'[j] = "idle"
    BY DEF Crash
  <2> HIDE DEF Crash
  <2>6. Source(j)' = Source(j)
    BY <2>2 DEF Source
  <2>7. FilesOK(j)'
    BY <2>1, <2>2, <2>3, <2>4, <2>6
       DEF FilesOK, OwnName, Owns, ImportOK, WithSource, WithWorking, WithNothing, Ended,
           Committing
  <2>8. RecordOK(j)'
    BY <2>1, <2>2, <2>4, <2>6
       DEF RecordOK, FilesOK, ImportOK, Tracked, Ended, Committing, Compensating,
           WithSource, WithWorking, TypeOK
  <2>9. NodesOK(j)'
    BY <2>1, <2>2, <2>4
       DEF RecordOK, NodesOK, ImportOK, Tracked, Undone, Ended, Committing, Compensating
  <2>10. CommitOK(j)'
    BY <2>1, <2>2, <2>4, <2>5
       DEF CommitOK, ImportOK, Tracked, Ended, Compensating
  <2> QED  BY <2>7, <2>8, <2>9, <2>10 DEF ImportOK
<1> QED  BY <1>1, <1>2 DEF ImportsInv

LEMMA NextInv == ImportsInv /\ [Next]_vars => ImportsInv'
<1> SUFFICES ASSUME ImportsInv, [Next]_vars PROVE ImportsInv'
  OBVIOUS
<1>1. CASE \E i \in Imports : ImportStep(i)
  BY <1>1, StepInv
<1>2. CASE Place
  BY <1>2, PlaceInv
<1>3. CASE Crash
  BY <1>3, CrashInv
<1>4. CASE UNCHANGED vars
  BY <1>4 DEF vars, ImportsInv, TypeOK, ImportOK, FilesOK, OwnName, Source, Owns, RecordOK,
              NodesOK, CommitOK, Tracked, Undone
<1> QED  BY <1>1, <1>2, <1>3, <1>4 DEF Next, ImportStep

LEMMA InitInv == Init => ImportsInv
<1> SUFFICES ASSUME Init PROVE ImportsInv
  OBVIOUS
<1>1. TypeOK
  BY InitTypes
<1>2. ASSUME NEW i \in Imports PROVE ImportOK(i)
  <2>1. i # Nobody
    BY ImportsAssumption DEF ImportsAssumption
  <2>2. FilesOK(i)
    BY <2>1 DEF Init, FilesOK, OwnName, Owns, WithSource, WithWorking, Committing
  <2>3. RecordOK(i) /\ NodesOK(i) /\ CommitOK(i)
    BY DEF Init, RecordOK, NodesOK, CommitOK, Tracked, Committing, Compensating
  <2> QED  BY <2>2, <2>3 DEF ImportOK
<1> QED  BY <1>1, <1>2 DEF ImportsInv

------------------------------------------------------------------------------
(* Every import has the files, nodes, record and journal its step calls    *)
(* for, and every variable keeps to the values its comment names.          *)
THEOREM ImportsCorrect == Spec => []ImportsInv
<1> QED  BY InitInv, NextInv, PTL DEF Spec

(* A document that can be listed and is not being taken back has its       *)
(* source, its Working copy and all its nodes.                             *)
THEOREM RecordCompleteCorrect == Spec => []RecordComplete
<1>1. ImportsInv => RecordComplete
  <2> SUFFICES ASSUME ImportsInv, NEW i \in Imports, Tracked(i), ~Undone(i)
               PROVE  /\ sources[<<record[i].name, Format[i]>>] = i
                      /\ works[record[i].name] = i
                      /\ nodes[i] = Parts
    BY DEF RecordComplete
  <2>1. ImportOK(i)
    BY DEF ImportsInv
  <2>2. pc[i] \in Committing \cup {"rollback", "done", "refused", "lost"}
    BY <2>1 DEF ImportOK, RecordOK, Undone, Ended, Compensating
  <2>3. sources[Source(i)] = i /\ works[name[i]] = i
    BY <2>1, <2>2 DEF ImportOK, RecordOK, FilesOK, WithSource, WithWorking
  <2> QED  BY <2>1, <2>3 DEF ImportOK, RecordOK, NodesOK, Source
<1> QED  BY <1>1, ImportsCorrect, PTL

(* No compensation takes a document anyone has published a version of, or  *)
(* is publishing one of.                                                   *)
THEOREM CommittedKeptCorrect == Spec => []CommittedKept
<1>1. ImportsInv => CommittedKept
  BY DEF ImportsInv, CommittedKept, ImportOK, CommitOK
<1> QED  BY <1>1, ImportsCorrect, PTL

(* An import reported as failed has left nothing behind, unless removing a *)
(* file failed.                                                            *)
THEOREM FailureLeavesNoRecordCorrect == Spec => []FailureLeavesNoRecord
<1>1. ImportsInv => FailureLeavesNoRecord
  BY DEF ImportsInv, FailureLeavesNoRecord, ImportOK, FilesOK, RecordOK, NodesOK, CommitOK,
         Committing, Ended
<1> QED  BY <1>1, ImportsCorrect, PTL

(* Imports replace and remove no file but their own.                       *)
THEOREM FilesKeptCorrect == Spec => FilesKept
<1> DEFINE Kept ==
      /\ \A s \in Names \X Formats :
           sources[s] # Nobody /\ sources'[s] # sources[s] =>
             sources[s] # Foreign
             /\ pc[sources[s]] \in Compensating \cup {"unlink", "seal"}
      /\ \A n \in Names :
           works[n] # Nobody /\ works'[n] # works[n] =>
             works[n] # Foreign /\ pc[works[n]] \in Compensating \cup {"seal"}
<1>1. ImportsInv /\ [Next]_vars => [Kept]_vars
  <2> SUFFICES ASSUME ImportsInv, Next PROVE Kept
    OBVIOUS
  <2>1. CASE \E i \in Imports : ImportStep(i)
    <3>1. PICK i \in Imports : ImportStep(i)
      BY <2>1
    <3>2. Takes(i) /\ i # Foreign
      BY <3>1, StepTakes, ImportsAssumption DEF ImportsInv, ImportsAssumption
    <3> QED  BY <3>2 DEF Takes
  <2>2. CASE Place
    BY <2>2 DEF Place, ImportsInv, TypeOK
  <2>3. CASE Crash
    BY <2>3 DEF Crash
  <2> QED  BY <2>1, <2>2, <2>3 DEF Next, ImportStep
<1> QED  BY <1>1, ImportsCorrect, PTL DEF Spec, FilesKept
==============================================================================
