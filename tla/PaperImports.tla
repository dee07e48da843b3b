----------------------------- MODULE PaperImports ------------------------------
(***************************************************************************)
(* Imports of Word files into one project: the workbench imports a file    *)
(* (document-service: publish its source and Working copy under a free     *)
(* name, store the nodes, store the record), submits the root commit, and  *)
(* takes the import back when that commit is rejected.  Imports run        *)
(* concurrently; a document is open to other committers as soon as its     *)
(* record is stored.  Two locks matter and neither covers the other: the   *)
(* commit service's FIFO and the document service's lease.                 *)
(***************************************************************************)
EXTENDS Naturals, FiniteSets

CONSTANTS
  Imports, \* calls of importDocument, each making a document of its own
  Formats, Format, \* source formats, and that of each import
  MaxName, \* candidate names "stem", "stem (2)", ... looked at
  Parts,   \* semantic nodes of a document
  Nobody, Foreign, \* no file, and a file that is not PaperAI's
  None,    \* no record
  MaxCrashes, MaxFaults, MaxForeign \* how often the environment interferes

ASSUME ImportsAssumption ==
  /\ {MaxName, MaxCrashes, MaxFaults, MaxForeign} \subseteq Nat
  /\ Format \in [Imports -> Formats]
  /\ Nobody # Foreign /\ {Nobody, Foreign} \cap Imports = {}
  /\ None \notin [name : 1..MaxName, head : BOOLEAN]

VARIABLES
  sources,  \* who created the file documents/source/<name>.<format>
  works,    \* who created the file documents/working/<name>.docx
  nodes,    \* stored nodes of each document
  record,   \* stored record of each document
  journal,  \* is a commit publication retained for the document?
  pc,       \* the next step of each import
  name,     \* the candidate name it is at
  reserved, \* names of tracked documents as it read them
  left,     \* nodes its compensation has yet to delete
  trouble,  \* has a step failed that its error must tell of?
  other,    \* another caller's commit of the document
  interference \* how often the environment has interfered

files == <<sources, works>>
records == <<nodes, record, journal>>
locals == <<name, reserved, left, trouble>>
vars == <<files, records, pc, locals, other, interference>>

Names == 1..MaxName
Record == [name : Names, head : BOOLEAN]

(* An import has ended: "done" and "failed" are told as such, "stuck" and  *)
(* "refused" as a failure that could not be compensated; the rest died     *)
(* with the host, "torn" while it was being taken back.                    *)
Ended == {"done", "failed", "stuck", "refused", "lost", "torn"}
Committing == {"root", "journaled", "published"}
Compensating == {"unnodes", "unsource", "unwork", "renodes", "rerecord"}
(* While rollbackImport runs it holds the document's lease.                *)
Leased(i) ==
  \/ pc[i] \in {"rollback", "renodes", "rerecord"}
  \/ pc[i] \in {"unsource", "unwork"} /\ record[i] # None

Interfere(kind, limit) ==
  /\ interference[kind] < limit
  /\ interference' = [interference EXCEPT ![kind] = @ + 1]
Quietly == UNCHANGED interference

Go(i, from, to) ==
  /\ pc[i] = from
  /\ pc' = [pc EXCEPT ![i] = to]

Source(i) == <<name[i], Format[i]>>

Init ==
  /\ sources = [s \in Names \X Formats |-> Nobody]
  /\ works = [n \in Names |-> Nobody]
  /\ nodes = [i \in Imports |-> {}]
  /\ record = [i \in Imports |-> None]
  /\ journal = [i \in Imports |-> FALSE]
  /\ pc = [i \in Imports |-> "new"]
  /\ name = [i \in Imports |-> 1]
  /\ reserved = [i \in Imports |-> {}]
  /\ left = [i \in Imports |-> {}]
  /\ trouble = [i \in Imports |-> FALSE]
  /\ other = [i \in Imports |-> "idle"]
  /\ interference = [crash |-> 0, fault |-> 0, foreign |-> 0]

------------------------------------------------------------------------------
(* importDocument: staging is private; the names of tracked documents are  *)
(* read once, when publication begins.                                     *)
Stage(i) ==
  /\ Go(i, "new", "copy")
  /\ reserved' = [reserved EXCEPT ![i] =
                    {record[j].name : j \in {k \in Imports : record[k] # None}}]
  /\ UNCHANGED <<files, records, name, left, trouble, other, interference>>

(* Cancellation, a degraded engine, an unreadable source: nothing exists.  *)
StageFails(i) ==
  /\ Go(i, "new", "failed")
  /\ UNCHANGED <<files, records, locals, other, interference>>

NextName(i) == name' = [name EXCEPT ![i] = @ + 1]

SkipReserved(i) ==
  /\ pc[i] = "copy"
  /\ name[i] \in reserved[i]
  /\ NextName(i)
  /\ UNCHANGED <<files, records, pc, reserved, left, trouble, other, interference>>

(* Slip: the copy replaces a file of that name.                            *)
CopyOver(i) ==
  /\ Go(i, "copy", "link")
  /\ name[i] \in Names \ reserved[i]
  /\ sources' = [sources EXCEPT ![Source(i)] = i]
  /\ UNCHANGED <<works, records, locals, other, interference>>

(* copyFile with COPYFILE_EXCL creates the source or finds it taken.       *)
CopySource(i) ==
  /\ pc[i] = "copy"
  /\ name[i] \in Names \ reserved[i]
  /\ IF sources[Source(i)] = Nobody
     THEN /\ sources' = [sources EXCEPT ![Source(i)] = i]
          /\ pc' = [pc EXCEPT ![i] = "link"]
          /\ UNCHANGED name
     ELSE /\ NextName(i)
          /\ UNCHANGED <<sources, pc>>
  /\ UNCHANGED <<works, records, reserved, left, trouble, other, interference>>

LinkWorking(i) ==
  /\ pc[i] = "link"
  /\ IF works[name[i]] = Nobody
     THEN /\ works' = [works EXCEPT ![name[i]] = i]
          /\ pc' = [pc EXCEPT ![i] = "seal"]
     ELSE /\ pc' = [pc EXCEPT ![i] = "unlink"]
          /\ UNCHANGED works
  /\ UNCHANGED <<sources, records, locals, other, interference>>

(* The Working name is taken, by a document of the other format or by a    *)
(* foreign file: the source copy goes, and the next name is tried.         *)
Unlink(i) ==
  /\ ~trouble[i]
  /\ Go(i, "unlink", "copy")
  /\ sources' = [sources EXCEPT ![Source(i)] = Nobody]
  /\ NextName(i)
  /\ UNCHANGED <<works, records, reserved, left, trouble, other, interference>>

(* The link fails for another reason: the source copy goes, and the import *)
(* fails.                                                                  *)
LinkFails(i) ==
  /\ Go(i, "link", "unlink")
  /\ trouble' = [trouble EXCEPT ![i] = TRUE]
  /\ UNCHANGED <<files, records, name, reserved, left, other, interference>>

UnlinkLast(i) ==
  /\ trouble[i]
  /\ Go(i, "unlink", "failed")
  /\ sources' = [sources EXCEPT ![Source(i)] = Nobody]
  /\ UNCHANGED <<works, records, locals, other, interference>>

(* Removing the source copy fails, and that error is all the caller gets.  *)
UnlinkFails(i) ==
  /\ Go(i, "unlink", "failed")
  /\ Interfere("fault", MaxFaults)
  /\ UNCHANGED <<files, records, locals, other>>

CopyFails(i) ==
  /\ name[i] \in Names
  /\ Go(i, "copy", "failed")
  /\ UNCHANGED <<files, records, locals, other, interference>>

(* Synchronized, read-only and verified, the pair is published.            *)
Seal(i) ==
  /\ Go(i, "seal", "store")
  /\ UNCHANGED <<files, records, locals, other, interference>>

(* A failed seal removes both files; failures to remove are not reported.  *)
SealFails(i) ==
  /\ Go(i, "seal", "failed")
  /\ \/ /\ Quietly
        /\ sources' = [sources EXCEPT ![Source(i)] = Nobody]
        /\ works' = [works EXCEPT ![name[i]] = Nobody]
     \/ /\ Interfere("fault", MaxFaults)
        /\ sources' = [sources EXCEPT ![Source(i)] = Nobody]
        /\ UNCHANGED works
     \/ /\ Interfere("fault", MaxFaults)
        /\ works' \in {works, [works EXCEPT ![name[i]] = Nobody]}
        /\ UNCHANGED sources
  /\ UNCHANGED <<records, locals, other>>

------------------------------------------------------------------------------
(* persistImport: the nodes, then the record that makes them a document.   *)
PutNode(i, p) ==
  /\ pc[i] = "store" /\ p \notin nodes[i]
  /\ nodes' = [nodes EXCEPT ![i] = @ \cup {p}]
  /\ UNCHANGED <<files, record, journal, pc, locals, other, interference>>

(* Slip: the record is stored before its nodes.                            *)
PutRecordFirst(i) ==
  /\ Go(i, "store", "root")
  /\ record' = [record EXCEPT ![i] = [name |-> name[i], head |-> FALSE]]
  /\ UNCHANGED <<files, nodes, journal, locals, other, interference>>

PutRecord(i) ==
  /\ Go(i, "store", "root")
  /\ nodes[i] = Parts
  /\ record' = [record EXCEPT ![i] = [name |-> name[i], head |-> FALSE]]
  /\ UNCHANGED <<files, nodes, journal, locals, other, interference>>

(* A node or the record cannot be stored: what was written is deleted, and *)
(* then the files.                                                         *)
StoreFails(i) ==
  /\ Go(i, "store", "unnodes")
  /\ left' = [left EXCEPT ![i] = nodes[i]]
  /\ UNCHANGED <<files, records, name, reserved, trouble, other, interference>>

DeleteNode(i, p) ==
  /\ pc[i] \in {"unnodes", "renodes"} /\ p \in left[i]
  /\ left' = [left EXCEPT ![i] = @ \ {p}]
  /\ nodes' = [nodes EXCEPT ![i] = @ \ {p}]
  /\ UNCHANGED <<files, record, journal, pc, name, reserved, trouble, other, interference>>

(* rollbackTasks goes on to the next task; rollbackImport stops.           *)
DeleteNodeFails(i, p) ==
  /\ pc[i] \in {"unnodes", "renodes"} /\ p \in left[i]
  /\ Interfere("fault", MaxFaults)
  /\ IF pc[i] = "unnodes"
     THEN /\ left' = [left EXCEPT ![i] = @ \ {p}]
          /\ trouble' = [trouble EXCEPT ![i] = TRUE]
          /\ UNCHANGED pc
     ELSE /\ pc' = [pc EXCEPT ![i] = "stuck"]
          /\ UNCHANGED <<left, trouble>>
  /\ UNCHANGED <<files, records, name, reserved, other>>

NodesGone(i) ==
  /\ left[i] = {}
  /\ Go(i, "unnodes", "unsource") \/ Go(i, "renodes", "rerecord")
  /\ UNCHANGED <<files, records, locals, other, interference>>

(* removePublishedDocument, by path, for both compensations.               *)
RemoveSource(i) ==
  /\ Go(i, "unsource", "unwork")
  /\ sources' = [sources EXCEPT ![Source(i)] = Nobody]
  /\ UNCHANGED <<works, records, locals, other, interference>>

RemoveWorking(i) ==
  /\ pc[i] = "unwork"
  /\ works' = [works EXCEPT ![name[i]] = Nobody]
  /\ pc' = [pc EXCEPT ![i] = IF record[i] # None THEN "renodes"
                             ELSE IF trouble[i] THEN "stuck" ELSE "failed"]
  /\ UNCHANGED <<sources, records, locals, other, interference>>

DeleteRecord(i) ==
  /\ Go(i, "rerecord", "failed")
  /\ record' = [record EXCEPT ![i] = None]
  /\ UNCHANGED <<files, nodes, journal, locals, other, interference>>

(* The Working copy may be gone, its directory not yet synchronized.       *)
CompensationFails(i) ==
  /\ pc[i] \in {"unsource", "unwork", "rerecord"}
  /\ Interfere("fault", MaxFaults)
  /\ pc' = [pc EXCEPT ![i] = "stuck"]
  /\ \/ UNCHANGED works
     \/ pc[i] = "unwork" /\ works' = [works EXCEPT ![name[i]] = Nobody]
  /\ UNCHANGED <<sources, records, locals, other>>

------------------------------------------------------------------------------
(* The root commit is the first in the document's FIFO.  It publishes over *)
(* a journal; a failure is recovered, or leaves the journal behind.        *)
RootJournals(i) ==
  /\ Go(i, "root", "journaled")
  /\ journal' = [journal EXCEPT ![i] = TRUE]
  /\ UNCHANGED <<files, nodes, record, locals, other, interference>>

RootPublishes(i) ==
  /\ Go(i, "journaled", "published")
  /\ record' = [record EXCEPT ![i].head = TRUE]
  /\ UNCHANGED <<files, nodes, journal, locals, other, interference>>

RootSettles(i) ==
  /\ Go(i, "published", "done")
  /\ journal' = [journal EXCEPT ![i] = FALSE]
  /\ UNCHANGED <<files, nodes, record, locals, other, interference>>

(* The rejection reaches establishDocument, which calls rollbackImport     *)
(* before anyone else can take the lease.                                  *)
RootFails(i) ==
  /\ \/ Go(i, "root", "rollback") /\ UNCHANGED journal
     \/ /\ Go(i, "journaled", "rollback")
        /\ \E retained \in BOOLEAN : journal' = [journal EXCEPT ![i] = retained]
     \/ Go(i, "published", "rollback") /\ UNCHANGED journal
  /\ UNCHANGED <<files, nodes, record, locals, other, interference>>

(* Slip: only a head keeps the import from being taken back.               *)
RollbackJournaled(i) ==
  /\ pc[i] = "rollback"
  /\ IF record[i].head
     THEN /\ pc' = [pc EXCEPT ![i] = "refused"]
          /\ UNCHANGED left
     ELSE /\ pc' = [pc EXCEPT ![i] = "unsource"]
          /\ left' = [left EXCEPT ![i] = nodes[i]]
  /\ UNCHANGED <<files, records, name, reserved, trouble, other, interference>>

(* rollbackImport refuses while a publication is retained or a head is     *)
(* set; otherwise it removes the files, the nodes and, last, the record.   *)
Rollback(i) ==
  /\ pc[i] = "rollback"
  /\ IF journal[i] \/ record[i].head
     THEN /\ pc' = [pc EXCEPT ![i] = "refused"]
          /\ UNCHANGED left
     ELSE /\ pc' = [pc EXCEPT ![i] = "unsource"]
          /\ left' = [left EXCEPT ![i] = nodes[i]]
  /\ UNCHANGED <<files, records, name, reserved, trouble, other, interference>>

------------------------------------------------------------------------------
(* Another caller's commit of the same document, behind the root commit in *)
(* the FIFO.  Its candidate index is built under the lease; after that it  *)
(* looks once more at the record and the file, and publishes.              *)
Committable(i) == record[i] # None /\ works[name[i]] # Nobody

Other(i, from, to) ==
  /\ other[i] = from
  /\ other' = [other EXCEPT ![i] = to]
  /\ UNCHANGED <<files, nodes, pc, locals, interference>>

(* Slip: the candidate index is built without the lease.                   *)
OtherStagesUnleased(i) ==
  /\ Committable(i) /\ ~journal[i] /\ pc[i] \notin Committing
  /\ Other(i, "idle", "staged")
  /\ UNCHANGED <<record, journal>>

OtherStages(i) ==
  /\ Committable(i) /\ ~journal[i] /\ pc[i] \notin Committing
  /\ ~Leased(i)
  /\ Other(i, "idle", "staged")
  /\ UNCHANGED <<record, journal>>

OtherJournals(i) ==
  /\ Committable(i)
  /\ Other(i, "staged", "journaled")
  /\ journal' = [journal EXCEPT ![i] = TRUE]
  /\ UNCHANGED record

OtherPublishes(i) ==
  /\ record[i] # None
  /\ Other(i, "journaled", "published")
  /\ record' = [record EXCEPT ![i].head = TRUE]
  /\ UNCHANGED journal

OtherEnds(i) ==
  /\ \/ Other(i, "staged", "idle") /\ UNCHANGED journal
     \/ /\ Other(i, "journaled", "idle") \/ Other(i, "published", "idle")
        /\ \E retained \in BOOLEAN : journal' = [journal EXCEPT ![i] = retained]
  /\ UNCHANGED record

(* The next commit, or the next start of the host, resolves a journal.     *)
Recover(i) ==
  /\ journal[i] /\ record[i] # None
  /\ pc[i] \notin {"journaled", "published"} /\ other[i] = "idle"
  /\ journal' = [journal EXCEPT ![i] = FALSE]
  /\ UNCHANGED <<files, nodes, record, pc, locals, other, interference>>

(* Somebody saves a file of his own at a free path.                        *)
Place ==
  /\ Interfere("foreign", MaxForeign)
  /\ \/ /\ \E n \in Names : works[n] = Nobody /\ works' = [works EXCEPT ![n] = Foreign]
        /\ UNCHANGED sources
     \/ /\ \E s \in Names \X Formats :
             sources[s] = Nobody /\ sources' = [sources EXCEPT ![s] = Foreign]
        /\ UNCHANGED works
  /\ UNCHANGED <<records, pc, locals, other>>

(* Nothing resumes an import that the host's death cut off.                *)
Crash ==
  /\ Interfere("crash", MaxCrashes)
  /\ pc' = [i \in Imports |->
       CASE pc[i] \in Ended \cup {"new"} -> pc[i]
         [] pc[i] \in Compensating /\ record[i] # None -> "torn"
         [] OTHER -> "lost"]
  /\ other' = [i \in Imports |-> "idle"]
  /\ UNCHANGED <<files, records, locals>>

Publish(i) ==
  \/ SkipReserved(i) \/ CopySource(i) \/ CopyFails(i) \/ LinkWorking(i)
  \/ LinkFails(i) \/ Unlink(i) \/ UnlinkLast(i) \/ UnlinkFails(i)
  \/ Seal(i) \/ SealFails(i)
Persist(i) == PutRecord(i) \/ StoreFails(i) \/ \E p \in Parts : PutNode(i, p)
Root(i) == RootJournals(i) \/ RootPublishes(i) \/ RootSettles(i) \/ RootFails(i)
Compensate(i) ==
  \/ Rollback(i) \/ RemoveSource(i) \/ RemoveWorking(i) \/ NodesGone(i)
  \/ \E p \in Parts : DeleteNode(i, p) \/ DeleteNodeFails(i, p)
  \/ DeleteRecord(i) \/ CompensationFails(i)
Import(i) == Publish(i) \/ Persist(i) \/ Root(i) \/ Compensate(i)
OtherCommit(i) ==
  OtherStages(i) \/ OtherJournals(i) \/ OtherPublishes(i) \/ OtherEnds(i)

Next ==
  \/ \E i \in Imports :
       Stage(i) \/ StageFails(i) \/ Import(i) \/ OtherCommit(i) \/ Recover(i)
  \/ Place \/ Crash

Spec == Init /\ [][Next]_vars
------------------------------------------------------------------------------
(* Every variable keeps to the values its comment names.                   *)
TypeOK ==
  /\ sources \in [Names \X Formats -> Imports \cup {Nobody, Foreign}]
  /\ works \in [Names -> Imports \cup {Nobody, Foreign}]
  /\ nodes \in [Imports -> SUBSET Parts]
  /\ record \in [Imports -> Record \cup {None}]
  /\ journal \in [Imports -> BOOLEAN]
  /\ pc \in [Imports -> Ended \cup Committing \cup Compensating \cup
               {"new", "copy", "link", "unlink", "seal", "store", "rollback"}]
  /\ name \in [Imports -> 1..(MaxName + 1)]
  /\ reserved \in [Imports -> SUBSET Names]
  /\ left \in [Imports -> SUBSET Parts]
  /\ trouble \in [Imports -> BOOLEAN]
  /\ other \in [Imports -> {"idle", "staged", "journaled", "published"}]
  /\ interference \in [crash : 0..MaxCrashes, fault : 0..MaxFaults,
                       foreign : 0..MaxForeign]

Tracked(i) == record[i] # None
Owns(i) ==
  \/ \E s \in Names \X Formats : sources[s] = i
  \/ \E n \in Names : works[n] = i
(* rollbackImport is, or was when it failed or died, taking it back.       *)
Undone(i) == pc[i] \in Compensating \cup {"stuck", "torn"}

(* A document that can be listed has its source, its Working copy and all  *)
(* its nodes, and no two share a file, unless it is being taken back.      *)
RecordComplete ==
  \A i \in Imports : Tracked(i) /\ ~Undone(i) =>
    /\ sources[<<record[i].name, Format[i]>>] = i
    /\ works[record[i].name] = i
    /\ nodes[i] = Parts

(* No compensation takes a document that anyone has published a version    *)
(* of, or is publishing one of, although commits and compensations lock    *)
(* the document differently.                                               *)
CommittedKept ==
  \A i \in Imports : journal[i] \/ (Tracked(i) /\ record[i].head) =>
    Tracked(i) /\ pc[i] \notin Compensating

(* An import reported as failed, and not as one that could not be taken    *)
(* back, has left no record and no node, and, when removing a file never   *)
(* failed, no file.                                                        *)
FailureLeavesNoRecord ==
  \A i \in Imports : pc[i] = "failed" =>
    /\ ~Tracked(i) /\ nodes[i] = {} /\ ~journal[i]
    /\ interference.fault = 0 => ~Owns(i)

(* Imports replace and remove no file but their own, and that only while   *)
(* they retry or are taken back.                                           *)
FilesKept ==
  [][/\ \A s \in Names \X Formats :
          sources[s] # Nobody /\ sources'[s] # sources[s] =>
            sources[s] # Foreign
            /\ pc[sources[s]] \in Compensating \cup {"unlink", "seal"}
     /\ \A n \in Names :
          works[n] # Nobody /\ works'[n] # works[n] =>
            works[n] # Foreign /\ pc[works[n]] \in Compensating \cup {"seal"}]_vars
==============================================================================
