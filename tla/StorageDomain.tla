----------------------------- MODULE StorageDomain -----------------------------
(***************************************************************************)
(* One storage domain (packages/storage/storage-domain) over the JSON      *)
(* backend (packages/storage/storage-json): the write chain, the memory    *)
(* that serves all reads, the unit with its own copy of the records, and   *)
(* the file that each write replaces as a whole by writing a temporary     *)
(* file, renaming it and synchronizing the directory.  Records of all      *)
(* tables are told apart by Keys.  Any file call may fail, the host may    *)
(* die at any step, and the power may fail, which undoes renames whose     *)
(* directory was not synchronized.                                         *)
(***************************************************************************)
EXTENDS Naturals, Sequences

CONSTANTS
  Calls, Keys, Values, Change, Absent, None, \* as in RecordStore
  MaxCrashes, MaxFaults \* how often the environment interferes

ASSUME StoreAssumption ==
  /\ {MaxCrashes, MaxFaults} \subseteq Nat
  /\ Absent \notin Values
  /\ None \notin [op : {"put", "delete", "update"}, key : Keys, value : Values]
  /\ Change \in [Values -> Values]

VARIABLES
  phase,    \* "closed", "open", or "draining" once close has begun
  records,  \* the domain's memory
  state,    \* the unit's copy
  file,     \* the unit file
  possible, \* the files a power failure may leave behind
  chain,    \* the write chain; its head is the job that runs
  pc,       \* the next step of that job
  previous, \* what its record held in the unit before it
  asked,    \* what each call asks for
  answer,   \* "new", "queued", "done", "rejected" or "lost" with the host
  promised, \* history: the acknowledged content of each record
  strays,   \* history: what unacknowledged writes have left on the medium
  interference \* how often the environment has interfered

memories == <<records, state, previous>>
medium == <<file, possible>>
callers == <<chain, asked, answer>>
history == <<promised, strays>>
vars == <<phase, memories, medium, callers, pc, history, interference>>

Content == Values \cup {Absent}
Image == [Keys -> Content]
Write == [op : {"put", "delete", "update"}, key : Keys, value : Values]
Empty == [k \in Keys |-> Absent]

Job == asked[Head(chain)]
Void == Job.op # "put" /\ records[Job.key] = Absent
Written(w) ==
  CASE w.op = "put" -> w.value
    [] w.op = "delete" -> Absent
    [] w.op = "update" -> Change[records[w.key]]

Interfere(kind, limit) ==
  /\ interference[kind] < limit
  /\ interference' = [interference EXCEPT ![kind] = @ + 1]

(* The running job settles; the chain goes on whatever became of it.       *)
Settle(how) ==
  /\ answer' = [answer EXCEPT ![Head(chain)] = how]
  /\ chain' = Tail(chain)
  /\ pc' = "idle"

(* The domain starts on what an earlier run of the host left.              *)
Init ==
  /\ \E image \in Image : file = image /\ possible = {image} /\ promised = image
  /\ phase = "closed"
  /\ records = Empty
  /\ state = Empty
  /\ chain = <<>>
  /\ pc = "idle"
  /\ previous = Absent
  /\ asked = [c \in Calls |-> None]
  /\ answer = [c \in Calls |-> "new"]
  /\ strays = [k \in Keys |-> {}]
  /\ interference = [crash |-> 0, fault |-> 0]

------------------------------------------------------------------------------
(* The file is loaded into the unit, and the unit's records into memory.   *)
Open ==
  /\ phase = "closed"
  /\ phase' = "open"
  /\ state' = file
  /\ records' = file
  /\ UNCHANGED <<previous, medium, callers, pc, history, interference>>

(* put, delete and update: queued while the domain is open, refused once   *)
(* close has begun.                                                        *)
Ask(c, w) ==
  /\ phase # "closed"
  /\ answer[c] = "new"
  /\ asked' = [asked EXCEPT ![c] = w]
  /\ IF phase = "open"
     THEN /\ answer' = [answer EXCEPT ![c] = "queued"]
          /\ chain' = Append(chain, c)
     ELSE /\ answer' = [answer EXCEPT ![c] = "rejected"]
          /\ UNCHANGED chain
  /\ UNCHANGED <<phase, memories, medium, pc, history, interference>>

(* A delete of nothing answers false, an update of nothing is refused.     *)
Skip ==
  /\ pc = "idle" /\ chain # <<>>
  /\ Void
  /\ Settle(IF Job.op = "delete" THEN "done" ELSE "rejected")
  /\ UNCHANGED <<phase, memories, medium, asked, history, interference>>

(* The unit takes the record over before it publishes.                     *)
Begin ==
  /\ pc = "idle" /\ chain # <<>>
  /\ ~Void
  /\ previous' = state[Job.key]
  /\ state' = [state EXCEPT ![Job.key] = Written(Job)]
  /\ pc' = "write"
  /\ UNCHANGED <<phase, records, medium, callers, history, interference>>

(* The temporary file, complete and synchronized, takes the file's place.  *)
Rename ==
  /\ pc = "write"
  /\ file' = state
  /\ possible' = possible \cup {state}
  /\ strays' = [strays EXCEPT ![Job.key] = @ \cup {state[Job.key]}]
  /\ pc' = "sync"
  /\ UNCHANGED <<phase, memories, callers, promised, interference>>

(* Slip: the directory is not synchronized.                                *)
SyncNothing ==
  /\ pc = "sync"
  /\ pc' = "remember"
  /\ UNCHANGED <<phase, memories, medium, callers, history, interference>>

SyncDirectory ==
  /\ pc = "sync"
  /\ possible' = {file}
  /\ pc' = "remember"
  /\ UNCHANGED <<phase, memories, file, callers, history, interference>>

(* Only now do memory, and with it every read, change.                     *)
Remember ==
  /\ pc = "remember"
  /\ LET k == Job.key IN
     /\ records' = [records EXCEPT ![k] = Written(Job)]
     /\ promised' = [promised EXCEPT ![k] = Written(Job)]
     /\ strays' = [strays EXCEPT ![k] = {}]
  /\ Settle("done")
  /\ UNCHANGED <<phase, state, previous, medium, asked, interference>>

(* Slip: a failed publish is not answered and holds up the chain.          *)
PublishHangs ==
  /\ pc \in {"write", "sync"}
  /\ Interfere("fault", MaxFaults)
  /\ pc' = "failed"
  /\ UNCHANGED <<phase, memories, medium, callers, history>>

(* Writing, renaming or synchronizing fails: the unit takes its record     *)
(* back, the caller is told, and memory is as it was.                      *)
PublishFails ==
  /\ pc \in {"write", "sync"}
  /\ Interfere("fault", MaxFaults)
  /\ state' = [state EXCEPT ![Job.key] = previous]
  /\ Settle("rejected")
  /\ UNCHANGED <<phase, records, previous, medium, asked, history>>

------------------------------------------------------------------------------
(* close: new writes are refused at once, queued ones are drained.         *)
Close ==
  /\ phase = "open"
  /\ phase' = "draining"
  /\ UNCHANGED <<memories, medium, callers, pc, history, interference>>

(* Slip: close does not wait for queued writes.                            *)
DrainedEarly ==
  /\ phase = "draining"
  /\ phase' = "closed"
  /\ UNCHANGED <<memories, medium, callers, pc, history, interference>>

Drained ==
  /\ phase = "draining"
  /\ chain = <<>>
  /\ phase' = "closed"
  /\ UNCHANGED <<memories, medium, callers, pc, history, interference>>

(* The host dies.  What was renamed is in the file; after a power failure  *)
(* it is one of the files since the last synchronized directory.           *)
Crash ==
  /\ Interfere("crash", MaxCrashes)
  /\ phase' = "closed"
  /\ \/ UNCHANGED medium
     \/ file' \in possible /\ possible' = {file'}
  /\ chain' = <<>>
  /\ pc' = "idle"
  /\ answer' = [c \in Calls |-> IF answer[c] = "queued" THEN "lost"
                                                        ELSE answer[c]]
  /\ UNCHANGED <<memories, asked, history>>

Work ==
  Skip \/ Begin \/ Rename \/ SyncDirectory \/ Remember \/ PublishFails \/ Drained
Next ==
  \/ Open
  \/ \E c \in Calls, w \in Write : Ask(c, w)
  \/ Work
  \/ Close \/ Crash

Spec == Init /\ [][Next]_vars

(* The event loop resumes a job whose file call has settled.               *)
FairSpec == Spec /\ WF_vars(Work)
------------------------------------------------------------------------------
(* Every variable keeps to the values its comment names.                   *)
TypeOK ==
  /\ phase \in {"closed", "open", "draining"}
  /\ records \in Image
  /\ state \in Image
  /\ file \in Image
  /\ possible \in SUBSET Image
  /\ chain \in Seq(Calls)
  /\ pc \in {"idle", "write", "sync", "remember"}
  /\ previous \in Content
  /\ asked \in [Calls -> Write \cup {None}]
  /\ answer \in [Calls -> {"new", "queued", "done", "rejected", "lost"}]
  /\ promised \in Image
  /\ strays \in [Keys -> SUBSET Content]
  /\ interference \in [crash : 0..MaxCrashes, fault : 0..MaxFaults]

Survives(image) ==
  \A k \in Keys : image[k] \in {promised[k]} \cup strays[k]

(* Whatever reads see and whatever file a crash leaves behind, each record *)
(* in it is the one last acknowledged, or one of a write that reached the  *)
(* medium, was not acknowledged, and has not been overwritten since: no    *)
(* acknowledged write is lost, and no failed write travels with a later    *)
(* one.                                                                    *)
AcknowledgedSurvives ==
  /\ \A image \in possible \cup {file} : Survives(image)
  /\ phase # "closed" => Survives(records)

(* Every write that was queued is answered, or lost with the host, and a   *)
(* close that has begun comes to its end.                                  *)
EveryWriteSettles ==
  \A c \in Calls : answer[c] = "queued" ~> answer[c] # "queued"
CloseFinishes == phase = "draining" ~> phase = "closed"
EverythingSettles == EveryWriteSettles /\ CloseFinishes

(* The inductive invariant: a closed domain is at rest; between jobs the   *)
(* unit agrees with memory, so that the next publish carries nothing a     *)
(* caller was not shown; during a job it is one record ahead, and that     *)
(* record is on the medium only as a stray.                                *)
RestInv == phase = "closed" => chain = <<>> /\ pc = "idle"
ChainInv ==
  \A i \in 1..Len(chain) :
    asked[chain[i]] \in Write /\ answer[chain[i]] # "new"
QueuedInv ==
  \A c \in Calls : answer[c] = "queued" => \E i \in 1..Len(chain) : chain[i] = c
UnitInv == (phase # "closed" /\ pc = "idle") => state = records
JobInv ==
  pc # "idle" =>
    /\ chain # <<>>
    /\ ~Void
    /\ previous = records[Job.key]
    /\ state = [records EXCEPT ![Job.key] = Written(Job)]
MediumInv ==
  /\ file \in possible
  /\ pc \in {"sync", "remember"} =>
       file = state /\ Written(Job) \in strays[Job.key]
  /\ pc = "remember" => possible = {file}
StorageInv ==
  /\ RestInv /\ ChainInv /\ QueuedInv
  /\ UnitInv /\ JobInv /\ MediumInv
  /\ AcknowledgedSurvives

(* Through what its callers can see the domain is a RecordStore.           *)
Store == INSTANCE RecordStore WITH
  memory <- IF phase = "closed" THEN file ELSE records,
  queue <- chain
RefinesStore == Store!RSpec
==============================================================================
