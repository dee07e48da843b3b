-------------------------- MODULE StorageDomainProofs --------------------------
(***************************************************************************)
(* The storage domain keeps its promise for any number of records, calls,  *)
(* crashes and failures, and implements RecordStore.                       *)
(***************************************************************************)
EXTENDS StorageDomain, SequenceTheorems, TLAPS

LEMMA InitTypes == Init => TypeOK
BY StoreAssumption
   DEF Init, TypeOK, Empty, Image, Content, StoreAssumption

(* What the running job writes is a content of a record.                   *)
LEMMA WrittenType ==
  ASSUME records \in Image, NEW w \in Write, w.op # "put" => records[w.key] # Absent
  PROVE  Written(w) \in Content
BY StoreAssumption
   DEF StoreAssumption, Written, Image, Content, Write

LEMMA StepTypes ==
  ASSUME TypeOK, StorageInv, [Next]_vars
  PROVE  TypeOK'
<1> USE DEF TypeOK, medium, memories, callers, history, Image, Content
<1>1. ASSUME NEW c \in Calls, NEW w \in Write, Ask(c, w) PROVE TypeOK'
  <2>1. asked' \in [Calls -> Write \cup {None}]
    BY <1>1 DEF Ask
  <2>2. /\ answer' \in [Calls -> {"new", "queued", "done", "rejected", "lost"}]
        /\ chain' \in Seq(Calls)
    <3>1. CASE phase = "open"
      <4>1. /\ answer' = [answer EXCEPT ![c] = "queued"]
            /\ chain' = Append(chain, c)
        BY <1>1, <3>1 DEF Ask
      <4> QED
        BY <4>1
    <3>2. CASE phase # "open"
      <4>1. /\ answer' = [answer EXCEPT ![c] = "rejected"]
            /\ chain' = chain
        BY <1>1, <3>2 DEF Ask
      <4> QED
        BY <4>1
    <3> QED
      BY <3>1, <3>2
  <2>3. UNCHANGED <<phase, memories, medium, pc, history, interference>>
    BY <1>1 DEF Ask
  <2> QED
    BY <2>1, <2>2, <2>3
<1>2. ASSUME chain # <<>>, NEW how \in {"done", "rejected"}, Settle(how)
      PROVE  /\ answer' \in [Calls -> {"new", "queued", "done", "rejected", "lost"}]
             /\ chain' \in Seq(Calls)
             /\ pc' = "idle"
  <2>1. Head(chain) \in Calls /\ Tail(chain) \in Seq(Calls)
    BY <1>2
  <2> QED
    BY <1>2, <2>1 DEF Settle
<1>3. CASE Open
  BY <1>3 DEF Open
<1>4. CASE Skip
  BY <1>4, <1>2 DEF Skip
<1>5. ASSUME chain # <<>>, asked[Head(chain)] \in Write, ~Void
      PROVE  Job \in Write /\ Job.key \in Keys /\ Written(Job) \in Content
  BY <1>5, WrittenType DEF Job, Void, Write
<1>6. chain # <<>> => asked[Head(chain)] \in Write
  BY DEF StorageInv, ChainInv
<1>7. CASE Begin
  BY <1>7, <1>5, <1>6 DEF Begin
<1>8. pc # "idle" => Job \in Write /\ Job.key \in Keys /\ Written(Job) \in Content /\ chain # <<>>
  BY <1>5, <1>6 DEF StorageInv, JobInv
<1>9. CASE Rename
  BY <1>9, <1>8 DEF Rename
<1>10. CASE SyncDirectory
  BY <1>10 DEF SyncDirectory
<1>11. CASE Remember
  BY <1>11, <1>8, <1>2 DEF Remember
<1>12. CASE PublishFails
  <2>1. interference' \in [crash : 0..MaxCrashes, fault : 0..MaxFaults]
    BY <1>12, StoreAssumption DEF PublishFails, Interfere, StoreAssumption
  <2> QED
    BY <1>12, <1>8, <1>2, <2>1 DEF PublishFails
<1>13. CASE Close \/ Drained
  BY <1>13 DEF Close, Drained
<1>14. CASE Crash
  <2>1. interference' \in [crash : 0..MaxCrashes, fault : 0..MaxFaults]
    BY <1>14, StoreAssumption DEF Crash, Interfere, StoreAssumption
  <2> QED
    BY <1>14, <2>1 DEF Crash
<1>15. CASE UNCHANGED vars
  BY <1>15 DEF vars
<1> QED
  BY <1>1, <1>3, <1>4, <1>7, <1>9, <1>10, <1>11, <1>12, <1>13, <1>14, <1>15
  DEF Next, Work

------------------------------------------------------------------------------
LEMMA InitInv == Init => StorageInv
BY DEF Init, StorageInv, RestInv, ChainInv, QueuedInv, UnitInv, JobInv, MediumInv,
       AcknowledgedSurvives, Survives, Empty

LEMMA AskInv ==
  ASSUME TypeOK, StorageInv, NEW c \in Calls, NEW w \in Write, Ask(c, w)
  PROVE  StorageInv'
<1>1. \A i \in 1..Len(chain) : chain[i] \in Calls /\ chain[i] # c
  BY DEF TypeOK, StorageInv, ChainInv, Ask
<1>2. chain # <<>> => Len(chain) \in Nat \ {0} /\ Head(chain) = chain[1]
  BY DEF TypeOK
<1>3. chain # <<>> => /\ chain' # <<>>
                      /\ Head(chain') = Head(chain)
                      /\ asked'[Head(chain)] = asked[Head(chain)]
  <2>1. CASE phase = "open"
    <3>1. chain' = Append(chain, c)
      BY <2>1 DEF Ask
    <3> QED
      BY <3>1, <1>1, <1>2 DEF TypeOK, Ask
  <2>2. CASE phase # "open"
    <3>1. chain' = chain
      BY <2>2 DEF Ask
    <3> QED
      BY <3>1, <1>1, <1>2 DEF TypeOK, Ask
  <2> QED
    BY <2>1, <2>2
<1>4. UNCHANGED <<phase, records, state, previous, file, possible, pc,
                  promised, strays>>
  BY DEF Ask, memories, medium, history
<1>5. chain # <<>> => Job' = Job /\ (Void <=> Void') /\ Written(Job)' = Written(Job)
  BY <1>3, <1>4 DEF Job, Void, Written
<1>6. RestInv'
  BY <1>4 DEF StorageInv, RestInv, Ask
<1>7. ChainInv'
  <2> SUFFICES ASSUME NEW i \in 1..Len(chain')
               PROVE  asked'[chain'[i]] \in Write /\ answer'[chain'[i]] # "new"
    BY DEF ChainInv
  <2>1. asked' = [asked EXCEPT ![c] = w]
    BY DEF Ask
  <2>2. CASE phase = "open"
    <3>1. chain' = Append(chain, c) /\ answer' = [answer EXCEPT ![c] = "queued"]
      BY <2>2 DEF Ask
    <3>2. CASE i = Len(chain) + 1
      BY <3>1, <3>2, <2>1 DEF TypeOK
    <3>3. CASE i # Len(chain) + 1
      <4>1. i \in 1..Len(chain) /\ chain'[i] = chain[i]
        BY <3>1, <3>3 DEF TypeOK
      <4> QED
        BY <4>1, <3>1, <2>1, <1>1 DEF TypeOK, StorageInv, ChainInv
    <3> QED
      BY <3>2, <3>3
  <2>3. CASE phase # "open"
    <3>1. chain' = chain /\ answer' = [answer EXCEPT ![c] = "rejected"]
      BY <2>3 DEF Ask
    <3> QED
      BY <3>1, <2>1, <1>1 DEF TypeOK, StorageInv, ChainInv
  <2> QED
    BY <2>2, <2>3
<1>12. QueuedInv'
  <2> SUFFICES ASSUME NEW d \in Calls, answer'[d] = "queued"
               PROVE  \E i \in 1..Len(chain') : chain'[i] = d
    BY DEF QueuedInv
  <2>2. CASE phase = "open"
    <3>1. chain' = Append(chain, c) /\ answer' = [answer EXCEPT ![c] = "queued"]
      BY <2>2 DEF Ask
    <3>2. CASE d = c
      <4>1. chain'[Len(chain) + 1] = c /\ Len(chain) + 1 \in 1..Len(chain')
        BY <3>1 DEF TypeOK
      <4> QED
        BY <4>1, <3>2
    <3>3. CASE d # c
      <4>1. PICK i \in 1..Len(chain) : chain[i] = d
        BY <3>1, <3>3 DEF TypeOK, StorageInv, QueuedInv
      <4>2. i \in 1..Len(chain') /\ chain'[i] = d
        BY <3>1, <4>1 DEF TypeOK
      <4> QED
        BY <4>2
    <3> QED
      BY <3>2, <3>3
  <2>3. CASE phase # "open"
    <3>1. chain' = chain /\ answer' = [answer EXCEPT ![c] = "rejected"]
      BY <2>3 DEF Ask
    <3> QED
      BY <3>1 DEF TypeOK, StorageInv, QueuedInv
  <2> QED
    BY <2>2, <2>3
<1>8. UnitInv'
  BY <1>4 DEF StorageInv, UnitInv
<1>9. JobInv'
  BY <1>3, <1>4, <1>5 DEF StorageInv, JobInv
<1>10. MediumInv'
  BY <1>4, <1>5 DEF StorageInv, MediumInv, JobInv
<1>11. AcknowledgedSurvives'
  BY <1>4 DEF StorageInv, AcknowledgedSurvives, Survives
<1> QED
  BY <1>6, <1>7, <1>8, <1>9, <1>10, <1>11, <1>12 DEF StorageInv

(* A job that settles leaves the rest of the chain as it was.              *)
LEMMA SettleChain ==
  ASSUME TypeOK, ChainInv, QueuedInv, chain # <<>>, NEW how \in {"done", "rejected"},
         Settle(how), UNCHANGED asked
  PROVE  ChainInv' /\ QueuedInv'
<1>1. /\ Len(chain') = Len(chain) - 1
      /\ \A i \in 1..Len(chain') : chain'[i] = chain[i + 1]
      /\ Len(chain) \in Nat
  BY DEF Settle, TypeOK
<1>2. \A i \in 1..Len(chain') : i + 1 \in 1..Len(chain)
  BY <1>1
<1>3. \A i \in 1..Len(chain) : chain[i] \in Calls
  BY DEF TypeOK
<1>4. ChainInv'
  BY <1>1, <1>2, <1>3 DEF Settle, TypeOK, ChainInv
<1>5. QueuedInv'
  <2> SUFFICES ASSUME NEW d \in Calls, answer'[d] = "queued"
               PROVE  \E i \in 1..Len(chain') : chain'[i] = d
    BY DEF QueuedInv
  <2>1. d # Head(chain) /\ answer[d] = "queued" /\ Head(chain) = chain[1]
    BY DEF Settle, TypeOK
  <2>2. PICK i \in 1..Len(chain) : chain[i] = d
    BY <2>1 DEF QueuedInv
  <2>3. i # 1
    BY <2>1, <2>2
  <2>4. i - 1 \in 1..Len(chain') /\ chain'[i - 1] = chain[(i - 1) + 1]
    BY <1>1, <2>2, <2>3
  <2> QED
    BY <2>2, <2>4
<1> QED
  BY <1>4, <1>5

LEMMA JobFacts ==
  ASSUME TypeOK, StorageInv, pc # "idle"
  PROVE  /\ chain # <<>>
         /\ Head(chain) \in Calls
         /\ Job \in Write
         /\ Job.key \in Keys
         /\ Written(Job) \in Content
         /\ phase # "closed"
<1>1. chain # <<>> /\ ~Void /\ phase # "closed"
  BY DEF StorageInv, JobInv, RestInv
<1>2. Job \in Write
  BY <1>1 DEF StorageInv, ChainInv, Job, TypeOK
<1>3. Head(chain) \in Calls
  BY <1>1 DEF TypeOK
<1> QED
  BY <1>1, <1>2, <1>3, WrittenType DEF TypeOK, Write, Void

LEMMA BeginInv == ASSUME TypeOK, StorageInv, Begin PROVE StorageInv'
<1>1. UNCHANGED <<phase, records, file, possible, chain, asked, answer, promised, strays>>
  BY DEF Begin, medium, callers, history
<1>2. Job' = Job /\ (Void' <=> Void) /\ Written(Job)' = Written(Job)
  BY <1>1 DEF Job, Void, Written
<1>3. phase # "closed"
  BY DEF StorageInv, RestInv, Begin
<1>4. state = records /\ chain # <<>> /\ ~Void
  BY <1>3 DEF StorageInv, UnitInv, Begin
<1>5. JobInv'
  BY <1>1, <1>2, <1>4 DEF Begin, JobInv
<1>6. RestInv' /\ ChainInv' /\ QueuedInv' /\ UnitInv'
  BY <1>1, <1>3 DEF StorageInv, RestInv, ChainInv, QueuedInv, UnitInv, Begin
<1>7. MediumInv'
  BY <1>1 DEF StorageInv, MediumInv, Begin
<1>8. AcknowledgedSurvives'
  BY <1>1 DEF StorageInv, AcknowledgedSurvives, Survives
<1> QED
  BY <1>5, <1>6, <1>7, <1>8 DEF StorageInv

LEMMA RenameInv == ASSUME TypeOK, StorageInv, Rename PROVE StorageInv'
<1>1. UNCHANGED <<phase, records, state, previous, chain, asked, answer, promised>>
  BY DEF Rename, memories, callers
<1>2. Job' = Job /\ (Void' <=> Void) /\ Written(Job)' = Written(Job)
  BY <1>1 DEF Job, Void, Written
<1>3. /\ Job.key \in Keys /\ Written(Job) \in Content /\ phase # "closed"
      /\ state = [records EXCEPT ![Job.key] = Written(Job)]
  BY JobFacts DEF Rename, StorageInv, JobInv
<1>4. state[Job.key] = Written(Job) /\ Written(Job) \in strays'[Job.key]
  BY <1>3 DEF Rename, TypeOK, Image
<1>5. \A k \in Keys : strays[k] \subseteq strays'[k]
  BY <1>3 DEF Rename, TypeOK
<1>6. RestInv' /\ ChainInv' /\ QueuedInv' /\ UnitInv' /\ JobInv'
  BY <1>1, <1>2 DEF StorageInv, RestInv, ChainInv, QueuedInv, UnitInv, JobInv, Rename
<1>7. MediumInv'
  BY <1>1, <1>2, <1>4 DEF MediumInv, Rename
<1>8. AcknowledgedSurvives'
  <2>1. \A k \in Keys : records[k] \in {promised[k]} \cup strays'[k]
    BY <1>3, <1>5 DEF StorageInv, AcknowledgedSurvives, Survives
  <2>2. \A k \in Keys : state[k] \in {promised[k]} \cup strays'[k]
    BY <2>1, <1>3, <1>4 DEF TypeOK, Image
  <2>3. \A image \in possible, k \in Keys :
          image[k] \in {promised[k]} \cup strays'[k]
    BY <1>5 DEF StorageInv, AcknowledgedSurvives, Survives
  <2>4. possible' \cup {file'} = possible \cup {state}
    BY DEF Rename
  <2> QED
    BY <1>1, <2>1, <2>2, <2>3, <2>4 DEF AcknowledgedSurvives, Survives
<1> QED
  BY <1>6, <1>7, <1>8 DEF StorageInv

LEMMA SyncInv == ASSUME TypeOK, StorageInv, SyncDirectory PROVE StorageInv'
<1>1. UNCHANGED <<phase, records, state, previous, file, chain, asked, answer, promised, strays>>
  BY DEF SyncDirectory, memories, callers, history
<1>2. Job' = Job /\ (Void' <=> Void) /\ Written(Job)' = Written(Job)
  BY <1>1 DEF Job, Void, Written
<1>3. RestInv' /\ ChainInv' /\ QueuedInv' /\ UnitInv' /\ JobInv'
  BY <1>1, <1>2, JobFacts
  DEF StorageInv, RestInv, ChainInv, QueuedInv, UnitInv, JobInv, SyncDirectory
<1>4. MediumInv'
  BY <1>1, <1>2 DEF StorageInv, MediumInv, SyncDirectory
<1>5. AcknowledgedSurvives'
  BY <1>1 DEF StorageInv, AcknowledgedSurvives, Survives, SyncDirectory
<1> QED
  BY <1>3, <1>4, <1>5 DEF StorageInv

LEMMA RememberInv == ASSUME TypeOK, StorageInv, Remember PROVE StorageInv'
<1>1. UNCHANGED <<phase, state, previous, file, possible, asked>> /\ pc = "remember"
  BY DEF Remember, medium
<1>2. /\ chain # <<>> /\ Job.key \in Keys /\ Written(Job) \in Content
      /\ phase # "closed"
  BY <1>1, JobFacts
<1>3. /\ state = [records EXCEPT ![Job.key] = Written(Job)]
      /\ file = state /\ possible = {file}
  BY <1>1 DEF StorageInv, JobInv, MediumInv
<1>4. records' = state /\ pc' = "idle"
  BY <1>3 DEF Remember, Settle
<1>5. ChainInv' /\ QueuedInv'
  BY <1>2, SettleChain DEF StorageInv, Remember
<1>6. RestInv' /\ UnitInv' /\ JobInv' /\ MediumInv'
  BY <1>1, <1>2, <1>3, <1>4 DEF StorageInv, RestInv, UnitInv, JobInv, MediumInv
<1>7. AcknowledgedSurvives'
  <2>1. \A k \in Keys : records'[k] \in {promised'[k]} \cup strays'[k]
    <3> SUFFICES ASSUME NEW k \in Keys
                 PROVE  records'[k] \in {promised'[k]} \cup strays'[k]
      OBVIOUS
    <3>1. CASE k = Job.key
      BY <3>1, <1>2 DEF Remember, TypeOK, Image
    <3>2. CASE k # Job.key
      <4>1. records'[k] = records[k] /\ promised'[k] = promised[k] /\ strays'[k] = strays[k]
        BY <3>2, <1>2 DEF Remember, TypeOK, Image
      <4> QED
        BY <4>1, <1>2 DEF StorageInv, AcknowledgedSurvives, Survives
    <3> QED
      BY <3>1, <3>2
  <2> QED
    BY <2>1, <1>1, <1>3, <1>4 DEF AcknowledgedSurvives, Survives
<1> QED
  BY <1>5, <1>6, <1>7 DEF StorageInv

LEMMA FailInv == ASSUME TypeOK, StorageInv, PublishFails PROVE StorageInv'
<1>1. UNCHANGED <<phase, records, file, possible, asked, promised, strays>> /\ pc # "idle"
  BY DEF PublishFails, medium, history
<1>2. chain # <<>> /\ Job.key \in Keys /\ phase # "closed"
  BY <1>1, JobFacts
<1>3. /\ state = [records EXCEPT ![Job.key] = Written(Job)]
      /\ previous = records[Job.key]
  BY <1>1 DEF StorageInv, JobInv
<1>4. state' = records /\ pc' = "idle"
  BY <1>2, <1>3 DEF PublishFails, Settle, TypeOK, Image
<1>5. ChainInv' /\ QueuedInv'
  BY <1>2, SettleChain DEF StorageInv, PublishFails
<1>6. RestInv' /\ UnitInv' /\ JobInv' /\ MediumInv'
  BY <1>1, <1>2, <1>4 DEF StorageInv, RestInv, UnitInv, JobInv, MediumInv
<1>7. AcknowledgedSurvives'
  BY <1>1 DEF StorageInv, AcknowledgedSurvives, Survives
<1> QED
  BY <1>5, <1>6, <1>7 DEF StorageInv

LEMMA SkipInv == ASSUME TypeOK, StorageInv, Skip PROVE StorageInv'
<1>1. /\ UNCHANGED <<phase, records, state, previous, file, possible, asked, promised, strays>>
      /\ pc = "idle" /\ pc' = "idle" /\ chain # <<>>
  BY DEF Skip, memories, medium, history, Settle
<1>2. ChainInv' /\ QueuedInv'
  BY <1>1, SettleChain DEF StorageInv, Skip
<1>3. RestInv' /\ UnitInv' /\ JobInv' /\ MediumInv'
  BY <1>1 DEF StorageInv, RestInv, UnitInv, JobInv, MediumInv
<1>4. AcknowledgedSurvives'
  BY <1>1 DEF StorageInv, AcknowledgedSurvives, Survives
<1> QED
  BY <1>2, <1>3, <1>4 DEF StorageInv

LEMMA PhaseInv ==
  ASSUME TypeOK, StorageInv, Open \/ Close \/ Drained \/ Crash
  PROVE  StorageInv'
<1>1. CASE Open
  <2>1. /\ UNCHANGED <<previous, file, possible, chain, asked, answer, pc, promised, strays>>
        /\ state' = file /\ records' = file /\ pc = "idle"
    BY <1>1 DEF Open, medium, callers, history, StorageInv, RestInv
  <2>2. Survives(file)
    BY DEF StorageInv, AcknowledgedSurvives
  <2> QED
    BY <1>1, <2>1, <2>2 DEF Open, StorageInv, RestInv, ChainInv, QueuedInv, UnitInv, JobInv,
         MediumInv, AcknowledgedSurvives, Survives
<1>2. CASE Close
  <2>1. /\ UNCHANGED <<memories, medium, callers, pc, history>>
        /\ phase = "open" /\ phase' = "draining"
    BY <1>2 DEF Close
  <2>2. Job' = Job /\ (Void' <=> Void) /\ Written(Job)' = Written(Job)
    BY <2>1 DEF Job, Void, Written, memories, callers
  <2> QED
    BY <2>1, <2>2 DEF memories, medium, callers, history, StorageInv, RestInv,
         ChainInv, QueuedInv, UnitInv, JobInv, MediumInv, AcknowledgedSurvives, Survives
<1>3. CASE Drained
  <2>1. /\ UNCHANGED <<memories, medium, callers, pc, history>>
        /\ phase' = "closed" /\ chain = <<>> /\ pc = "idle"
    BY <1>3 DEF Drained, StorageInv, JobInv
  <2> QED
    BY <2>1 DEF memories, medium, callers, history, StorageInv, RestInv,
         ChainInv, QueuedInv, UnitInv, JobInv, MediumInv, AcknowledgedSurvives, Survives
<1>4. CASE Crash
  <2>1. /\ UNCHANGED <<promised, strays>>
        /\ phase' = "closed" /\ chain' = <<>> /\ pc' = "idle"
    BY <1>4 DEF Crash, history
  <2>3. \A c \in Calls : answer'[c] # "queued"
    BY <1>4 DEF Crash
  <2>2. file' \in possible' /\ possible' \subseteq possible
    BY <1>4 DEF Crash, medium, StorageInv, MediumInv
  <2> QED
    BY <2>1, <2>2, <2>3 DEF StorageInv, RestInv, ChainInv, QueuedInv, UnitInv, JobInv, MediumInv,
         AcknowledgedSurvives, Survives
<1> QED
  BY <1>1, <1>2, <1>3, <1>4

LEMMA StepInv == ASSUME TypeOK, StorageInv, [Next]_vars PROVE StorageInv'
<1>1. CASE UNCHANGED vars
  <2>1. Job' = Job /\ (Void' <=> Void) /\ Written(Job)' = Written(Job)
    BY <1>1 DEF Job, Void, Written, vars, memories, callers
  <2> QED
    BY <1>1, <2>1 DEF vars, memories, medium, callers, history, StorageInv, RestInv,
         ChainInv, QueuedInv, UnitInv, JobInv, MediumInv, AcknowledgedSurvives, Survives
<1> QED
  BY <1>1, AskInv, BeginInv, RenameInv, SyncInv, RememberInv, FailInv, SkipInv,
     PhaseInv DEF Next, Work

(* The invariant that TLC checks holds of every domain.                    *)
THEOREM StorageConsistent == Spec => [](TypeOK /\ StorageInv)
<1>1. Init => TypeOK /\ StorageInv
  BY InitTypes, InitInv
<1>2. TypeOK /\ StorageInv /\ [Next]_vars => TypeOK' /\ StorageInv'
  BY StepTypes, StepInv
<1> QED
  BY <1>1, <1>2, PTL DEF Spec

(* No acknowledged write is lost, whatever fails and whenever the host     *)
(* dies, and what a failed write may leave behind is confined to its own   *)
(* record: writeAtomic, the unit's rollback and the domain's write chain.  *)
THEOREM AcknowledgedKept == Spec => []AcknowledgedSurvives
<1>1. StorageInv => AcknowledgedSurvives
  BY DEF StorageInv
<1> QED
  BY <1>1, StorageConsistent, PTL

------------------------------------------------------------------------------
(* Of an open domain callers see the memory, of a closed one the file.     *)
LEMMA OpenStep ==
  ASSUME phase # "closed", phase' = phase
  PROVE  /\ (IF phase = "closed" THEN file ELSE records) = records
         /\ (IF phase = "closed" THEN file ELSE records)' = records'
OBVIOUS

LEMMA JobRefines ==
  ASSUME TypeOK, StorageInv, Skip \/ Rename \/ Remember \/ PublishFails
  PROVE  \E c \in Calls :
           Store!Skip(c) \/ Store!Leave(c) \/ Store!Commit(c) \/ Store!Reject(c)
<1> DEFINE c == Head(chain)
<1>1. chain # <<>> /\ phase # "closed" /\ phase' = phase
  BY JobFacts DEF Skip, Rename, Remember, PublishFails, StorageInv, RestInv
<1>2. c \in Calls /\ asked[c] = Job
  BY <1>1 DEF TypeOK, Job
<1>3. /\ (IF phase = "closed" THEN file ELSE records) = records
      /\ (IF phase = "closed" THEN file ELSE records)' = records'
  BY <1>1, OpenStep
<1>4. Store!Written(records, Job) = Written(Job)
  BY DEF Store!Written, Written
<1>5. Store!Void(records, Job) <=> Void
  BY DEF Store!Void, Void
<1>6. CASE Skip
  <2>1. /\ Settle(IF Job.op = "delete" THEN "done" ELSE "rejected") /\ Void
        /\ UNCHANGED <<records, promised, strays, asked>>
    BY <1>6 DEF Skip, memories, history
  <2>2. Store!Skip(c)
    BY <2>1, <1>1, <1>2, <1>3, <1>5 DEF Store!Skip, Store!Answer, Settle
  <2> QED
    BY <2>2, <1>2
<1>7. CASE Rename
  <2>1. /\ ~Void /\ state[Job.key] = Written(Job)
        /\ UNCHANGED <<records, promised, chain, asked, answer>>
    <3>1. /\ pc # "idle" /\ UNCHANGED <<records, promised, chain, asked, answer>>
      BY <1>7 DEF Rename, memories, callers
    <3>2. Job.key \in Keys
      BY <3>1, JobFacts
    <3> QED
      BY <3>1, <3>2 DEF StorageInv, JobInv, TypeOK, Image
  <2>2. strays' = [strays EXCEPT ![Job.key] = @ \cup {Written(Job)}]
    BY <1>7, <2>1 DEF Rename
  <2>3. Store!Leave(c)
    BY <2>1, <2>2, <1>1, <1>2, <1>3, <1>4, <1>5 DEF Store!Leave
  <2> QED
    BY <2>3, <1>2
<1>8. CASE Remember
  <2>1. /\ ~Void /\ Written(Job) \in strays[Job.key]
        /\ Settle("done") /\ UNCHANGED asked
        /\ records' = [records EXCEPT ![Job.key] = Written(Job)]
        /\ promised' = [promised EXCEPT ![Job.key] = Written(Job)]
        /\ strays' = [strays EXCEPT ![Job.key] = {}]
    BY <1>8 DEF Remember, StorageInv, JobInv, MediumInv
  <2>2. Store!Answer(c, "done")
    BY <2>1, <1>1 DEF Store!Answer, Settle
  <2>3. Store!Commit(c)
    BY <2>1, <2>2, <1>2, <1>3, <1>4, <1>5 DEF Store!Commit
  <2> QED
    BY <2>3, <1>2
<1>9. CASE PublishFails
  <2>1. Settle("rejected") /\ UNCHANGED <<records, promised, strays, asked>>
    BY <1>9 DEF PublishFails, history
  <2>2. Store!Reject(c)
    BY <2>1, <1>1, <1>3 DEF Store!Reject, Store!Answer, Settle
  <2> QED
    BY <2>2, <1>2
<1> QED
  BY <1>6, <1>7, <1>8, <1>9

LEMMA AskRefines ==
  ASSUME TypeOK, NEW d \in Calls, NEW w \in Write, Ask(d, w)
  PROVE  Store!Ask(d, w)
<1>1. /\ phase # "closed" /\ phase' = phase /\ answer[d] = "new"
      /\ UNCHANGED <<records, promised, strays>>
      /\ asked' = [asked EXCEPT ![d] = w]
  BY DEF Ask, memories, history
<1>2. (IF phase = "closed" THEN file ELSE records)'
        = (IF phase = "closed" THEN file ELSE records)
  BY <1>1, OpenStep
<1>3. \/ answer' = [answer EXCEPT ![d] = "queued"] /\ chain' = Append(chain, d)
      \/ answer' = [answer EXCEPT ![d] = "rejected"] /\ chain' = chain
  BY DEF Ask
<1> QED
  BY <1>1, <1>2, <1>3 DEF Store!Ask

LEMMA RestartRefines ==
  ASSUME TypeOK, StorageInv, Drained \/ Crash
  PROVE  Store!Restart
<1>1. /\ phase' = "closed" /\ chain' = <<>> /\ UNCHANGED <<asked, promised, strays>>
  BY DEF Drained, Crash, callers, history
<1>2. file' \in possible
  BY DEF Drained, Crash, medium, StorageInv, MediumInv
<1>3. file' \in Store!Image
  BY <1>2 DEF TypeOK, Image, Content, Store!Image, Store!Content
<1>4. Store!Survives(file')
  BY <1>2 DEF StorageInv, AcknowledgedSurvives, Survives, Store!Survives
<1>5. (IF phase = "closed" THEN file ELSE records)' = file'
  BY <1>1
<1>6. answer' = [e \in Calls |-> IF answer[e] = "queued" THEN "lost" ELSE answer[e]]
  <2>1. CASE Crash
    BY <2>1 DEF Crash
  <2>2. CASE Drained
    <3>1. chain = <<>> /\ answer' = answer
      BY <2>2 DEF Drained, callers
    <3>2. \A e \in Calls : answer[e] # "queued"
      BY <3>1 DEF StorageInv, QueuedInv
    <3> QED
      BY <3>1, <3>2 DEF TypeOK
  <2> QED
    BY <2>1, <2>2
<1> QED
  BY <1>1, <1>3, <1>4, <1>5, <1>6 DEF Store!Restart

LEMMA StutterRefines ==
  ASSUME StorageInv, Open \/ Begin \/ SyncDirectory \/ Close \/ UNCHANGED vars
  PROVE  UNCHANGED Store!rvars
<1>1. UNCHANGED <<chain, asked, answer, promised, strays>>
  BY DEF Open, Begin, SyncDirectory, Close, vars, callers, history
<1>2. (IF phase = "closed" THEN file ELSE records)'
        = (IF phase = "closed" THEN file ELSE records)
  <2>1. CASE Open
    BY <2>1 DEF Open
  <2>2. CASE ~Open
    BY <2>2 DEF Begin, SyncDirectory, Close, vars, memories, medium
  <2> QED
    BY <2>1, <2>2
<1> QED
  BY <1>1, <1>2 DEF Store!rvars

(* Every step of the domain is a step of a RecordStore or one that callers *)
(* do not see: writes take effect one by one in the order they were asked  *)
(* for, reads never see an unpublished one, and a reopened domain holds a  *)
(* surviving image.                                                        *)
THEOREM DomainImplementsStore == Spec => RefinesStore
<1>1. Init => Store!RInit
  BY DEF Init, Image, Content, Store!RInit, Store!Image, Store!Content
<1>2. ASSUME TypeOK, StorageInv, [Next]_vars
      PROVE  [Store!RNext]_(Store!rvars)
  <2>1. CASE \E d \in Calls, w \in Write : Ask(d, w)
    <3>1. PICK d \in Calls, w \in Write : Ask(d, w)
      BY <2>1
    <3>2. w \in Store!Write
      BY DEF Write, Store!Write
    <3> QED
      BY <3>1, <3>2, AskRefines, <1>2 DEF Store!RNext
  <2>2. CASE Skip \/ Rename \/ Remember \/ PublishFails
    BY <2>2, JobRefines, <1>2 DEF Store!RNext
  <2>3. CASE Drained \/ Crash
    BY <2>3, RestartRefines, <1>2 DEF Store!RNext
  <2>4. CASE Open \/ Begin \/ SyncDirectory \/ Close \/ UNCHANGED vars
    BY <2>4, StutterRefines, <1>2
  <2> QED
    BY <2>1, <2>2, <2>3, <2>4, <1>2 DEF Next, Work
<1> QED
  BY <1>1, <1>2, StorageConsistent, PTL DEF Spec, RefinesStore, Store!RSpec
==============================================================================
