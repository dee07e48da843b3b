------------------------------ MODULE PaperGates -------------------------------
(***************************************************************************)
(* Template gates of one document: validations and exports of the          *)
(* workbench, exports by agents, and the commits they race with.  A gate   *)
(* reads the Working DOCX outside the commit service's FIFO; its report    *)
(* goes to the caller, into the workbench's one cache slot for the         *)
(* document, and, in an export, decides whether a milestone is committed   *)
(* and its snapshot published.  Exports queue by the destination as it was  *)
(* written; two such paths may lead to one file, through a linked folder.  *)
(***************************************************************************)
EXTENDS Naturals, Sequences

CONSTANTS
  Calls,        \* calls of the workbench's and the agents' methods
  Contents,     \* of the Working DOCX
  Bad,          \* those in which a delivery gate finds an error
  Nobody, Fence, \* no call, and the claim a mutation fence leaves
  Blank,        \* nothing read, or a read that the engine failed
  Paths,        \* destinations of exports as their callers write them
  DraftPath, DeliveryPath, \* those of the workbench
  FileAt,       \* the file each path leads to, named by one of its paths
  MaxRollbacks  \* publications that fail after replacing the file

ASSUME GatesAssumption ==
  /\ MaxRollbacks \in Nat
  /\ Bad \subseteq Contents /\ Blank \notin Contents
  /\ Nobody # Fence /\ {Nobody, Fence} \cap Calls = {}
  /\ {DraftPath, DeliveryPath} \subseteq Paths /\ FileAt \in [Paths -> Paths]

VARIABLES
  versions, \* the content of each version; the head is the last
  file,     \* the content of the Working DOCX
  busy,     \* the call whose commit the document's FIFO runs
  slot,     \* the gate cache: newest claim and its source, report and its revision
  exporting, \* the export each path's queue runs
  output,   \* the version in each exported file, 0 if there is none or it was emptied
  pc, kind, \* the next step of each call, and what it is
  path,     \* the destination of an export
  base,     \* the version the call was made on
  seen,     \* what its gate read
  made,     \* the version it committed
  began,    \* the claims in the order they began
  rollbacks \* publications rolled back so far

document == <<versions, file, busy, rollbacks>>
exports == <<exporting, output>>
locals == <<kind, path, base, seen, made>>
vars == <<document, exports, slot, began, pc, locals>>

Newest == Len(versions)

(* The methods: "tool" is a commit and "agent" a delivery export that do   *)
(* not come through the workbench.                                         *)
Exports == {"draft", "delivery", "agent"}
Kinds == {"validate", "edit", "tool"} \cup Exports
Target(c) == FileAt[path[c]]

Go(c, from, to) ==
  /\ pc[c] = from
  /\ pc' = [pc EXCEPT ![c] = to]

Init ==
  /\ \E content \in Contents : versions = <<content>> /\ file = content
  /\ busy = Nobody
  /\ slot = [claim |-> Nobody, source |-> 0, by |-> Nobody, revision |-> 0]
  /\ exporting = [p \in Paths |-> Nobody]
  /\ output = [p \in Paths |-> 0]
  /\ pc = [c \in Calls |-> "new"]
  /\ kind = [c \in Calls |-> "validate"]
  /\ path = [c \in Calls |-> DraftPath]
  /\ base = [c \in Calls |-> 0]
  /\ seen = [c \in Calls |-> Blank]
  /\ made = [c \in Calls |-> 0]
  /\ began = <<>>
  /\ rollbacks = 0

------------------------------------------------------------------------------
(* The cache slot.  A claim replaces the one before it, not the report.    *)
BeginGate(c, source) ==
  /\ slot' = [slot EXCEPT !.claim = c, !.source = source]
  /\ began' = Append(began, c)

(* Slip: the report goes to whatever revision is current by then.          *)
RememberCurrent(c, revision) ==
  IF slot.claim = c
  THEN slot' = [claim |-> c, source |-> Newest, by |-> c, revision |-> Newest]
  ELSE UNCHANGED slot

(* Slip: every report of the current revision is remembered.               *)
RememberAny(c, revision) ==
  IF revision = Newest
  THEN slot' = [claim |-> c, source |-> revision, by |-> c, revision |-> revision]
  ELSE UNCHANGED slot

(* A report is remembered by the owner of the slot, or by an export whose  *)
(* milestone advances the source of the claim that is there.               *)
RememberGate(c, revision) ==
  IF /\ \/ slot.claim = c
        \/ base[c] # revision /\ slot.source = base[c]
     /\ revision = Newest
  THEN slot' = [claim |-> c, source |-> revision, by |-> c, revision |-> revision]
  ELSE UNCHANGED slot

(* A commit drops claim and report of the revision it replaced.            *)
FenceMutation(source) ==
  IF slot.source = source
  THEN slot' = [claim |-> Fence, source |-> Newest, by |-> Nobody, revision |-> 0]
  ELSE UNCHANGED slot

(* What an opened document shows of its gate.                              *)
Shown == slot.revision = Newest

------------------------------------------------------------------------------
(* A call with an old projection is turned away, so it starts on the head. *)
Start(c, k, p, next) ==
  /\ Go(c, "new", next)
  /\ kind' = [kind EXCEPT ![c] = k]
  /\ path' = [path EXCEPT ![c] = p]
  /\ base' = [base EXCEPT ![c] = Newest]
  /\ UNCHANGED <<document, exports, seen, made>>

Validate(c) == Start(c, "validate", path[c], "check") /\ BeginGate(c, Newest)

(* A workbench export first awaits its project and directory; an agent     *)
(* names any destination.                                                  *)
Call(c) ==
  /\ \/ Start(c, "draft", DraftPath, "begin")
     \/ Start(c, "delivery", DeliveryPath, "begin")
     \/ \E p \in Paths : Start(c, "agent", p, "queued")
     \/ \E k \in {"edit", "tool"} : Start(c, k, path[c], "submit")
  /\ UNCHANGED <<slot, began>>

BeginExport(c) ==
  /\ Go(c, "begin", "queued")
  /\ BeginGate(c, base[c])
  /\ UNCHANGED <<document, exports, locals>>

(* Slip: exports to one path run side by side.                             *)
EnterAtOnce(c) ==
  /\ Go(c, "queued", "check")
  /\ exporting' = [exporting EXCEPT ![path[c]] = c]
  /\ UNCHANGED <<document, output, slot, began, locals>>

(* Exports to one path run one after another.                              *)
Enter(c) ==
  /\ Go(c, "queued", "check")
  /\ exporting[path[c]] = Nobody
  /\ exporting' = [exporting EXCEPT ![path[c]] = c]
  /\ UNCHANGED <<document, output, slot, began, locals>>

Leave(c) ==
  exporting' = [p \in Paths |->
                  IF exporting[p] = c THEN Nobody ELSE exporting[p]]

(* The gate reads the file as it finds it, a publication under way or not. *)
(* A read that fails, or is cancelled, makes a failing report of its own.  *)
Check(c) ==
  /\ Go(c, "check", "checked")
  /\ \E read \in {file, Blank} : seen' = [seen EXCEPT ![c] = read]
  /\ UNCHANGED <<document, exports, slot, began, kind, path, base, made>>

(* Cancelled, or a step before the commit rejects.                         *)
Cancel(c) ==
  /\ \/ pc[c] \in {"begin", "queued", "check", "submit"}
     \/ pc[c] = "checked" /\ kind[c] # "validate"
  /\ pc' = [pc EXCEPT ![c] = "failed"]
  /\ Leave(c)
  /\ UNCHANGED <<document, output, slot, began, locals>>

Validated(c) ==
  /\ kind[c] = "validate"
  /\ Go(c, "checked", "done")
  /\ RememberGate(c, base[c])
  /\ UNCHANGED <<document, exports, began, locals>>

DeliveryBlocked(c) ==
  kind[c] \in {"delivery", "agent"} /\ seen[c] \in Bad \cup {Blank}

(* The workbench tells of a blocked delivery, and caches its report, only  *)
(* while the projection it was asked on is current.                        *)
Blocked(c) ==
  /\ Go(c, "checked", "blocked")
  /\ DeliveryBlocked(c)
  /\ IF kind[c] = "delivery" /\ base[c] = Newest
     THEN RememberGate(c, base[c])
     ELSE UNCHANGED slot
  /\ Leave(c)
  /\ UNCHANGED <<document, output, began, locals>>

Accepted(c) ==
  /\ kind[c] \in Exports /\ ~DeliveryBlocked(c)
  /\ Go(c, "checked", "submit")
  /\ UNCHANGED <<document, exports, slot, began, locals>>

------------------------------------------------------------------------------
(* The commit service, reduced to its FIFO, file and head.                 *)
(* Slip: the milestone goes on top of whatever the head is.                *)
StageUnbased(c) ==
  /\ Go(c, "submit", "staged")
  /\ busy = Nobody
  /\ busy' = c
  /\ UNCHANGED <<versions, file, rollbacks, exports, slot, began, locals>>

Stage(c) ==
  /\ Go(c, "submit", "staged")
  /\ busy = Nobody /\ base[c] = Newest
  /\ busy' = c
  /\ UNCHANGED <<versions, file, rollbacks, exports, slot, began, locals>>

Refuse(c) ==
  /\ \/ Go(c, "submit", "failed") /\ busy = Nobody /\ base[c] # Newest /\ UNCHANGED busy
     \/ Go(c, "staged", "failed") /\ busy' = Nobody
  /\ Leave(c)
  /\ UNCHANGED <<versions, file, rollbacks, output, slot, began, locals>>

(* A milestone keeps the content.                                          *)
ReplaceWorking(c) ==
  /\ Go(c, "staged", "written")
  /\ \E content \in Contents :
       /\ kind[c] \in Exports => content = file
       /\ file' = content
  /\ UNCHANGED <<versions, busy, rollbacks, exports, slot, began, locals>>

Advance(c) ==
  /\ Go(c, "written", "committed")
  /\ versions' = Append(versions, file)
  /\ made' = [made EXCEPT ![c] = Newest + 1]
  /\ busy' = Nobody
  /\ UNCHANGED <<file, rollbacks, exports, slot, began, kind, path, base, seen>>

RollBack(c) ==
  /\ rollbacks < MaxRollbacks
  /\ Go(c, "written", "failed")
  /\ rollbacks' = rollbacks + 1
  /\ file' = versions[Newest]
  /\ busy' = Nobody
  /\ Leave(c)
  /\ UNCHANGED <<versions, output, slot, began, locals>>

------------------------------------------------------------------------------
(* The milestone's snapshot, copied beside the output, takes its place.    *)
Rename(c) ==
  /\ kind[c] \in Exports
  /\ Go(c, "committed", "renamed")
  /\ output' = [output EXCEPT ![Target(c)] = made[c]]
  /\ UNCHANGED <<document, exporting, slot, began, locals>>

(* What is at the destination after that must be the file just renamed.    *)
Publish(c) ==
  /\ Go(c, "renamed", "published")
  /\ output[Target(c)] = made[c]
  /\ Leave(c)
  /\ UNCHANGED <<document, output, slot, began, locals>>

(* Before the rename the output stays.  After it the export's own file is  *)
(* emptied, wherever it is, if that does not fail as well.                 *)
Withdraw(c) ==
  IF output[Target(c)] = made[c] THEN [output EXCEPT ![Target(c)] = 0] ELSE output
Fails(c) ==
  \/ Go(c, "committed", "failed") /\ kind[c] \in Exports /\ UNCHANGED output
  \/ Go(c, "renamed", "failed") /\ output' \in {output, Withdraw(c)}

(* Slip: a failed publication keeps its place in the queue.                *)
PublishFailsHolding(c) ==
  /\ Fails(c)
  /\ UNCHANGED <<document, exporting, slot, began, locals>>

PublishFails(c) ==
  /\ Fails(c)
  /\ Leave(c)
  /\ UNCHANGED <<document, slot, began, locals>>

(* The report covers the exported commit, and is cached only under it.     *)
Exported(c) ==
  /\ Go(c, "published", "done")
  /\ IF kind[c] # "agent" /\ made[c] = Newest
     THEN RememberGate(c, made[c])
     ELSE UNCHANGED slot
  /\ UNCHANGED <<document, exports, began, locals>>

Committed(c) ==
  /\ kind[c] \in {"edit", "tool"}
  /\ Go(c, "committed", "done")
  /\ IF kind[c] = "edit" THEN FenceMutation(base[c]) ELSE UNCHANGED slot
  /\ UNCHANGED <<document, exports, began, locals>>

Serve(c) ==
  \/ BeginExport(c) \/ Enter(c) \/ Check(c) \/ Validated(c) \/ Blocked(c) \/ Accepted(c)
  \/ Stage(c) \/ Refuse(c) \/ ReplaceWorking(c) \/ Advance(c) \/ RollBack(c)
  \/ Rename(c) \/ Publish(c) \/ PublishFails(c) \/ Exported(c) \/ Committed(c)

Next == \E c \in Calls : Validate(c) \/ Call(c) \/ Cancel(c) \/ Serve(c)

Spec == Init /\ [][Next]_vars

(* The event loop resumes a call whose await has settled; engine, storage  *)
(* and file calls settle.                                                  *)
FairSpec == Spec /\ \A c \in Calls : WF_vars(Serve(c))
------------------------------------------------------------------------------
(* Every variable keeps to the values its comment names.                   *)
TypeOK ==
  /\ versions \in Seq(Contents) /\ Newest > 0
  /\ file \in Contents
  /\ busy \in Calls \cup {Nobody}
  /\ slot \in [claim : Calls \cup {Nobody, Fence}, source : 0..Newest,
               by : Calls \cup {Nobody}, revision : 0..Newest]
  /\ exporting \in [Paths -> Calls \cup {Nobody}]
  /\ output \in [Paths -> 0..Newest]
  /\ pc \in [Calls -> {"new", "begin", "queued", "check", "checked", "submit",
               "staged", "written", "committed", "renamed", "published", "blocked",
               "done", "failed"}]
  /\ kind \in [Calls -> Kinds] /\ path \in [Calls -> Paths]
  /\ base \in [Calls -> 0..Newest]
  /\ seen \in [Calls -> Contents \cup {Blank}]
  /\ made \in [Calls -> 0..Newest]
  /\ began \in Seq(Calls)
  /\ rollbacks \in 0..MaxRollbacks

Settled == \A c \in Calls : pc[c] # "written"

(* The gate shown for a document is one of its present content, or says    *)
(* that it could not be read, whichever of claim, fence and milestone came *)
(* last, once no publication is under way and if none was rolled back.     *)
ShownReportIsOfHead ==
  Settled /\ rollbacks = 0 /\ Shown => seen[slot.by] \in {versions[Newest], Blank}

(* An exported delivery has the content that its own gate passed, although *)
(* gate, commit and publication are three steps and others commit between  *)
(* them, if no publication was rolled back.                                *)
DeliveredIsChecked ==
  \A c \in Calls : kind[c] \in {"delivery", "agent"} /\ made[c] # 0 /\ rollbacks = 0 =>
    versions[made[c]] = seen[c] /\ seen[c] \notin Bad

(* The same without the condition: what export-service promises.           *)
NoBadDelivery ==
  \A c \in Calls : kind[c] \in {"delivery", "agent"} /\ made[c] # 0 =>
    versions[made[c]] \notin Bad

Latest(c) ==
  \A d \in Calls : kind[d] \in Exports /\ path[d] = path[c] => made[d] <= made[c]
Sole(f) == \A p, q \in Paths : FileAt[p] = f /\ FileAt[q] = f => p = q
Before(a, b) ==
  \E i, j \in 1..Len(began) : i < j /\ began[i] = a /\ began[j] = b
Remembers(c) == slot' # slot /\ slot'.by = c /\ slot'.revision # 0 /\ pc'[c] # pc[c]

(* Of several gates of one revision only the one begun last publishes its  *)
(* report, however late the others answer.                                 *)
LatestClaimPublishes ==
  [][\A c \in Calls : Remembers(c) /\ slot'.revision = base[c] =>
       \A d \in Calls : base[d] = base[c] => ~Before(c, d)]_vars

(* Every call is answered: neither the document's FIFO nor a destination's *)
(* queue is left held by one that failed, was refused or was cancelled.    *)
EveryCallSettles ==
  \A c \in Calls : pc[c] # "new" ~> pc[c] \in {"blocked", "done", "failed"}

(* However long an export takes to publish and however others fail after   *)
(* their rename: what it puts into a file is newer than everything          *)
(* committed for the same path, what it empties is its own output, and a    *)
(* file that only one path leads to never goes back to an older version.    *)
(* (The queue orders the exports to one path.  Those to two paths of one    *)
(* file have no order.)                                                     *)
OutputMovesForward ==
  [][\A f \in Paths : output'[f] # output[f] =>
       /\ \E c \in Calls : /\ pc'[c] # pc[c] /\ Target(c) = f
                          /\ \/ output[f] = made[c] /\ output'[f] = 0
                             \/ output'[f] = made[c] /\ Latest(c)
       /\ Sole(f) => output'[f] = 0 \/ output'[f] > output[f]]_vars
------------------------------------------------------------------------------
(* Why these hold: an invariant that every step keeps.                     *)

(* One commit at a time, on the head it was asked for; the file differs    *)
(* from the head's content only while one publishes new content.           *)
FifoInv ==
  /\ \A c \in Calls : pc[c] \in {"staged", "written"} <=> busy = c
  /\ \A c \in Calls : busy = c => base[c] = Newest
  /\ Settled => file = versions[Newest]
  /\ \A c \in Calls : pc[c] = "written" /\ kind[c] \in Exports => file = versions[Newest]

(* What a call has behind it, by the step it is at.                        *)
CallInv(c) ==
  /\ made[c] # 0 => /\ pc[c] \in {"committed", "renamed", "published", "done", "failed"}
                    /\ made[c] = base[c] + 1
  /\ pc[c] \in {"committed", "renamed", "published"} => made[c] # 0
  /\ pc[c] \in {"renamed", "published"} => kind[c] \in Exports
  /\ kind[c] \in Exports /\ (pc[c] \in {"submit", "staged", "written"} \/ made[c] # 0) =>
       ~DeliveryBlocked(c)

(* A gate on the head's revision read the head's content, unless it read   *)
(* what another call is about to make the next version.                    *)
HasRead(c) ==
  /\ kind[c] \in Exports \cup {"validate"}
  /\ pc[c] \in {"checked", "submit", "staged", "written"}
  /\ base[c] = Newest
  /\ \A d \in Calls \ {c} : pc[d] # "written"

SeenInv ==
  rollbacks = 0 => \A c \in Calls :
    /\ HasRead(c) => seen[c] \in {versions[Newest], Blank}
    /\ kind[c] \in Exports /\ made[c] # 0 => seen[c] \in {versions[made[c]], Blank}

SlotInv ==
  /\ slot.revision # 0 => slot.by \in Calls /\ pc[slot.by] \in {"done", "blocked"}
  /\ ShownReportIsOfHead

(* An export has its path to itself until it has published, and what it    *)
(* publishes there is the newest committed for that path.                  *)
QueueInv ==
  \A c \in Calls : kind[c] \in Exports =>
    /\ pc[c] \in {"check", "checked", "submit", "staged", "written", "committed", "renamed"} =>
         exporting[path[c]] = c
    /\ pc[c] \in {"committed", "renamed"} => Latest(c)

(* What is in a file some export has put there.                            *)
OutputInv ==
  \A f \in Paths : output[f] # 0 =>
    \E c \in Calls : kind[c] \in Exports /\ Target(c) = f /\ made[c] = output[f]

(* The owner of the slot began last among the claims on its source.        *)
ClaimInv ==
  /\ \A i \in 1..Len(began) : pc[began[i]] \notin {"new", "begin"}
  /\ \A c \in Calls : slot.claim = c =>
       /\ pc[c] \notin {"new", "begin"}
       /\ pc[c] \notin {"done", "blocked"} => slot.source = base[c]
       /\ slot.source = base[c] => \A d \in Calls : base[d] = base[c] => ~Before(c, d)

GatesInv ==
  FifoInv /\ (\A c \in Calls : CallInv(c)) /\ SeenInv /\ SlotInv
  /\ QueueInv /\ OutputInv /\ ClaimInv
==============================================================================
