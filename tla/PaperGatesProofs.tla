---------------------------- MODULE PaperGatesProofs ---------------------------
(***************************************************************************)
(* Gates, milestones and exports agree for any number of calls, contents   *)
(* and rolled-back publications.                                           *)
(***************************************************************************)
EXTENDS PaperGates, SequenceTheorems, TLAPS

LEMMA InitTypes == Init => TypeOK
BY GatesAssumption
   DEF Init, TypeOK, GatesAssumption, Newest, Kinds

LEMMA SlotTypes ==
  ASSUME TypeOK, NEW c \in Calls, NEW revision \in 0..Newest,
         RememberGate(c, revision) \/ FenceMutation(revision)
  PROVE  slot' \in [claim : Calls \cup {Nobody, Fence}, source : 0..Newest,
                    by : Calls \cup {Nobody}, revision : 0..Newest]
BY DEF TypeOK, RememberGate, FenceMutation, Newest

LEMMA ClaimTypes ==
  ASSUME TypeOK, NEW c \in Calls, NEW source \in 0..Newest, BeginGate(c, source)
  PROVE  /\ slot' \in [claim : Calls \cup {Nobody, Fence}, source : 0..Newest,
                       by : Calls \cup {Nobody}, revision : 0..Newest]
         /\ began' \in Seq(Calls)
<1>1. slot' = [claim |-> c, source |-> source, by |-> slot.by, revision |-> slot.revision]
  BY DEF TypeOK, BeginGate
<1>2. began' \in Seq(Calls)
  BY DEF TypeOK, BeginGate
<1> QED
  BY <1>1, <1>2 DEF TypeOK

LEMMA StartTypes ==
  ASSUME TypeOK, NEW c \in Calls, NEW k \in Kinds, NEW p \in Paths, NEW next, Start(c, k, p, next)
  PROVE  /\ kind' \in [Calls -> Kinds] /\ path' \in [Calls -> Paths] /\ base' \in [Calls -> 0..Newest]
         /\ pc' = [pc EXCEPT ![c] = next]
         /\ UNCHANGED <<versions, file, busy, rollbacks, exporting, output, seen, made>>
<1> Newest \in 0..Newest
  BY DEF TypeOK, Newest
<1> QED
  BY DEF TypeOK, Start, Go, document, exports

LEMMA StepTypes ==
  ASSUME TypeOK, NEW c \in Calls, Validate(c) \/ Call(c) \/ Cancel(c) \/ Serve(c)
  PROVE  TypeOK'
<1> USE DEF TypeOK, document, exports, locals, Newest
<1>1. CASE Validate(c)
  <2>1. "validate" \in Kinds /\ path[c] \in Paths /\ Newest \in 0..Newest
    BY DEF Kinds
  <2>2. Start(c, "validate", path[c], "check") /\ BeginGate(c, Newest)
    BY <1>1 DEF Validate
  <2>3. /\ kind' \in [Calls -> Kinds] /\ path' \in [Calls -> Paths] /\ base' \in [Calls -> 0..Newest]
        /\ pc' = [pc EXCEPT ![c] = "check"]
        /\ UNCHANGED <<versions, file, busy, rollbacks, exporting, output, seen, made>>
    BY <2>1, <2>2, StartTypes
  <2>4. /\ slot' \in [claim : Calls \cup {Nobody, Fence}, source : 0..Newest,
                       by : Calls \cup {Nobody}, revision : 0..Newest]
        /\ began' \in Seq(Calls)
    BY <2>1, <2>2, ClaimTypes
  <2> QED
    BY <2>3, <2>4
<1>2. CASE Call(c)
  <2>1. PICK k \in Kinds, p \in Paths, next \in {"begin", "queued", "submit"} : Start(c, k, p, next)
    BY <1>2, GatesAssumption DEF GatesAssumption, Call, Kinds, Exports
  <2>2. UNCHANGED <<slot, began>>
    BY <1>2 DEF Call
  <2>3. /\ kind' \in [Calls -> Kinds] /\ path' \in [Calls -> Paths] /\ base' \in [Calls -> 0..Newest]
        /\ pc' = [pc EXCEPT ![c] = next]
        /\ UNCHANGED <<versions, file, busy, rollbacks, exporting, output, seen, made>>
    BY <2>1, StartTypes
  <2> QED
    BY <2>1, <2>2, <2>3
<1>3. CASE BeginExport(c)
  BY <1>3, ClaimTypes DEF BeginExport, Go
<1>4. CASE Enter(c)
  BY <1>4 DEF Enter, Go
<1>5. CASE Check(c)
  <2>1. seen' \in [Calls -> Contents \cup {Blank}]
    BY <1>5 DEF Check
  <2>2. /\ pc' = [pc EXCEPT ![c] = "checked"]
        /\ UNCHANGED <<document, exports, slot, began, kind, path, base, made>>
    BY <1>5 DEF Check, Go
  <2> QED
    BY <2>1, <2>2
<1>6. CASE Cancel(c)
  BY <1>6 DEF Cancel, Leave
<1>7. CASE Validated(c)
  BY <1>7, SlotTypes DEF Validated, Go
<1>8. CASE Blocked(c)
  BY <1>8, SlotTypes DEF Blocked, Go, Leave
<1>9. CASE Accepted(c)
  BY <1>9 DEF Accepted, Go
<1>10. CASE Stage(c)
  BY <1>10 DEF Stage, Go
<1>11. CASE Refuse(c)
  BY <1>11 DEF Refuse, Go, Leave
<1>12. CASE ReplaceWorking(c)
  BY <1>12 DEF ReplaceWorking, Go
<1>13. CASE Advance(c)
  <2>1. /\ pc' = [pc EXCEPT ![c] = "committed"] /\ versions' = Append(versions, file)
        /\ made' = [made EXCEPT ![c] = Newest + 1] /\ busy' = Nobody
        /\ UNCHANGED <<file, rollbacks, exports, slot, began, kind, path, base, seen>>
    BY <1>13 DEF Advance, Go
  <2>2. versions' \in Seq(Contents) /\ Newest' = Newest + 1 /\ Newest' > 0
    BY <2>1
  <2>3. 0..Newest \subseteq 0..Newest' /\ Newest + 1 \in 0..Newest'
    BY <2>2
  <2>4. made' \in [Calls -> 0..Newest']
    BY <2>1, <2>3
  <2>5. slot' \in [claim : Calls \cup {Nobody, Fence}, source : 0..Newest',
                    by : Calls \cup {Nobody}, revision : 0..Newest']
    BY <2>1, <2>3
  <2>6. output' \in [Paths -> 0..Newest'] /\ base' \in [Calls -> 0..Newest']
    BY <2>1, <2>3
  <2>7. /\ file' \in Contents /\ busy' \in Calls \cup {Nobody} /\ pc' \in [Calls -> {"new",
              "begin", "queued", "check", "checked", "submit", "staged", "written",
              "committed", "renamed", "published", "blocked", "done", "failed"}]
        /\ exporting' \in [Paths -> Calls \cup {Nobody}] /\ rollbacks' \in 0..MaxRollbacks
    BY <2>1
  <2>8. /\ kind' \in [Calls -> Kinds] /\ path' \in [Calls -> Paths]
        /\ seen' \in [Calls -> Contents \cup {Blank}] /\ began' \in Seq(Calls)
    BY <2>1
  <2> HIDE DEF Newest, document, exports, locals
  <2> QED
    BY <2>2, <2>4, <2>5, <2>6, <2>7, <2>8
<1>14. CASE RollBack(c)
  <2>1. file' = versions[Newest] /\ rollbacks < MaxRollbacks /\ rollbacks' = rollbacks + 1
    BY <1>14 DEF RollBack
  <2>2. /\ pc' = [pc EXCEPT ![c] = "failed"] /\ busy' = Nobody
        /\ UNCHANGED <<versions, output, slot, began, locals>>
    BY <1>14 DEF RollBack, Go
  <2>3. exporting' \in [Paths -> Calls \cup {Nobody}]
    BY <1>14 DEF RollBack, Leave
  <2>4. file' \in Contents
    BY <2>1
  <2>5. rollbacks' \in 0..MaxRollbacks
    BY <2>1, GatesAssumption DEF GatesAssumption
  <2> QED
    BY <2>2, <2>3, <2>4, <2>5
<1>15. CASE Rename(c) \/ Publish(c)
  BY <1>15, GatesAssumption DEF GatesAssumption, Rename, Publish, Go, Leave, Target
<1>16. CASE PublishFails(c)
  <2>1. 0 \in 0..Newest
    OBVIOUS
  <2>2. output' \in [Paths -> 0..Newest]
    BY <1>16, <2>1 DEF PublishFails, Fails, Withdraw
  <2> QED
    BY <1>16, <2>2 DEF PublishFails, Fails, Go, Leave
<1>17. CASE Exported(c)
  BY <1>17, SlotTypes DEF Exported, Go
<1>18. CASE Committed(c)
  BY <1>18, SlotTypes DEF Committed, Go
<1> QED
  BY <1>1, <1>2, <1>3, <1>4, <1>5, <1>6, <1>7, <1>8, <1>9, <1>10, <1>11, <1>12, <1>13,
     <1>14, <1>15, <1>16, <1>17, <1>18 DEF Serve

------------------------------------------------------------------------------
(* A step of one call leaves the others where they are.                    *)
LEMMA Frame ==
  ASSUME TypeOK, NEW c \in Calls, Validate(c) \/ Call(c) \/ Cancel(c) \/ Serve(c)
  PROVE  /\ \A d \in Calls \ {c} : /\ pc'[d] = pc[d] /\ kind'[d] = kind[d]
                                 /\ path'[d] = path[d] /\ base'[d] = base[d] /\ seen'[d] = seen[d]
                                 /\ made'[d] = made[d]
         /\ pc[c] # "new" => kind' = kind /\ path' = path /\ base' = base
         /\ pc[c] # "check" => seen' = seen
         /\ pc[c] # "written" => versions' = versions /\ made' = made
         /\ pc[c] \notin {"staged", "written"} => file' = file
<1> USE DEF TypeOK, locals, document, Go
<1>1. CASE Validate(c)
  BY <1>1 DEF Validate, Start
<1>2. CASE Call(c)
  BY <1>2 DEF Call, Start
<1>3. CASE BeginExport(c) \/ Enter(c) \/ Check(c)
  BY <1>3 DEF BeginExport, Enter, Check
<1>4. CASE Cancel(c)
  BY <1>4 DEF Cancel
<1>5. CASE Validated(c) \/ Blocked(c) \/ Accepted(c)
  BY <1>5 DEF Validated, Blocked, Accepted
<1>6. CASE Stage(c) \/ Refuse(c)
  BY <1>6 DEF Stage, Refuse
<1>7. CASE ReplaceWorking(c)
  BY <1>7 DEF ReplaceWorking
<1>8. CASE Advance(c) \/ RollBack(c)
  BY <1>8 DEF Advance, RollBack
<1>9. CASE Rename(c) \/ Publish(c) \/ PublishFails(c) \/ Exported(c) \/ Committed(c)
  BY <1>9 DEF Publish, PublishFails, Fails, Rename, Exported, Committed
<1> QED
  BY <1>1, <1>2, <1>3, <1>4, <1>5, <1>6, <1>7, <1>8, <1>9 DEF Serve

(* A version is never rewritten, and only Advance adds one.                *)
LEMMA VersionsGrow ==
  ASSUME TypeOK, NEW c \in Calls, Advance(c)
  PROVE  /\ Newest' = Newest + 1
         /\ versions'[Newest'] = file
         /\ \A v \in 1..Newest : versions'[v] = versions[v]
BY DEF TypeOK, Advance, Newest

LEMMA FifoKept ==
  ASSUME TypeOK, FifoInv, NEW c \in Calls, Validate(c) \/ Call(c) \/ Cancel(c) \/ Serve(c)
  PROVE  FifoInv'
<1> USE DEF TypeOK, FifoInv, Settled, locals, document, Go
<1>0. /\ busy \in Calls \cup {Nobody} /\ Nobody \notin Calls
      /\ \A d \in Calls \ {c} : /\ pc'[d] = pc[d] /\ kind'[d] = kind[d]
                              /\ base'[d] = base[d]
  BY Frame, GatesAssumption DEF GatesAssumption
<1>1. CASE /\ pc[c] \notin {"staged", "written"} /\ pc'[c] \notin {"staged", "written"}
           /\ UNCHANGED <<versions, file, busy>>
  BY <1>0, <1>1 DEF Newest
<1>2. CASE Stage(c)
  BY <1>0, <1>2 DEF Stage, Newest
<1>3. CASE Refuse(c) /\ pc[c] = "staged"
  <2>1. pc'[c] = "failed" /\ busy' = Nobody /\ UNCHANGED <<versions, file>>
    BY <1>3 DEF Refuse
  <2>2. \A d \in Calls : pc[d] # "written"
    BY <1>0, <1>3
  <2> QED
    BY <1>0, <1>3, <2>1, <2>2 DEF Newest
<1>4. CASE ReplaceWorking(c)
  <2>1. pc[c] = "staged" /\ pc'[c] = "written" /\ UNCHANGED <<versions, busy, kind, base>>
    BY <1>4 DEF ReplaceWorking
  <2>2. \A d \in Calls : pc[d] # "written"
    BY <2>1, <1>0
  <2>3. kind[c] \in Exports => file' = file
    BY <1>4 DEF ReplaceWorking
  <2> QED
    BY <1>0, <2>1, <2>2, <2>3 DEF Newest
<1>5. CASE Advance(c)
  BY <1>0, <1>5, VersionsGrow DEF Advance
<1>6. CASE RollBack(c)
  BY <1>0, <1>6 DEF RollBack, Newest
<1>7. Validate(c) \/ Call(c) \/ Cancel(c) \/ BeginExport(c) \/ Enter(c) \/ Check(c)
      \/ Validated(c) \/ Blocked(c) \/ Accepted(c) \/ (Refuse(c) /\ pc[c] # "staged")
      \/ Rename(c) \/ Publish(c) \/ PublishFails(c) \/ Exported(c) \/ Committed(c)
      => /\ pc[c] \notin {"staged", "written"} /\ pc'[c] \notin {"staged", "written"}
         /\ UNCHANGED <<versions, file, busy>>
  BY DEF Validate, Call, Start, Cancel, BeginExport, Enter, Check, Validated, Blocked,
         Accepted, Refuse, Publish, PublishFails, Fails, Rename, Exported, Committed
<1> QED
  BY <1>1, <1>2, <1>3, <1>4, <1>5, <1>6, <1>7 DEF Serve

LEMMA CallsKept ==
  ASSUME TypeOK, FifoInv, \A d \in Calls : CallInv(d),
         NEW c \in Calls, Validate(c) \/ Call(c) \/ Cancel(c) \/ Serve(c)
  PROVE  \A d \in Calls : CallInv(d)'
<1>0. ASSUME NEW d \in Calls \ {c} PROVE CallInv(d)'
  BY Frame DEF CallInv, DeliveryBlocked
<1> SUFFICES CallInv(c)'
  BY <1>0
<1> USE DEF TypeOK, locals, document, Go, CallInv, DeliveryBlocked
<1>1. CASE Validate(c)
  BY <1>1 DEF Validate, Start, Exports
<1>2. CASE Call(c)
  BY <1>2 DEF Call, Start, Exports
<1>3. CASE BeginExport(c) \/ Enter(c) \/ Check(c)
  BY <1>3 DEF BeginExport, Enter, Check
<1>4. CASE Cancel(c)
  BY <1>4 DEF Cancel
<1>5. CASE Validated(c) \/ Blocked(c) \/ Accepted(c)
  BY <1>5 DEF Validated, Blocked, Accepted
<1>6. CASE Stage(c) \/ Refuse(c) \/ ReplaceWorking(c) \/ RollBack(c)
  BY <1>6 DEF Stage, Refuse, ReplaceWorking, RollBack
<1>7. CASE Advance(c)
  BY <1>7 DEF Advance, FifoInv, Newest
<1>8. CASE Rename(c) \/ Publish(c) \/ PublishFails(c) \/ Exported(c) \/ Committed(c)
  BY <1>8 DEF Publish, PublishFails, Fails, Rename, Exported, Committed
<1> QED
  BY <1>1, <1>2, <1>3, <1>4, <1>5, <1>6, <1>7, <1>8 DEF Serve

(* What a gate on the head has read stays the head's content: only the     *)
(* commit of the call itself, or a new version, comes in between.          *)
LEMMA SeenKept ==
  ASSUME TypeOK, FifoInv, SeenInv, \A d \in Calls : CallInv(d),
         NEW c \in Calls, Validate(c) \/ Call(c) \/ Cancel(c) \/ Serve(c)
  PROVE  SeenInv'
<1> USE DEF TypeOK, locals, document, Go
<1>0. /\ busy \in Calls \cup {Nobody} /\ Nobody \notin Calls
      /\ \A d \in Calls \ {c} : /\ pc'[d] = pc[d] /\ kind'[d] = kind[d] /\ base'[d] = base[d]
                              /\ seen'[d] = seen[d] /\ made'[d] = made[d]
  BY Frame, GatesAssumption DEF GatesAssumption
<1>1. SUFFICES ASSUME rollbacks' = 0, NEW d \in Calls
               PROVE  /\ HasRead(d)' => seen'[d] \in {versions'[Newest'], Blank}
                      /\ kind'[d] \in Exports /\ made'[d] # 0 =>
                           seen'[d] \in {versions'[made'[d]], Blank}
  BY DEF SeenInv
<1>2. /\ rollbacks = 0 /\ ~RollBack(c)
      /\ pc[c] = "written" => Advance(c)
      /\ pc[c] = "check" /\ pc'[c] \in {"checked", "submit", "staged", "written"} =>
           pc'[c] = "checked" /\ seen'[c] \in {file, Blank}
      /\ pc[c] \notin {"check", "checked", "submit", "staged"} =>
           ~ (kind'[c] \in Exports \cup {"validate"}
              /\ pc'[c] \in {"checked", "submit", "staged", "written"})
  BY <1>1 DEF RollBack, Serve, Validate, Call, Start, BeginExport, Enter, Check, Cancel,
     Validated, Blocked, Accepted, Stage, Refuse, ReplaceWorking, Advance, Publish,
     PublishFails, Fails, Rename, Exported, Committed, Exports
<1>3. CASE Advance(c)
  <2>1. /\ Newest' = Newest + 1 /\ versions'[Newest'] = file
        /\ \A v \in 1..Newest : versions'[v] = versions[v]
    BY <1>3, VersionsGrow
  <2>2. /\ made' = [made EXCEPT ![c] = Newest + 1] /\ pc[c] = "written"
        /\ UNCHANGED <<kind, base, seen>>
    BY <1>3 DEF Advance
  <2>3. base'[d] # Newest'
    BY <2>1, <2>2 DEF Newest
  <2>4. d # c /\ kind[d] \in Exports /\ made[d] # 0 =>
              seen'[d] \in {versions'[made'[d]], Blank}
    <3> SUFFICES ASSUME d # c, kind[d] \in Exports, made[d] # 0
                 PROVE  seen'[d] \in {versions'[made'[d]], Blank}
      OBVIOUS
    <3>1. made[d] \in 1..Newest /\ made'[d] = made[d]
      BY <2>2 DEF Newest
    <3>2. seen[d] \in {versions[made[d]], Blank}
      BY <1>2 DEF SeenInv
    <3> QED
      BY <2>1, <2>2, <3>1, <3>2
  <2>5. kind[c] \in Exports => seen[c] \in {file, Blank}
    BY <1>2, <2>2 DEF SeenInv, FifoInv, HasRead
  <2>6. made'[c] = Newest' /\ made'[d] = IF d = c THEN Newest' ELSE made[d]
    BY <2>1, <2>2
  <2>7. ~HasRead(d)'
    BY <2>3 DEF HasRead
  <2>8. CASE d = c
    BY <2>1, <2>2, <2>5, <2>6, <2>7, <2>8
  <2>9. CASE d # c
    BY <2>2, <2>4, <2>6, <2>7, <2>9
  <2> QED
    BY <2>8, <2>9
<1>4. CASE ~Advance(c)
  <2>1. pc[c] # "written"
    BY <1>2, <1>4
  <2>2. versions' = versions /\ made' = made /\ Newest' = Newest
    BY <2>1, Frame DEF Newest
  <2>3. CASE d # c
    <3>1. HasRead(d)' => HasRead(d)
      BY <1>0, <2>1, <2>2, <2>3 DEF HasRead
    <3> QED
      BY <1>0, <1>2, <2>2, <2>3, <3>1 DEF SeenInv
  <2>4. CASE d = c
    <3>1. made[c] # 0 => pc[c] \notin {"new", "check"}
      BY DEF CallInv
    <3>2. kind'[c] \in Exports /\ made'[c] # 0 => seen'[c] \in {versions'[made'[c]], Blank}
      BY <1>2, <2>2, <3>1, Frame DEF SeenInv
    <3>3. ASSUME HasRead(c)' PROVE seen'[c] \in {versions'[Newest'], Blank}
      <4>1. /\ kind'[c] \in Exports \cup {"validate"}
            /\ pc'[c] \in {"checked", "submit", "staged", "written"}
            /\ base'[c] = Newest /\ \A e \in Calls : pc[e] # "written"
        BY <3>3, <1>0, <2>1, <2>2 DEF HasRead
      <4>2. CASE pc[c] = "check"
        BY <4>1, <4>2, <1>2, <2>2 DEF FifoInv, Settled
      <4>3. CASE pc[c] \in {"checked", "submit", "staged"}
        <5>1. seen' = seen /\ kind' = kind /\ base' = base
          BY <4>3, Frame
        <5>2. HasRead(c)
          BY <4>1, <4>3, <5>1 DEF HasRead
        <5> QED
          BY <5>1, <5>2, <1>2, <2>2 DEF SeenInv
      <4> QED
        BY <4>1, <4>2, <4>3, <1>2
    <3> QED
      BY <2>4, <3>2, <3>3
  <2> QED
    BY <2>3, <2>4
<1> QED
  BY <1>3, <1>4

------------------------------------------------------------------------------
(* A report that stays in the slot stays one of the head's content, and so *)
(* is each that is remembered; a new version shows none of the old one.    *)
LEMMA SlotKept ==
  ASSUME TypeOK, TypeOK', FifoInv, SeenInv, SlotInv, \A d \in Calls : CallInv(d),
         NEW c \in Calls, Validate(c) \/ Call(c) \/ Cancel(c) \/ Serve(c)
  PROVE  SlotInv'
<1> USE DEF TypeOK, locals, document, Go
<1>0. /\ busy \in Calls \cup {Nobody} /\ Nobody \notin Calls
      /\ \A d \in Calls \ {c} : /\ pc'[d] = pc[d] /\ kind'[d] = kind[d] /\ base'[d] = base[d]
                              /\ seen'[d] = seen[d] /\ made'[d] = made[d]
  BY Frame, GatesAssumption DEF GatesAssumption
<1>1. CASE /\ slot'.by = c /\ pc'[c] \in {"done", "blocked"}
           /\ rollbacks = 0 /\ Settled => seen[c] \in {versions[Newest], Blank}
           /\ UNCHANGED <<versions, rollbacks, seen>>
           /\ pc[c] \notin {"staged", "written"}
  <2>1. Settled' => Settled
    BY <1>0, <1>1 DEF Settled
  <2> QED
    BY <1>1, <2>1 DEF SlotInv, ShownReportIsOfHead, Shown, Newest
<1>2. CASE slot'.revision = 0
  <2>1. Newest' > 0
    BY DEF Newest
  <2> QED
    BY <1>2, <2>1 DEF SlotInv, ShownReportIsOfHead, Shown
<1>3. CASE slot'.revision = slot.revision /\ slot'.by = slot.by /\ slot.revision # 0
  <2>1. slot.by \in Calls /\ pc[slot.by] \in {"done", "blocked"}
    BY <1>3 DEF SlotInv
  <2>2. pc[c] \notin {"done", "blocked"}
    BY DEF Validate, Call, Start, Cancel, Serve, BeginExport, Enter, Check, Validated,
       Blocked, Accepted, Stage, Refuse, ReplaceWorking, Advance, RollBack, Publish,
       PublishFails, Fails, Rename, Exported, Committed
  <2>3. slot.by # c /\ pc'[slot.by] = pc[slot.by] /\ seen'[slot.by] = seen[slot.by]
    BY <2>1, <2>2, <1>0
  <2>4. ASSUME Settled', rollbacks' = 0, Shown' PROVE seen[slot.by] \in {versions'[Newest'], Blank}
    <3>1. CASE Advance(c)
      <4>1. Newest' = Newest + 1
        BY <3>1, VersionsGrow
      <4>2. slot'.revision = Newest' /\ slot.revision \in 0..Newest /\ Newest \in Nat
        BY <2>4 DEF Shown, Newest
      <4> QED
        BY <4>1, <4>2, <1>3
    <3>2. CASE ~Advance(c)
      <4>1. rollbacks = 0 /\ pc[c] # "written"
        BY <3>2, <2>4 DEF RollBack, Serve, Validate, Call, Start, BeginExport, Enter, Check,
           Cancel, Validated, Blocked, Accepted, Stage, Refuse, ReplaceWorking, Publish,
           PublishFails, Fails, Rename, Exported, Committed
      <4>2. versions' = versions /\ Newest' = Newest
        BY <4>1, Frame DEF Newest
      <4>3. Settled
        BY <2>4, <4>1, <1>0 DEF Settled
      <4> QED
        BY <1>3, <2>4, <4>1, <4>2, <4>3 DEF SlotInv, ShownReportIsOfHead, Shown
    <3> QED
      BY <3>1, <3>2
  <2> QED
    BY <1>3, <2>1, <2>3, <2>4 DEF SlotInv, ShownReportIsOfHead
<1>4. CASE UNCHANGED slot \/ \E s \in 0..Newest : BeginGate(c, s)
  <2>1. slot'.revision = slot.revision /\ slot'.by = slot.by
    BY <1>4 DEF BeginGate
  <2> QED
    BY <2>1, <1>2, <1>3
<1>5. ASSUME FenceMutation(base[c]) PROVE SlotInv'
  BY <1>5, <1>4, <1>2 DEF FenceMutation
<1>6. ASSUME rollbacks = 0, Settled, pc[c] = "checked", base[c] = Newest,
             kind[c] \in Exports \cup {"validate"}
      PROVE  seen[c] \in {versions[Newest], Blank}
  BY <1>6 DEF SeenInv, HasRead, Settled
<1>7. CASE Validated(c)
  <2>1. CASE slot'.by = c /\ base[c] = Newest
    BY <1>7, <2>1, <1>6, <1>1 DEF Validated
  <2>2. CASE UNCHANGED slot
    BY <2>2, <1>4
  <2> QED
    BY <1>7, <2>1, <2>2 DEF Validated, RememberGate
<1>8. CASE Blocked(c)
  <2>1. CASE slot'.by = c /\ base[c] = Newest /\ kind[c] = "delivery"
    BY <1>8, <2>1, <1>6, <1>1 DEF Blocked, Exports
  <2>2. CASE UNCHANGED slot
    BY <2>2, <1>4
  <2> QED
    BY <1>8, <2>1, <2>2 DEF Blocked, RememberGate
<1>9. CASE Exported(c)
  <2>1. CASE slot'.by = c /\ made[c] = Newest
    <3>1. kind[c] \in Exports /\ made[c] # 0
      BY <1>9 DEF Exported, CallInv
    <3>2. rollbacks = 0 => seen[c] \in {versions[Newest], Blank}
      BY <3>1, <2>1 DEF SeenInv
    <3> QED
      BY <1>9, <2>1, <3>2, <1>1 DEF Exported
  <2>2. CASE UNCHANGED slot
    BY <2>2, <1>4
  <2> QED
    BY <1>9, <2>1, <2>2 DEF Exported, RememberGate
<1>10. CASE Committed(c)
  BY <1>10, <1>5, <1>4 DEF Committed
<1>11. CASE Validate(c) \/ BeginExport(c)
  <2>1. \E s \in 0..Newest : BeginGate(c, s)
    BY <1>11 DEF Validate, BeginExport, Newest
  <2> QED
    BY <2>1, <1>4
<1>12. CASE ~ (Validated(c) \/ Blocked(c) \/ Exported(c) \/ Committed(c) \/ Validate(c)
               \/ BeginExport(c))
  <2>1. UNCHANGED slot
    BY <1>12 DEF Call, Start, Serve, Enter, Check, Cancel, Accepted, Stage, Refuse,
       ReplaceWorking, Advance, RollBack, Publish, PublishFails, Fails, Rename
  <2> QED
    BY <2>1, <1>4
<1> QED
  BY <1>7, <1>8, <1>9, <1>10, <1>11, <1>12
------------------------------------------------------------------------------
(* An export holds its place from its gate to its publication, so nobody   *)
(* commits for its path after it until then.                               *)
LEMMA QueueKept ==
  ASSUME TypeOK, QueueInv, \A d \in Calls : CallInv(d),
         NEW c \in Calls, Validate(c) \/ Call(c) \/ Cancel(c) \/ Serve(c)
  PROVE  QueueInv'
<1> USE DEF TypeOK, locals, document, exports, Go
<1> DEFINE Holding == {"check", "checked", "submit", "staged", "written", "committed", "renamed"}
<1>0. /\ Nobody \notin Calls
      /\ \A d \in Calls \ {c} : /\ pc'[d] = pc[d] /\ kind'[d] = kind[d]
                              /\ made'[d] = made[d] /\ path'[d] = path[d]
      /\ \A d \in Calls : path[d] \in Paths /\ path'[d] \in Paths /\ made[d] \in 0..Newest
      /\ Newest \in Nat
  <2>1. path' \in [Calls -> Paths]
    BY StepTypes
  <2>2. \A d \in Calls : path[d] \in Paths /\ path'[d] \in Paths /\ made[d] \in 0..Newest
    BY <2>1
  <2>3. Newest \in Nat
    BY DEF Newest
  <2> QED
    BY <2>2, <2>3, Frame, GatesAssumption DEF GatesAssumption
<1>1. SUFFICES ASSUME NEW d \in Calls, kind'[d] \in Exports
               PROVE  /\ pc'[d] \in Holding => exporting'[path'[d]] = d
                      /\ pc'[d] \in {"committed", "renamed"} => Latest(d)'
  BY DEF QueueInv
<1>2. pc'[d] \in Holding => exporting'[path'[d]] = d
  <2>1. CASE d # c
    <3>1. pc[d] \in Holding => exporting[path[d]] = d
      BY <1>0, <1>1, <2>1 DEF QueueInv
    <3> QED
      BY <1>0, <2>1, <3>1 DEF Validate, Call, Start, Cancel, Serve, BeginExport, Enter,
         Check, Validated, Blocked, Accepted, Stage, Refuse, ReplaceWorking, Advance,
         RollBack, Rename, Publish, PublishFails, Fails, Exported, Committed, Leave
  <2>2. CASE d = c
    <3>1. CASE Validate(c) \/ Call(c) \/ BeginExport(c)
      BY <3>1, <1>1, <2>2 DEF Validate, Call, Start, BeginExport, Exports
    <3>2. CASE Enter(c)
      BY <3>2, <1>0, <2>2 DEF Enter
    <3>3. CASE Check(c) \/ Accepted(c) \/ Stage(c) \/ ReplaceWorking(c) \/ Advance(c)
               \/ Rename(c)
      BY <3>3, <1>1, <2>2
         DEF Check, Accepted, Stage, ReplaceWorking, Advance, Rename, QueueInv
    <3>4. CASE ~ (Validate(c) \/ Call(c) \/ BeginExport(c) \/ Enter(c) \/ Check(c)
                  \/ Accepted(c) \/ Stage(c) \/ ReplaceWorking(c) \/ Advance(c) \/ Rename(c))
      BY <3>4, <2>2 DEF Cancel, Serve, Validated, Blocked, Refuse, RollBack, Publish,
         PublishFails, Fails, Exported, Committed
    <3> QED
      BY <3>1, <3>2, <3>3, <3>4
  <2> QED
    BY <2>1, <2>2
<1>3. ASSUME pc'[d] \in {"committed", "renamed"} PROVE Latest(d)'
  <2>1. CASE Advance(c)
    <3>1. /\ pc[c] = "written" /\ pc'[c] = "committed" /\ UNCHANGED <<kind, path>>
          /\ made' = [made EXCEPT ![c] = Newest + 1]
      BY <2>1 DEF Advance
    <3>2. CASE d = c
      <4>1. made'[c] = Newest + 1 /\ \A e \in Calls : made'[e] <= Newest + 1
        BY <3>1, <1>0
      <4> QED
        BY <4>1, <3>2 DEF Latest
    <3>3. CASE d # c
      <4>1. exporting[path[d]] = d /\ Latest(d)
        BY <1>0, <1>1, <1>3, <3>1, <3>3 DEF QueueInv
      <4>2. kind[c] \in Exports => path[c] # path[d]
        BY <3>1, <3>3, <4>1 DEF QueueInv
      <4> QED
        BY <1>0, <3>1, <3>3, <4>1, <4>2 DEF Latest
    <3> QED
      BY <3>2, <3>3
  <2>2. CASE ~Advance(c)
    <3>1. made' = made /\ pc'[c] # "committed"
      BY <2>2 DEF Validate, Call, Start, Cancel, Serve, BeginExport, Enter, Check,
         Validated, Blocked, Accepted, Stage, Refuse, ReplaceWorking, RollBack,
         Rename, Publish, PublishFails, Fails, Exported, Committed
    <3>2. pc[d] \in {"committed", "renamed"} /\ kind'[d] = kind[d] /\ path'[d] = path[d]
      <4>1. CASE d # c
        BY <4>1, <1>0, <1>3
      <4>2. CASE d = c
        <5>1. pc'[c] = "renamed"
          BY <4>2, <3>1, <1>3
        <5>2. pc[c] = "committed"
          BY <5>1 DEF Validate, Call, Start, Cancel, Serve, BeginExport, Enter, Check,
             Validated, Blocked, Accepted, Stage, Refuse, ReplaceWorking, Advance, RollBack,
             Rename, Publish, PublishFails, Fails, Exported, Committed
        <5> QED
          BY <5>2, <4>2, Frame
      <4> QED
        BY <4>1, <4>2
    <3>3. Latest(d) /\ made[d] \in Nat
      BY <1>0, <1>1, <3>2 DEF QueueInv
    <3>4. ASSUME NEW e \in Calls, kind'[e] \in Exports, path'[e] = path'[d]
          PROVE  made'[e] <= made'[d]
      <4>1. CASE pc[c] = "new" /\ e = c
        <5>1. made[c] = 0
          BY <4>1 DEF CallInv
        <5> QED
          BY <5>1, <4>1, <3>1, <3>3
      <4>2. CASE ~ (pc[c] = "new" /\ e = c)
        <5>1. kind'[e] = kind[e] /\ path'[e] = path[e]
          BY <4>2, <1>0, Frame
        <5> QED
          BY <5>1, <3>1, <3>2, <3>3, <3>4 DEF Latest
      <4> QED
        BY <4>1, <4>2
    <3> QED
      BY <3>4 DEF Latest
  <2> QED
    BY <2>1, <2>2
<1> QED
  BY <1>2, <1>3

(* A call keeps its path and its version once it has one.                  *)
LEMMA OutputKept ==
  ASSUME TypeOK, OutputInv, \A d \in Calls : CallInv(d),
         NEW c \in Calls, Validate(c) \/ Call(c) \/ Cancel(c) \/ Serve(c)
  PROVE  OutputInv'
<1> USE DEF TypeOK, locals, document, exports, Go, Target
<1>1. SUFFICES ASSUME NEW f \in Paths, output'[f] # 0
               PROVE  \E d \in Calls : kind'[d] \in Exports /\ Target(d)' = f /\ made'[d] = output'[f]
  BY DEF OutputInv
<1>2. CASE output'[f] = output[f]
  <2>1. PICK d \in Calls : kind[d] \in Exports /\ Target(d) = f /\ made[d] = output[f]
    BY <1>1, <1>2 DEF OutputInv
  <2>2. made[d] # 0
    BY <2>1, <1>1, <1>2
  <2>3. pc[d] \notin {"new", "written"}
    BY <2>2 DEF CallInv
  <2>4. kind'[d] = kind[d] /\ path'[d] = path[d] /\ made'[d] = made[d]
    BY <2>3, Frame
  <2> QED
    BY <2>1, <2>4, <1>2
<1>3. CASE output'[f] # output[f]
  <2>1. Rename(c) \/ PublishFails(c)
    BY <1>3 DEF Validate, Call, Start, Cancel, Serve, BeginExport, Enter, Check, Validated,
       Blocked, Accepted, Stage, Refuse, ReplaceWorking, Advance, RollBack, Publish,
       Exported, Committed
  <2>2. ~PublishFails(c)
    BY <1>1, <1>3 DEF PublishFails, Fails, Withdraw
  <2> QED
    BY <1>1, <1>3, <2>1, <2>2 DEF Rename
<1> QED
  BY <1>2, <1>3
------------------------------------------------------------------------------
(* A claim is the newest when it is made, and the slot is its owner's      *)
(* until another is made on the same source.                               *)
LEMMA ClaimKept ==
  ASSUME TypeOK, ClaimInv, \A d \in Calls : CallInv(d),
         NEW c \in Calls, Validate(c) \/ Call(c) \/ Cancel(c) \/ Serve(c)
  PROVE  ClaimInv'
<1> USE DEF TypeOK, locals, document, exports, Go
<1>0. /\ Nobody \notin Calls /\ Fence \notin Calls
      /\ \A d \in Calls \ {c} : pc'[d] = pc[d] /\ base'[d] = base[d]
      /\ pc'[c] \notin {"new"} /\ (pc'[c] = "begin" => pc[c] = "new")
      /\ pc[c] # "new" => base' = base
  <2>1. pc'[c] \notin {"new"} /\ (pc'[c] = "begin" => pc[c] = "new")
    BY DEF Validate, Call, Start, Cancel, Serve, BeginExport, Enter, Check, Validated,
       Blocked, Accepted, Stage, Refuse, ReplaceWorking, Advance, RollBack, Publish,
       PublishFails, Fails, Rename, Exported, Committed
  <2> QED
    BY <2>1, Frame, GatesAssumption DEF GatesAssumption
<1>1. \A i \in 1..Len(began) : began[i] \in Calls /\ pc[began[i]] \notin {"new", "begin"}
  <2>1. began \in Seq(Calls)
    OBVIOUS
  <2> HIDE DEF TypeOK
  <2> QED
    BY <2>1 DEF ClaimInv
<1>2. CASE /\ began' = began
           /\ \/ UNCHANGED <<slot>>
              \/ slot'.claim = Fence
              \/ slot'.claim = c /\ pc[c] \notin {"new", "begin"} /\ slot'.source # base[c]
                 /\ pc'[c] \in {"done", "blocked"}
              \/ slot'.claim = slot.claim /\ slot'.source = slot.source
                 /\ slot.claim = c /\ pc[c] \notin {"new", "begin"}
  <2>1. \A i \in 1..Len(began) : pc'[began[i]] \notin {"new", "begin"}
    BY <1>0, <1>1
  <2>2. SUFFICES ASSUME NEW d \in Calls, slot'.claim = d
                 PROVE  /\ pc'[d] \notin {"new", "begin"}
                        /\ pc'[d] \notin {"done", "blocked"} => slot'.source = base'[d]
                        /\ slot'.source = base'[d] =>
                             \A e \in Calls : base'[e] = base'[d] => ~Before(d, e)'
    BY <1>2, <2>1 DEF ClaimInv
  <2>3. CASE slot'.claim = c /\ pc[c] \notin {"new", "begin"} /\ slot'.source # base[c]
             /\ pc'[c] \in {"done", "blocked"}
    BY <2>2, <2>3, <1>0
  <2>4. CASE slot'.claim = slot.claim /\ slot'.source = slot.source
    <3>1. /\ slot.claim = d /\ pc[d] \notin {"new", "begin"}
          /\ pc[d] \notin {"done", "blocked"} => slot.source = base[d]
          /\ slot.source = base[d] => \A e \in Calls : base[e] = base[d] => ~Before(d, e)
      BY <2>2, <2>4 DEF ClaimInv
    <3>2. pc'[d] \notin {"new", "begin"} /\ base'[d] = base[d]
      BY <3>1, <1>0
    <3>3. pc[d] \in {"done", "blocked"} => pc'[d] = pc[d]
      BY <1>0 DEF Validate, Call, Start, Cancel, Serve, BeginExport, Enter, Check, Validated,
         Blocked, Accepted, Stage, Refuse, ReplaceWorking, Advance, RollBack, Publish,
         PublishFails, Fails, Rename, Exported, Committed
    <3>4. ASSUME slot.source = base[d], NEW e \in Calls, base'[e] = base'[d], Before(d, e)
          PROVE  FALSE
      <4>1. e = c /\ pc[c] = "new"
        BY <3>1, <3>2, <3>4, <1>0
      <4>2. \E j \in 1..Len(began) : began[j] = e
        BY <3>4 DEF Before
      <4> QED
        BY <4>1, <4>2, <1>1
    <3>5. \A e \in Calls : Before(d, e)' <=> Before(d, e)
      BY <1>2 DEF Before
    <3> QED
      BY <2>4, <3>1, <3>2, <3>3, <3>4, <3>5
  <2> QED
    BY <1>0, <1>2, <2>2, <2>3, <2>4
<1>3. CASE Validate(c) \/ BeginExport(c)
  <2>1. /\ slot'.claim = c /\ slot'.source = base'[c] /\ began' = Append(began, c)
        /\ pc[c] \in {"new", "begin"} /\ pc'[c] \notin {"new", "begin"}
    BY <1>3 DEF Validate, Start, BeginExport, BeginGate
  <2> DEFINE n == Len(began)
  <2>2. /\ n \in Nat /\ Len(began') = n + 1 /\ began'[n + 1] = c
        /\ \A i \in 1..n : began'[i] = began[i]
    <3>1. began \in Seq(Calls)
      OBVIOUS
    <3> HIDE DEF TypeOK
    <3> QED
      BY <2>1, <3>1
  <2>3. \A i \in 1..n : began[i] # c
    BY <2>1, <1>1
  <2> HIDE DEF n, TypeOK
  <2>4. \A i \in 1..Len(began') : pc'[began'[i]] \notin {"new", "begin"}
    <3>1. \A i \in 1..n : pc'[began'[i]] \notin {"new", "begin"}
      BY <2>2, <2>3, <1>0, <1>1 DEF n
    <3>2. \A i \in 1..(n + 1) : i \in 1..n \/ i = n + 1
      BY <2>2
    <3> QED
      BY <3>1, <3>2, <2>1, <2>2
  <2>5. \A e \in Calls : ~Before(c, e)'
    <3>1. \A i \in 1..(n + 1) : i < n + 1 => i \in 1..n
      BY <2>2
    <3>2. \A i, j \in 1..(n + 1) : i < j => i < n + 1
      BY <2>2
    <3> QED
      BY <2>2, <2>3, <3>1, <3>2 DEF Before
  <2> QED
    BY <2>1, <2>4, <2>5 DEF ClaimInv
<1>4. CASE Validated(c)
  <2>1. /\ pc[c] = "checked" /\ began' = began
        /\ UNCHANGED slot \/ (slot'.claim = c /\ slot.claim = c /\ slot'.source = base[c])
    BY <1>4 DEF Validated, RememberGate
  <2>2. slot.claim = c => slot.source = base[c]
    BY <2>1 DEF ClaimInv
  <2> QED
    BY <2>1, <2>2, <1>2
<1>5. CASE Blocked(c)
  <2>1. /\ pc[c] = "checked" /\ began' = began
        /\ UNCHANGED slot \/ (slot'.claim = c /\ slot.claim = c /\ slot'.source = base[c])
    BY <1>5 DEF Blocked, RememberGate
  <2>2. slot.claim = c => slot.source = base[c]
    BY <2>1 DEF ClaimInv
  <2> QED
    BY <2>1, <2>2, <1>2
<1>6. CASE Exported(c)
  <2>1. /\ pc[c] = "published" /\ pc'[c] = "done" /\ began' = began
        /\ UNCHANGED slot \/ (slot'.claim = c /\ slot'.source = made[c])
    BY <1>6 DEF Exported, RememberGate
  <2>2. made[c] # base[c]
    BY <2>1 DEF CallInv
  <2> QED
    BY <2>1, <2>2, <1>2
<1>7. CASE Committed(c)
  BY <1>7, <1>2 DEF Committed, FenceMutation
<1>8. CASE ~ (Validated(c) \/ Blocked(c) \/ Exported(c) \/ Committed(c) \/ Validate(c)
              \/ BeginExport(c))
  <2>1. UNCHANGED <<slot, began>>
    BY <1>8 DEF Call, Serve, Enter, Check, Cancel, Accepted, Stage, Refuse,
       ReplaceWorking, Advance, RollBack, Publish, PublishFails, Fails, Rename
  <2> QED
    BY <2>1, <1>2
<1> QED
  BY <1>3, <1>4, <1>5, <1>6, <1>7, <1>8

------------------------------------------------------------------------------
LEMMA InitInv == Init => GatesInv
<1> SUFFICES ASSUME Init PROVE GatesInv
  OBVIOUS
<1> USE GatesAssumption DEF Init, GatesAssumption
<1>1. FifoInv
  BY DEF FifoInv, Newest
<1>2. \A c \in Calls : CallInv(c)
  BY DEF CallInv
<1>3. SeenInv
  BY DEF SeenInv, HasRead
<1>4. SlotInv
  BY DEF SlotInv, ShownReportIsOfHead, Shown, Newest
<1>5. QueueInv
  BY DEF QueueInv
<1>6. ClaimInv
  BY DEF ClaimInv
<1>7. OutputInv
  BY DEF OutputInv
<1> QED
  BY <1>1, <1>2, <1>3, <1>4, <1>5, <1>6, <1>7 DEF GatesInv

LEMMA StepInv == TypeOK /\ GatesInv /\ [Next]_vars => TypeOK' /\ GatesInv'
<1>1. CASE UNCHANGED vars
  BY <1>1 DEF vars, document, exports, locals, TypeOK, GatesInv, FifoInv, CallInv, SeenInv,
     SlotInv, QueueInv, OutputInv, Target, ClaimInv, Newest, Settled, DeliveryBlocked, HasRead,
     ShownReportIsOfHead, Shown, Latest, Before
<1>2. ASSUME TypeOK, GatesInv, NEW c \in Calls,
             Validate(c) \/ Call(c) \/ Cancel(c) \/ Serve(c)
      PROVE  TypeOK' /\ GatesInv'
  <2>1. TypeOK'
    BY <1>2, StepTypes
  <2>2. FifoInv'
    BY <1>2, FifoKept DEF GatesInv
  <2>3. \A d \in Calls : CallInv(d)'
    BY <1>2, CallsKept DEF GatesInv
  <2>4. SeenInv'
    BY <1>2, SeenKept DEF GatesInv
  <2>5. SlotInv'
    BY <1>2, <2>1, SlotKept DEF GatesInv
  <2>6. QueueInv'
    BY <1>2, QueueKept DEF GatesInv
  <2>7. ClaimInv'
    BY <1>2, ClaimKept DEF GatesInv
  <2>8. OutputInv'
    BY <1>2, OutputKept DEF GatesInv
  <2> QED
    BY <2>1, <2>2, <2>3, <2>4, <2>5, <2>6, <2>7, <2>8 DEF GatesInv
<1> QED
  BY <1>1, <1>2 DEF Next

(* Every variable keeps to its values, and the invariant that explains the *)
(* properties of gates and exports holds in every state.                   *)
THEOREM GatesInvariant == Spec => [](TypeOK /\ GatesInv)
BY InitTypes, InitInv, StepInv, PTL DEF Spec

(* What an opened document shows of its gate is a report of its present    *)
(* content, if no publication was rolled back and none is under way.       *)
THEOREM ShownReports == Spec => []ShownReportIsOfHead
<1>1. GatesInv => ShownReportIsOfHead
  BY DEF GatesInv, SlotInv
<1> QED
  BY <1>1, GatesInvariant, PTL

(* A delivery has the content its own gate passed, however many calls      *)
(* commit between its gate, its milestone and its publication.             *)
THEOREM DeliveriesChecked == Spec => []DeliveredIsChecked
<1>1. TypeOK /\ GatesInv => DeliveredIsChecked
  BY DEF TypeOK, GatesInv, SeenInv, CallInv, DeliveryBlocked, DeliveredIsChecked, Exports
<1> QED
  BY <1>1, GatesInvariant, PTL

(* Of the gates of one revision only the last begun publishes its report.  *)
THEOREM LatestPublishes == Spec => LatestClaimPublishes
<1> DEFINE Late == \A c \in Calls : Remembers(c) /\ slot'.revision = base[c] =>
                     \A d \in Calls : base[d] = base[c] => ~Before(c, d)
<1>1. ASSUME TypeOK, GatesInv, [Next]_vars PROVE [Late]_vars
  <2>1. SUFFICES ASSUME NEW c \in Calls, Remembers(c), slot'.revision = base[c]
                 PROVE  \A d \in Calls : base[d] = base[c] => ~Before(c, d)
    OBVIOUS
  <2>2. Validate(c) \/ Call(c) \/ Cancel(c) \/ Serve(c)
    <3>1. PICK e \in Calls : Validate(e) \/ Call(e) \/ Cancel(e) \/ Serve(e)
      BY <1>1, <2>1 DEF Next, vars, Remembers
    <3>2. c # e => pc'[c] = pc[c]
      BY <1>1, <3>1, Frame
    <3> QED
      BY <2>1, <3>1, <3>2 DEF Remembers
  <2>3. slot.claim = c /\ slot.source = base[c]
    <3>1. slot.by = c /\ slot.revision # 0 => pc[c] \in {"done", "blocked"}
      BY <1>1 DEF GatesInv, SlotInv
    <3>2. CASE Validate(c) \/ BeginExport(c)
      BY <1>1, <2>1, <3>1, <3>2
         DEF Validate, BeginExport, Start, Go, BeginGate, Remembers, TypeOK
    <3>3. CASE Validated(c) \/ Blocked(c)
      <4>1. slot.claim = c /\ pc[c] = "checked"
        BY <2>1, <3>3 DEF Validated, Blocked, Go, RememberGate, Remembers
      <4> QED
        BY <1>1, <4>1 DEF GatesInv, ClaimInv
    <3>4. CASE Exported(c)
      <4>1. slot'.revision = made[c] /\ made[c] # 0 /\ made[c] = base[c] + 1
        BY <1>1, <2>1, <3>4
           DEF Exported, Go, RememberGate, Remembers, GatesInv, CallInv
      <4> QED
        BY <1>1, <2>1, <4>1 DEF TypeOK
    <3>5. CASE Committed(c)
      BY <1>1, <2>1, <3>5 DEF Committed, FenceMutation, Remembers
    <3>6. CASE ~ (Validated(c) \/ Blocked(c) \/ Exported(c) \/ Committed(c)
                  \/ Validate(c) \/ BeginExport(c))
      BY <2>1, <2>2, <3>6 DEF Remembers, Call, Serve, Enter, Check, Cancel, Accepted,
         Stage, Refuse, ReplaceWorking, Advance, RollBack, Publish, PublishFails, Fails, Rename
    <3> QED
      BY <3>2, <3>3, <3>4, <3>5, <3>6
  <2> QED
    BY <1>1, <2>1, <2>3 DEF GatesInv, ClaimInv
<1> QED
  BY <1>1, GatesInvariant, PTL DEF Spec, LatestClaimPublishes

(* What an export puts into a file is the newest committed for its path,   *)
(* what a failed one empties is its own output, and a file of one path     *)
(* never goes back.                                                        *)
THEOREM OutputsForward == Spec => OutputMovesForward
<1> DEFINE By(f) == \E c \in Calls : /\ pc'[c] # pc[c] /\ Target(c) = f
                                   /\ \/ output[f] = made[c] /\ output'[f] = 0
                                      \/ output'[f] = made[c] /\ Latest(c)
           Forward == \A f \in Paths : output'[f] # output[f] =>
                        /\ By(f)
                        /\ Sole(f) => output'[f] = 0 \/ output'[f] > output[f]
<1>1. ASSUME TypeOK, GatesInv, [Next]_vars PROVE [Forward]_vars
  <2>1. SUFFICES ASSUME NEW f \in Paths, output'[f] # output[f]
                 PROVE  By(f) /\ (Sole(f) => output'[f] = 0 \/ output'[f] > output[f])
    OBVIOUS
  <2>2. PICK c \in Calls : Rename(c) \/ PublishFails(c)
    BY <1>1, <2>1 DEF Next, vars, exports, document, Validate, Call, Start, Cancel, Serve,
       BeginExport, Enter, Check, Validated, Blocked, Accepted, Stage, Refuse,
       ReplaceWorking, Advance, RollBack, Publish, Exported, Committed
  <2>3. CASE Rename(c)
    <3>1. /\ output' = [output EXCEPT ![Target(c)] = made[c]]
          /\ pc[c] = "committed" /\ pc'[c] = "renamed" /\ kind[c] \in Exports
      BY <1>1, <2>3 DEF Rename, Go, TypeOK
    <3>2. Target(c) = f /\ output'[f] = made[c]
      BY <1>1, <2>1, <3>1 DEF TypeOK
    <3>3. Latest(c)
      BY <1>1, <3>1 DEF GatesInv, QueueInv
    <3>4. ASSUME Sole(f) PROVE output'[f] > output[f]
      <4>1. /\ made[c] \in Nat /\ made[c] # 0 /\ output[f] \in Nat
            /\ path[c] \in Paths
        BY <1>1, <3>1 DEF TypeOK, GatesInv, CallInv
      <4>2. CASE output[f] = 0
        BY <3>2, <4>1, <4>2
      <4>3. CASE output[f] # 0
        <5>1. PICK d \in Calls : kind[d] \in Exports /\ Target(d) = f /\ made[d] = output[f]
          BY <1>1, <4>3 DEF GatesInv, OutputInv
        <5>2. path[d] = path[c]
          BY <1>1, <3>2, <3>4, <4>1, <5>1 DEF Sole, Target, TypeOK
        <5>3. made[d] <= made[c]
          BY <3>3, <5>1, <5>2 DEF Latest
        <5> QED
          BY <2>1, <3>2, <4>1, <5>1, <5>3
      <4> QED
        BY <4>2, <4>3
    <3> QED
      BY <3>1, <3>2, <3>3, <3>4
  <2>4. CASE PublishFails(c)
    <3>1. output' = Withdraw(c) /\ pc[c] = "renamed" /\ pc'[c] = "failed"
      BY <1>1, <2>1, <2>4 DEF PublishFails, Fails, Go, TypeOK
    <3>2. Target(c) = f /\ output[f] = made[c] /\ output'[f] = 0
      BY <1>1, <2>1, <3>1 DEF TypeOK, Withdraw
    <3> QED
      BY <3>1, <3>2
  <2> QED
    BY <2>2, <2>3, <2>4
<1> QED
  BY <1>1, GatesInvariant, PTL DEF Spec, OutputMovesForward
==============================================================================
