------------------------------ MODULE DurableLog ------------------------------
(***************************************************************************)
(* What session persistence promises of one session's log                  *)
(* (docs/subsystems/persistence.md): while the session is open the stored  *)
(* log only grows; what a flush has acknowledged is never lost; while the  *)
(* session is not open only the torn end that its owner may have left      *)
(* behind the complete records goes, and that end is gone when it opens.   *)
(***************************************************************************)
EXTENDS Naturals, Sequences

VARIABLES
  stored, \* the events that a reader of the storage would find
  whole,  \* how many of them are in complete records, the others in a torn end
  acked,  \* how many of them have been acknowledged
  open    \* whether a live session owns the log
vars == <<stored, whole, acked, open>>

Extends(longer, shorter) ==
  /\ Len(longer) >= Len(shorter)
  /\ \A i \in 1..Len(shorter) : longer[i] = shorter[i]

Init == stored = <<>> /\ whole = 0 /\ acked = 0 /\ open = FALSE

Open ==
  /\ ~open /\ open' = TRUE
  /\ whole = Len(stored)
  /\ UNCHANGED <<stored, whole, acked>>

Grow ==
  /\ open
  /\ Extends(stored', stored) /\ whole' = Len(stored')
  /\ UNCHANGED <<acked, open>>

Acknowledge ==
  /\ open
  /\ acked' \in acked..Len(stored)
  /\ UNCHANGED <<stored, whole, open>>

(* The owner leaves, perhaps in the middle of an append.                   *)
Leave ==
  /\ open /\ open' = FALSE
  /\ Extends(stored', stored) /\ whole' \in whole..Len(stored')
  /\ UNCHANGED acked

(* A repair may be cut off and begin again; complete records stay.         *)
Mend ==
  /\ ~open
  /\ \E kept \in whole..Len(stored) : Extends(stored', SubSeq(stored, 1, kept))
  /\ whole' \in whole..Len(stored')
  /\ UNCHANGED <<acked, open>>

Next == Open \/ Grow \/ Acknowledge \/ Leave \/ Mend

Spec == Init /\ [][Next]_vars
=============================================================================
