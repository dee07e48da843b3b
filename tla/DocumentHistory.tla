--------------------------- MODULE DocumentHistory ---------------------------
(***************************************************************************)
(* What the commit service promises of one document, whatever happens to   *)
(* its files, its journal and its host: a history of versions that only    *)
(* grows, one child at a time, and callers that are told of a version only *)
(* once it belongs to that history.                                        *)
(***************************************************************************)
CONSTANTS
  CommitIds,   \* identities a version may take
  Contents,    \* the document images a version may record
  TemplateIds, \* the template contracts a version may be bound to
  None

VARIABLES
  head,        \* the newest version, or None before the first
  versions,    \* the versions reachable from the head
  object,      \* what each identity records: [parent, content, template]
  acknowledged \* the versions some caller was told of

hvars == <<head, versions, object, acknowledged>>

Heads == CommitIds \cup {None}
Version == [parent : Heads, content : Contents,
            template : TemplateIds \cup {None}]

HInit ==
  /\ head = None
  /\ versions = {}
  /\ object = [c \in CommitIds |-> None]
  /\ acknowledged = {}

(* An object that is in no history may be stored under a new identity; it  *)
(* is never changed afterwards.                                            *)
Record(c, v) ==
  /\ object[c] = None
  /\ c \notin versions
  /\ object' = [object EXCEPT ![c] = v]
  /\ UNCHANGED <<head, versions, acknowledged>>

(* A recorded child of the head becomes the head.                          *)
Publish(c) ==
  /\ object[c] # None
  /\ c \notin versions
  /\ object[c].parent = head
  /\ head' = c
  /\ versions' = versions \cup {c}
  /\ UNCHANGED <<object, acknowledged>>

Acknowledge(c) ==
  /\ c \in versions
  /\ acknowledged' = acknowledged \cup {c}
  /\ UNCHANGED <<head, versions, object>>

HNext ==
  \E c \in CommitIds :
    \/ \E v \in Version : Record(c, v)
    \/ Publish(c)
    \/ Acknowledge(c)

HSpec == HInit /\ [][HNext]_hvars
==============================================================================
