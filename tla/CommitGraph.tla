------------------------------ MODULE CommitGraph ------------------------------
(***************************************************************************)
(* Commit objects as a graph: what reachableHistory can walk to from a     *)
(* head through parentId.  An object is a record with a parent, or None    *)
(* when nothing is stored under the identity.                              *)
(***************************************************************************)
CONSTANTS
  CommitIds, \* the identities randomUUID may return
  None       \* no commit

ASSUME NoneIsNoCommit == None \notin CommitIds

ParentOf(object, c) == IF object[c] = None THEN None ELSE object[c].parent

(* A set that holds the parent of each of its commits.                     *)
ParentClosed(object, s) == \A c \in s : ParentOf(object, c) \in s \cup {None}

(* The least such set that holds the head.                                 *)
ReachableFrom(object, h) ==
  {c \in CommitIds : \A s \in SUBSET CommitIds :
     (h \in s \cup {None} /\ ParentClosed(object, s)) => c \in s}
==============================================================================
