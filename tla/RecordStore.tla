------------------------------ MODULE RecordStore ------------------------------
(***************************************************************************)
(* What a storage domain promises its callers: one memory that all reads   *)
(* see, writes that take effect one after the other in the order they were *)
(* asked for, and a memory that after a restart still holds, under every   *)
(* key, the last acknowledged write or one that was not acknowledged and   *)
(* may have got through all the same.                                      *)
(***************************************************************************)
EXTENDS Sequences

CONSTANTS
  Calls,  \* calls of put, delete and update
  Keys,   \* records, each a key of one of the domain's tables
  Values, \* contents of a record
  Change, \* what an update makes of a content
  Absent, \* there is no record under the key
  None    \* not yet called

VARIABLES
  memory,   \* what reads see, or would see once the domain is open again
  promised, \* the acknowledged content of each record
  strays,   \* per record, what unacknowledged writes have left on the medium
  queue,    \* the calls not yet answered, in the order they were made
  asked,    \* what each call asks for
  answer    \* "new", "queued", "done", "rejected" or "lost" with the host

rvars == <<memory, promised, strays, queue, asked, answer>>

Content == Values \cup {Absent}
Image == [Keys -> Content]
Write == [op : {"put", "delete", "update"}, key : Keys, value : Values]

(* What the write w leaves under its key in the image m.                   *)
Written(m, w) ==
  CASE w.op = "put" -> w.value
    [] w.op = "delete" -> Absent
    [] w.op = "update" -> Change[m[w.key]]

(* A delete or an update of nothing writes nothing.                        *)
Void(m, w) == w.op # "put" /\ m[w.key] = Absent

Survives(image) ==
  \A k \in Keys : image[k] \in {promised[k]} \cup strays[k]

RInit ==
  /\ memory \in Image /\ promised = memory
  /\ strays = [k \in Keys |-> {}]
  /\ queue = <<>>
  /\ asked = [c \in Calls |-> None]
  /\ answer = [c \in Calls |-> "new"]

Ask(c, w) ==
  /\ answer[c] = "new"
  /\ asked' = [asked EXCEPT ![c] = w]
  /\ \/ answer' = [answer EXCEPT ![c] = "queued"] /\ queue' = Append(queue, c)
     \/ answer' = [answer EXCEPT ![c] = "rejected"] /\ UNCHANGED queue
  /\ UNCHANGED <<memory, promised, strays>>

Answer(c, how) ==
  /\ queue # <<>> /\ c = Head(queue)
  /\ queue' = Tail(queue)
  /\ answer' = [answer EXCEPT ![c] = how]

(* Nothing to do: a delete succeeds, an update is refused.                 *)
Skip(c) ==
  /\ Answer(c, IF asked[c].op = "delete" THEN "done" ELSE "rejected")
  /\ Void(memory, asked[c])
  /\ UNCHANGED <<memory, promised, strays, asked>>

(* A write reaches the medium before anybody is told of it.                *)
Leave(c) ==
  /\ queue # <<>> /\ c = Head(queue)
  /\ ~Void(memory, asked[c])
  /\ strays' = [strays EXCEPT ![asked[c].key] =
                  @ \cup {Written(memory, asked[c])}]
  /\ UNCHANGED <<memory, promised, queue, asked, answer>>

Commit(c) ==
  /\ Answer(c, "done")
  /\ ~Void(memory, asked[c])
  /\ LET k == asked[c].key IN
     /\ Written(memory, asked[c]) \in strays[k]
     /\ memory' = [memory EXCEPT ![k] = Written(memory, asked[c])]
     /\ promised' = [promised EXCEPT ![k] = Written(memory, asked[c])]
     /\ strays' = [strays EXCEPT ![k] = {}]
  /\ UNCHANGED asked

Reject(c) ==
  /\ Answer(c, "rejected")
  /\ UNCHANGED <<memory, promised, strays, asked>>

Restart ==
  /\ memory' \in {m \in Image : Survives(m)}
  /\ queue' = <<>>
  /\ answer' = [c \in Calls |-> IF answer[c] = "queued" THEN "lost"
                                                        ELSE answer[c]]
  /\ UNCHANGED <<promised, strays, asked>>

RNext ==
  \/ \E c \in Calls, w \in Write : Ask(c, w)
  \/ \E c \in Calls : Skip(c) \/ Leave(c) \/ Commit(c) \/ Reject(c)
  \/ Restart

RSpec == RInit /\ [][RNext]_rvars
==============================================================================
