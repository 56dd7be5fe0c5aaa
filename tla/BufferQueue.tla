----------------------------- MODULE BufferQueue -----------------------------
(***************************************************************************)
(* What an MMAL queue promises its users, operation by operation: buffer   *)
(* headers leave in the order of the list, a header that is put comes out  *)
(* once, and mmal_queue_get comes back with nothing only when every header *)
(* in the list is already promised to another caller.  MMALQueue is shown  *)
(* to implement it.                                                        *)
(***************************************************************************)
EXTENDS Integers, Sequences, FiniteSets

CONSTANTS
  Threads,  \* the callers
  Buffers,  \* the buffer headers
  None,     \* no buffer header
  Backs     \* the headers that may be put in front of the others

VARIABLES
  list,      \* the headers in the queue, first to leave first
  promised,  \* the callers whose get will return a header
  got        \* what the last get of each caller returned

vars == <<list, promised, got>>

Init == list = <<>> /\ promised = {} /\ got = [t \in Threads |-> None]

Put(b) ==
  /\ \A i \in DOMAIN list : list[i] # b
  /\ list' = Append(list, b) \/ (b \in Backs /\ list' = <<b>> \o list)
  /\ UNCHANGED <<promised, got>>

Promise(t) ==
  /\ t \notin promised /\ Cardinality(promised) < Len(list)
  /\ promised' = promised \cup {t}
  /\ UNCHANGED <<list, got>>

Take(t) ==
  /\ t \in promised
  /\ list' = Tail(list) /\ got' = [got EXCEPT ![t] = Head(list)]
  /\ promised' = promised \ {t}

Fail(t) ==
  /\ t \notin promised /\ Cardinality(promised) = Len(list)
  /\ got' = [got EXCEPT ![t] = None]
  /\ UNCHANGED <<list, promised>>

Next ==
  \/ \E b \in Buffers : Put(b)
  \/ \E t \in Threads : Promise(t) \/ Take(t) \/ Fail(t)

Spec == Init /\ [][Next]_vars

=============================================================================
