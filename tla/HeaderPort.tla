----------------------------- MODULE HeaderPort ------------------------------
(***************************************************************************)
(* What an MMAL port promises its client about the buffer headers it is    *)
(* sent: it takes one only while it is enabled, lends none twice, gives    *)
(* every one back, and gives up the client's callback only when it has     *)
(* stopped taking headers and has none left.  A client may free its pool   *)
(* on that promise.                                                        *)
(*                                                                         *)
(* MMALPort is shown to implement it, and so is the port of CameraOutput,  *)
(* which is written for a pipeline with a port of its own.                 *)
(***************************************************************************)

CONSTANT Headers  \* the client's buffer headers

VARIABLES
  accepting,  \* the port takes headers
  calling,    \* the port has the client's callback
  lent        \* the headers it has taken and not given back

vars == <<accepting, calling, lent>>

\* A port without headers, enabled or not
Init ==
  /\ accepting \in BOOLEAN /\ calling \in BOOLEAN /\ lent = {}
  /\ accepting => calling

\* The client hands its callback over; enabling may yet fail.
Open == calling' = TRUE /\ UNCHANGED <<accepting, lent>>

Accept == calling /\ accepting' = TRUE /\ UNCHANGED <<calling, lent>>

\* Headers are refused from here on, and those about come back.
Stop == accepting' = FALSE /\ UNCHANGED <<calling, lent>>

Take(b) ==
  /\ accepting /\ b \notin lent
  /\ lent' = lent \cup {b}
  /\ UNCHANGED <<accepting, calling>>

GiveBack(b) ==
  /\ calling /\ b \in lent
  /\ lent' = lent \ {b}
  /\ UNCHANGED <<accepting, calling>>

Close ==
  /\ ~accepting /\ lent = {}
  /\ calling' = FALSE
  /\ UNCHANGED <<accepting, lent>>

Next ==
  \/ Open \/ Accept \/ Stop \/ Close
  \/ \E b \in Headers : Take(b) \/ GiveBack(b)

Spec == Init /\ [][Next]_vars

=============================================================================
