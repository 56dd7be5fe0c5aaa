---------------------------- MODULE FrameMailbox ----------------------------
(***************************************************************************)
(* What the camera output promises its reader: a mailbox of at most        *)
(* Capacity frames in the order the camera produced them, from which the   *)
(* reader takes the oldest and the camera drops the oldest to make room.   *)
(* CameraOutput is shown to implement it.                                  *)
(***************************************************************************)
EXTENDS Integers, Sequences

CONSTANTS
  Capacity,  \* frames that wait for the reader at most
  MaxStamp   \* frame numbers saturate here

VARIABLES
  box,    \* the numbers of the waiting frames
  last,   \* the number of the last frame taken
  phase   \* "null", "live", "freed"

vars == <<box, last, phase>>

Newer(n, m) == n > m \/ n = MaxStamp

Init == box = <<>> /\ last = 0 /\ phase = "null"

Open == phase = "null" /\ phase' = "live" /\ UNCHANGED <<box, last>>

Put(n) ==
  /\ phase = "live" /\ Len(box) < Capacity
  /\ Newer(n, last) /\ \A i \in DOMAIN box : Newer(n, box[i])
  /\ box' = Append(box, n)
  /\ UNCHANGED <<last, phase>>

DropOldest == phase = "live" /\ box # <<>> /\ box' = Tail(box) /\ UNCHANGED <<last, phase>>

Take ==
  /\ phase = "live" /\ box # <<>>
  /\ last' = Head(box) /\ box' = Tail(box)
  /\ UNCHANGED phase

Close == phase = "live" /\ phase' = "freed" /\ box' = <<>> /\ UNCHANGED last

Next ==
  \/ Open \/ DropOldest \/ Take \/ Close
  \/ \E n \in 0..MaxStamp : Put(n)

Spec == Init /\ [][Next]_vars

=============================================================================
