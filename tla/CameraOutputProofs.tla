-------------------------- MODULE CameraOutputProofs --------------------------
(***************************************************************************)
(* Theorems about CameraOutput for every set of buffer and event headers   *)
(* and every bound: type correctness and the bound on the headers that     *)
(* wait for the reader; every header in one place, none stranded and the   *)
(* pool whole when it is freed; the count of the headers in transit, and   *)
(* headers enough for a reader; frames read in the order of their          *)
(* production; and the pipeline an implementation of FrameMailbox, and of  *)
(* HeaderPort at its other end.                                            *)
(***************************************************************************)
EXTENDS CameraOutput, SequenceFacts

\* A thread holds a header exactly where its code uses one.
InHand ==
  \A t \in Threads :
    /\ pc[t] \in InCallback => cur[t] \in Buffers
    /\ pc[t] = "release" => hand[t] \in Buffers
    /\ pc[t] = "send" => hand[t] \in Frames

\* Outside a callback a thread has no callback's header.
Between ==
  \A t \in Threads : pc[t] \in AppOnly \cup {"idle", "loop"} => cur[t] = None

\* A callback runs under action_mutex.
LockHeld ==
  \A t \in Threads :
    cur[t] # None \/ pc[t] \in {"loop", "disableVC", "drain"} => actLock = t

\* A callback that has displaced a header, or has seen no need to, has room
\* for its own: only the reader touches OutputQueue meanwhile, and takes.
Room ==
  \A t \in Threads :
    cur[t] # None /\ pc[t] \in {"release", "put"} \cup Resending => Len(outQ) <= 1

IInv == TypeOK /\ InHand /\ Between /\ LockHeld /\ Room /\ OutputBound

\* Where a header can be: a place for each queue, for the device and for what the
\* threads hold.
Spots ==
  {<<k, None>> : k \in {"poolQ", "evPool", "gpu", "cbQ", "outQ", "locked", "lost"}} \cup
  ({"cur", "hand"} \X Threads)

In(b, p) ==
  \/ p[1] = "poolQ" /\ b \in Range(poolQ)
  \/ p[1] = "evPool" /\ b \in evPool
  \/ p[1] = "gpu" /\ b \in gpu
  \/ p[1] = "cbQ" /\ b \in Range(cbQ)
  \/ p[1] = "outQ" /\ b \in Range(outQ)
  \/ p[1] = "locked" /\ b = locked
  \/ p[1] = "lost" /\ b \in lost
  \/ p[1] = "cur" /\ b = cur[p[2]] /\ pc[p[2]] # "return"
  \/ p[1] = "hand" /\ b = hand[p[2]]

Placed == \A b \in Buffers : \E p \in Spots : \A q \in Spots : In(b, q) <=> q = p

NoRepeats == OnceIn(poolQ, Buffers) /\ OnceIn(cbQ, Buffers) /\ OnceIn(outQ, Buffers)

\* A thread holds no header between two uses.
HandEmpty == \A t \in Threads : pc[t] \notin {"release", "send"} => hand[t] = None

\* Where the two threads can be
Roles ==
  /\ pc["app"] \notin {"idle", "loop"} /\ pc["action"] \notin AppOnly \cup {"ready"}
  /\ \A t \in Threads : pc[t] \in Resending => cur[t] # None \/ t = "app"

\* The port is disabled from mmal_port_disable on, the callbacks that the
\* application's thread then runs itself included.
Draining == pc["app"] = "drain" \/ cur["app"] # None
Closed   == pc["app"] \in {"wait", "poolFree", "closed"}

Closing ==
  /\ enabled <=> ~(pc["app"] \in {"lock", "disableVC"} \/ Draining \/ Closed)
  /\ Draining => actLock = "app"
  /\ Draining \/ Closed => gpu = {}
  /\ Closed => cbQ = <<>> /\ pc["action"] = "idle"
  /\ pc["app"] \in {"poolFree", "closed"} => transit = 0

\* Nothing happens before the capture begins.
Opening ==
  /\ pc["app"] \in {"fill", "queue", "capture"} =>
       ~capturing /\ cbQ = <<>> /\ pc["action"] = "idle"
  /\ pc["app"] \in {"queue", "capture"} => poolQ = <<>>

Recycling == {t \in Threads : pc[t] \in {"enabled", "get"}}

PlaceInv == Placed /\ NoRepeats /\ HandEmpty
StageInv == Roles /\ Closing /\ Opening

\* Without events there is a pool header for every thread about to take one.
Supplied == Events = {} => Len(poolQ) >= Cardinality(Recycling)

\* action_mutex belongs to a thread that runs callbacks, or is about to.
LockOwner ==
  /\ actLock = "action" => pc["action"] # "idle"
  /\ actLock = "app" => pc["app"] \in {"disableVC", "drain"} \/ cur["app"] # None

Balanced ==
  /\ enabled /\ capturing => Len(poolQ) <= Cardinality(Recycling)
  /\ Supplied

InCall == {t \in Threads : cur[t] \in Frames}

\* Whether frame number n is later than m, as far as the numbers can tell
Newer(n, m) == n > m \/ n = MaxStamp

Ascending(s) == \A i, j \in DOMAIN s : i < j => Newer(stamp[s[j]], stamp[s[i]])
After(s, n) == \A i \in DOMAIN s : Newer(stamp[s[i]], n)
Before(s, n) == \A i \in DOMAIN s : Newer(n, stamp[s[i]])

\* OutputQueue lives from its creation to Release, and the application's thread
\* runs no callback meanwhile.
QueueStage ==
  /\ outQState = "live" <=> \/ pc["app"] \in {"capture", "ready"}
                            \/ pc["app"] \in Resending /\ cur["app"] = None
  /\ pc["app"] \in {"fill", "queue"} => outQState = "null"
  /\ outQState = "null" => outQ = <<>>

\* VideoCore numbers what it produces upwards.
Numbered == lastRead <= clock /\ \A b \in Buffers : stamp[b] <= clock

\* The header whose callback the action thread runs, until it has put it
Current == cur["action"] # None /\ pc["action"] # "return"

\* What was read, what waits for the reader, the callback's header and what waits
\* for a callback are in the order in which VideoCore produced them.
Lined ==
  outQState = "live" =>
    /\ Ascending(outQ) /\ Ascending(cbQ) /\ After(outQ, lastRead) /\ After(cbQ, lastRead)
    /\ \A i \in DOMAIN outQ : After(cbQ, stamp[outQ[i]])
    /\ Current => LET n == stamp[cur["action"]]
                  IN  Newer(n, lastRead) /\ Before(outQ, n) /\ After(cbQ, n)

\* A step takes header b to place q, and no other header anywhere.
Moved(b, q) ==
  \A x \in Buffers : \A r \in Spots : In(x, r)' <=> IF x = b THEN r = q ELSE In(x, r)

Stayed == \A x \in Buffers : \A r \in Spots : In(x, r)' <=> In(x, r)

Spot(k) == <<k, None>>

\* A step that changes neither a place nor whether a callback still owns its header
Quiet ==
  /\ UNCHANGED <<poolQ, evPool, gpu, cbQ, outQ, cur, hand, locked, lost>>
  /\ \A t \in Threads :
       \/ pc'[t] = pc[t]
       \/ {pc[t], pc'[t]} \cap {"release", "send", "return"} = {}

-----------------------------------------------------------------------------
(* Queues: what taking from one and appending to one does.                  *)

LEMMA TakeFirst ==
  ASSUME NEW S, NEW q \in Seq(S), q # <<>>
  PROVE  Head(q) \in S /\ Tail(q) \in Seq(S) /\ Len(Tail(q)) = Len(q) - 1
  OBVIOUS

LEMMA PutLast ==
  ASSUME NEW S, NEW q \in Seq(S), NEW e \in S
  PROVE  Append(q, e) \in Seq(S) /\ Len(Append(q, e)) = Len(q) + 1
  OBVIOUS

-----------------------------------------------------------------------------
(* The initial states.                                                      *)

LEMMA InitIInv == Init => IInv
<1> SUFFICES ASSUME Init PROVE IInv
  OBVIOUS
<1> USE BufferAssumption, BoundAssumption
<1>1. Cardinality(Frames) \in Nat
  BY FS_CardinalityType
<1>2. BufferTypes
  BY <1>1, SMT DEF Init, BufferTypes
<1>3. ThreadTypes
  BY DEF Init, ThreadTypes, Threads, Labels, AppOnly
<1>4. NumberTypes
  BY SMT DEF Init, NumberTypes
<1>5. FlagTypes
  BY Zenon DEF Init, FlagTypes
<1>6. InHand /\ Between /\ LockHeld /\ Room /\ OutputBound
  BY DEF Init, InHand, Between, LockHeld, Room, OutputBound, Threads,
         InCallback, AppOnly, Disabling, Resending
<1> QED
  BY <1>2, <1>3, <1>4, <1>5, <1>6 DEF IInv, TypeOK


LEMMA CheckLengthIInv ==
  ASSUME IInv, NEW t \in Threads, CheckLength(t) PROVE IInv'
<1> USE BufferAssumption, BoundAssumption
<1> USE DEF CheckLength, OutputLimit, At, Goto, queues, port, threads, context, numbers, faults
<1>1. (BufferTypes /\ ThreadTypes /\ NumberTypes)'
  BY DEF IInv, TypeOK, BufferTypes, ThreadTypes, NumberTypes, InHand,
     Buffers, NextStamp, Threads, Labels, InCallback, AppOnly, Disabling, Resending
<1>2. FlagTypes'
  BY Zenon DEF IInv, TypeOK, FlagTypes
<1>3. (InHand /\ Between /\ LockHeld)'
  BY DEF IInv, TypeOK, ThreadTypes, BufferTypes, InHand, Between, LockHeld, Buffers, Threads,
     InCallback, AppOnly, Disabling, Resending
<1>4. (Room /\ OutputBound)'
  BY DEF IInv, TypeOK, ThreadTypes, BufferTypes, InHand, Between, LockHeld, Room,
     OutputBound, Threads, InCallback, AppOnly, Disabling, Resending
<1> QED
  BY <1>1, <1>2, <1>3, <1>4 DEF IInv, TypeOK

LEMMA DeliverFrameIInv ==
  ASSUME IInv, NEW b \in Frames, DeliverFrame(b) PROVE IInv'
<1> USE BufferAssumption, BoundAssumption
<1> USE DEF DeliverFrame, At, Goto, queues, port, threads, context, numbers, faults
<1>1. (BufferTypes /\ ThreadTypes /\ NumberTypes)'
  BY PutLast DEF IInv, TypeOK, BufferTypes, ThreadTypes, NumberTypes, InHand,
     Buffers, NextStamp, Threads, Labels, InCallback, AppOnly, Disabling, Resending
<1>2. FlagTypes'
  BY Zenon DEF IInv, TypeOK, FlagTypes
<1>3. (InHand /\ Between /\ LockHeld)'
  BY PutLast DEF IInv, TypeOK, ThreadTypes, BufferTypes, InHand, Between, LockHeld, Buffers,
      Threads,
     InCallback, AppOnly, Disabling, Resending
<1>4. (Room /\ OutputBound)'
  BY PutLast DEF IInv, TypeOK, ThreadTypes, BufferTypes, InHand, Between, LockHeld, Room,
     OutputBound, Threads, InCallback, AppOnly, Disabling, Resending
<1> QED
  BY <1>1, <1>2, <1>3, <1>4 DEF IInv, TypeOK

LEMMA DeliverEventIInv ==
  ASSUME IInv, NEW e \in Events, DeliverEvent(e) PROVE IInv'
<1> USE BufferAssumption, BoundAssumption
<1> USE DEF DeliverEvent, At, Goto, queues, port, threads, context, numbers, faults
<1>1. (BufferTypes /\ ThreadTypes /\ NumberTypes)'
  BY PutLast DEF IInv, TypeOK, BufferTypes, ThreadTypes, NumberTypes, InHand,
     Buffers, NextStamp, Threads, Labels, InCallback, AppOnly, Disabling, Resending
<1>2. FlagTypes'
  BY Zenon DEF IInv, TypeOK, FlagTypes
<1>3. (InHand /\ Between /\ LockHeld)'
  BY PutLast DEF IInv, TypeOK, ThreadTypes, BufferTypes, InHand, Between, LockHeld, Buffers,
      Threads,
     InCallback, AppOnly, Disabling, Resending
<1>4. (Room /\ OutputBound)'
  BY PutLast DEF IInv, TypeOK, ThreadTypes, BufferTypes, InHand, Between, LockHeld, Room,
     OutputBound, Threads, InCallback, AppOnly, Disabling, Resending
<1> QED
  BY <1>1, <1>2, <1>3, <1>4 DEF IInv, TypeOK

LEMMA ReturnUnfilledIInv ==
  ASSUME IInv, NEW b \in Frames, ReturnUnfilled(b) PROVE IInv'
<1> USE BufferAssumption, BoundAssumption
<1> USE DEF ReturnUnfilled, At, Goto, queues, port, threads, context, numbers, faults
<1>1. (BufferTypes /\ ThreadTypes /\ NumberTypes)'
  BY PutLast DEF IInv, TypeOK, BufferTypes, ThreadTypes, NumberTypes, InHand,
     Buffers, NextStamp, Threads, Labels, InCallback, AppOnly, Disabling, Resending
<1>2. FlagTypes'
  BY Zenon DEF IInv, TypeOK, FlagTypes
<1>3. (InHand /\ Between /\ LockHeld)'
  BY PutLast DEF IInv, TypeOK, ThreadTypes, BufferTypes, InHand, Between, LockHeld, Buffers,
      Threads,
     InCallback, AppOnly, Disabling, Resending
<1>4. (Room /\ OutputBound)'
  BY PutLast DEF IInv, TypeOK, ThreadTypes, BufferTypes, InHand, Between, LockHeld, Room,
     OutputBound, Threads, InCallback, AppOnly, Disabling, Resending
<1> QED
  BY <1>1, <1>2, <1>3, <1>4 DEF IInv, TypeOK

LEMMA DisplaceIInv ==
  ASSUME IInv, NEW t \in Threads, Displace(t) PROVE IInv'
<1> USE BufferAssumption, BoundAssumption
<1> USE DEF Displace, AfterMiss, At, Goto, queues, port, threads, context, numbers, faults
<1>1. (BufferTypes /\ ThreadTypes /\ NumberTypes)'
  <2>1. BufferTypes'
    <3>1. CASE outQ = <<>>
      BY <3>1 DEF IInv, TypeOK, BufferTypes
    <3>2. CASE outQ # <<>>
      <4>1. outQ \in Seq(Buffers)
        BY DEF IInv, TypeOK, BufferTypes
      <4>2. Tail(outQ) \in Seq(Buffers)
        BY <3>2, <4>1, TakeFirst
      <4> QED
        BY <3>2, <4>2 DEF IInv, TypeOK, BufferTypes
    <3> QED
      BY <3>1, <3>2
  <2>2. ThreadTypes'
    BY DEF IInv, TypeOK, BufferTypes, ThreadTypes, InHand, Buffers, Threads, Labels, InCallback,
        AppOnly, Disabling, Resending
  <2>3. NumberTypes'
    BY DEF IInv, TypeOK, BufferTypes, NumberTypes
  <2> QED
    BY <2>1, <2>2, <2>3
<1>2. FlagTypes'
  BY Zenon DEF IInv, TypeOK, FlagTypes
<1>3. (InHand /\ Between /\ LockHeld)'
  BY TakeFirst DEF IInv, TypeOK, ThreadTypes, BufferTypes, InHand, Between, LockHeld, Buffers,
      Threads,
     InCallback, AppOnly, Disabling, Resending
<1>4. (Room /\ OutputBound)'
  BY TakeFirst DEF IInv, TypeOK, ThreadTypes, BufferTypes, InHand, Between, LockHeld, Room,
     OutputBound, Threads, InCallback, AppOnly, Disabling, Resending
<1> QED
  BY <1>1, <1>2, <1>3, <1>4 DEF IInv, TypeOK

LEMMA ReleaseExistingIInv ==
  ASSUME IInv, NEW t \in Threads, ReleaseExisting(t) PROVE IInv'
<1> USE BufferAssumption, BoundAssumption
<1> USE DEF ReleaseExisting, Release, At, Goto, queues, port, threads, context, numbers, faults
<1>1. (BufferTypes /\ ThreadTypes /\ NumberTypes)'
  <2>1. BufferTypes'
    <3>1. hand[t] \in Buffers
      BY DEF IInv, TypeOK, BufferTypes, ThreadTypes, InHand, InCallback, Buffers
    <3>2. poolQ \in Seq(Frames) /\ evPool \subseteq Events
      BY DEF IInv, TypeOK, BufferTypes
    <3>3. poolQ' \in Seq(Frames) /\ evPool' \subseteq Events
      <4>1. CASE hand[t] \in Frames
        BY <3>2, <4>1, PutLast
      <4>2. CASE hand[t] \notin Frames
        BY <3>1, <3>2, <4>2 DEF Buffers
      <4> QED
        BY <4>1, <4>2
    <3> QED
      BY <3>1, <3>3 DEF IInv, TypeOK, BufferTypes
  <2>2. ThreadTypes'
    BY DEF IInv, TypeOK, BufferTypes, ThreadTypes, InHand, Buffers, Threads, Labels, InCallback,
        AppOnly, Disabling, Resending
  <2>3. NumberTypes'
    BY DEF IInv, TypeOK, BufferTypes, NumberTypes
  <2> QED
    BY <2>1, <2>2, <2>3
<1>2. FlagTypes'
  BY Zenon DEF IInv, TypeOK, FlagTypes
<1>3. (InHand /\ Between /\ LockHeld)'
  BY PutLast DEF IInv, TypeOK, ThreadTypes, BufferTypes, InHand, Between, LockHeld, Buffers,
      Threads,
     InCallback, AppOnly, Disabling, Resending
<1>4. (Room /\ OutputBound)'
  BY PutLast DEF IInv, TypeOK, ThreadTypes, BufferTypes, InHand, Between, LockHeld, Room,
     OutputBound, Threads, InCallback, AppOnly, Disabling, Resending
<1> QED
  BY <1>1, <1>2, <1>3, <1>4 DEF IInv, TypeOK

LEMMA CheckEnabledIInv ==
  ASSUME IInv, NEW t \in Threads, CheckEnabled(t) PROVE IInv'
<1> USE BufferAssumption, BoundAssumption
<1> USE DEF CheckEnabled, PortOpen, Resume, At, Goto, queues, port, threads, context, numbers,
      faults
<1>1. (BufferTypes /\ ThreadTypes /\ NumberTypes)'
  BY DEF IInv, TypeOK, BufferTypes, ThreadTypes, NumberTypes, InHand,
     Buffers, NextStamp, Threads, Labels, InCallback, AppOnly, Disabling, Resending
<1>2. FlagTypes'
  BY Zenon DEF IInv, TypeOK, FlagTypes
<1>3. (InHand /\ Between /\ LockHeld)'
  BY DEF IInv, TypeOK, ThreadTypes, BufferTypes, InHand, Between, LockHeld, Buffers, Threads,
     InCallback, AppOnly, Disabling, Resending
<1>4. (Room /\ OutputBound)'
  BY DEF IInv, TypeOK, ThreadTypes, BufferTypes, InHand, Between, LockHeld, Room,
     OutputBound, Threads, InCallback, AppOnly, Disabling, Resending
<1> QED
  BY <1>1, <1>2, <1>3, <1>4 DEF IInv, TypeOK

LEMMA GetNewIInv ==
  ASSUME IInv, NEW t \in Threads, GetNew(t) PROVE IInv'
<1> USE BufferAssumption, BoundAssumption
<1> USE DEF GetNew, Resume, At, Goto, queues, port, threads, context, numbers, faults
<1>1. (BufferTypes /\ ThreadTypes /\ NumberTypes)'
  <2>1. BufferTypes'
    <3>1. CASE poolQ = <<>>
      BY <3>1 DEF IInv, TypeOK, BufferTypes
    <3>2. CASE poolQ # <<>>
      <4>1. poolQ \in Seq(Frames)
        BY DEF IInv, TypeOK, BufferTypes
      <4>2. Tail(poolQ) \in Seq(Frames)
        BY <3>2, <4>1, TakeFirst
      <4> QED
        BY <3>2, <4>2 DEF IInv, TypeOK, BufferTypes
    <3> QED
      BY <3>1, <3>2
  <2>2. ThreadTypes'
    <3>1. poolQ \in Seq(Frames)
      BY DEF IInv, TypeOK, BufferTypes
    <3>2. poolQ # <<>> => Head(poolQ) \in Buffers
      BY <3>1, TakeFirst DEF Buffers
    <3> QED
      BY <3>2 DEF IInv, TypeOK, ThreadTypes, Threads, Labels, InCallback, AppOnly, Resending
  <2>3. NumberTypes'
    BY DEF IInv, TypeOK, BufferTypes, NumberTypes
  <2> QED
    BY <2>1, <2>2, <2>3
<1>2. FlagTypes'
  BY Zenon DEF IInv, TypeOK, FlagTypes
<1>3. (InHand /\ Between /\ LockHeld)'
  BY TakeFirst DEF IInv, TypeOK, ThreadTypes, BufferTypes, InHand, Between, LockHeld, Buffers,
      Threads,
     InCallback, AppOnly, Disabling, Resending
<1>4. (Room /\ OutputBound)'
  BY TakeFirst DEF IInv, TypeOK, ThreadTypes, BufferTypes, InHand, Between, LockHeld, Room,
     OutputBound, Threads, InCallback, AppOnly, Disabling, Resending
<1> QED
  BY <1>1, <1>2, <1>3, <1>4 DEF IInv, TypeOK

LEMMA SendNewIInv ==
  ASSUME IInv, NEW t \in Threads, SendNew(t) PROVE IInv'
<1> USE BufferAssumption, BoundAssumption
<1> USE DEF SendNew, SendOK, SendRefused, Resume, At, Goto, queues, port, threads, context,
      numbers, faults
<1>1. (BufferTypes /\ ThreadTypes /\ NumberTypes)'
  <2>1. hand[t] \in Frames
    BY DEF IInv, InHand
  <2>2. BufferTypes'
    BY <2>1 DEF IInv, TypeOK, BufferTypes, Buffers
  <2>3. ThreadTypes'
    <3>1. UNCHANGED cur /\ hand' = [hand EXCEPT ![t] = None]
          /\ (pc' = [pc EXCEPT ![t] = "put"] \/ pc' = [pc EXCEPT ![t] = "ready"])
          /\ UNCHANGED <<outQState, actLock>>
      OBVIOUS
    <3> QED
      BY <3>1 DEF IInv, TypeOK, ThreadTypes, Labels, InCallback, AppOnly
  <2>4. NumberTypes'
    BY DEF IInv, TypeOK, NumberTypes
  <2> QED
    BY <2>2, <2>3, <2>4
<1>2. FlagTypes'
  BY Zenon DEF IInv, TypeOK, FlagTypes
<1>3. (InHand /\ Between /\ LockHeld)'
  BY DEF IInv, TypeOK, ThreadTypes, BufferTypes, InHand, Between, LockHeld, Buffers, Threads,
     InCallback, AppOnly, Disabling, Resending
<1>4. (Room /\ OutputBound)'
  BY DEF IInv, TypeOK, ThreadTypes, BufferTypes, InHand, Between, LockHeld, Room,
     OutputBound, Threads, InCallback, AppOnly, Disabling, Resending
<1> QED
  BY <1>1, <1>2, <1>3, <1>4 DEF IInv, TypeOK

LEMMA PutOutputIInv ==
  ASSUME IInv, NEW t \in Threads, PutOutput(t) PROVE IInv'
<1> USE BufferAssumption, BoundAssumption
<1> USE DEF PutOutput, Queued, At, Goto, queues, port, threads, context, numbers, faults
<1>1. (BufferTypes /\ ThreadTypes /\ NumberTypes)'
  <2>1. BufferTypes'
    <3>1. cur[t] \in Buffers /\ outQ \in Seq(Buffers)
      BY DEF IInv, TypeOK, BufferTypes, InHand, InCallback
    <3>2. Append(outQ, cur[t]) \in Seq(Buffers)
      BY <3>1, PutLast
    <3> QED
      BY <3>1, <3>2 DEF IInv, TypeOK, BufferTypes
  <2>2. ThreadTypes'
    BY DEF IInv, TypeOK, BufferTypes, ThreadTypes, InHand, Buffers, Threads, Labels, InCallback,
        AppOnly, Disabling, Resending
  <2>3. NumberTypes'
    BY DEF IInv, TypeOK, BufferTypes, NumberTypes
  <2> QED
    BY <2>1, <2>2, <2>3
<1>2. FlagTypes'
  BY Zenon DEF IInv, TypeOK, FlagTypes
<1>3. (InHand /\ Between /\ LockHeld)'
  BY PutLast DEF IInv, TypeOK, ThreadTypes, BufferTypes, InHand, Between, LockHeld, Buffers,
      Threads,
     InCallback, AppOnly, Disabling, Resending
<1>4. (Room /\ OutputBound)'
  <2>1. actLock = t /\ Len(outQ) <= 1 /\ cur[t] # None
    BY DEF IInv, InHand, LockHeld, Room, InCallback, Buffers
  <2>2. Len(outQ') <= 2 /\ Len(outQ') \in Nat
    BY <2>1, PutLast DEF IInv, TypeOK, BufferTypes, InHand, InCallback
  <2>3. \A u \in Threads : u # t => cur[u] = None
    BY <2>1 DEF IInv, LockHeld, Threads, TypeOK, ThreadTypes
  <2>4. Room'
    BY <2>3 DEF IInv, TypeOK, ThreadTypes, Room, Resending, Threads
  <2> QED
    BY <2>2, <2>4 DEF OutputBound
<1> QED
  BY <1>1, <1>2, <1>3, <1>4 DEF IInv, TypeOK

LEMMA ReturnFromCallbackIInv ==
  ASSUME IInv, NEW t \in Threads, ReturnFromCallback(t) PROVE IInv'
<1> USE BufferAssumption, BoundAssumption
<1> USE DEF ReturnFromCallback, Counted, At, Goto, queues, port, threads, context, numbers, faults
<1>1. (BufferTypes /\ ThreadTypes /\ NumberTypes)'
  BY DEF IInv, TypeOK, BufferTypes, ThreadTypes, NumberTypes, InHand,
     Buffers, NextStamp, Threads, Labels, InCallback, AppOnly, Disabling, Resending
<1>2. FlagTypes'
  BY Zenon DEF IInv, TypeOK, FlagTypes
<1>3. (InHand /\ Between /\ LockHeld)'
  BY DEF IInv, TypeOK, ThreadTypes, BufferTypes, InHand, Between, LockHeld, Buffers, Threads,
     InCallback, AppOnly, Disabling, Resending
<1>4. (Room /\ OutputBound)'
  BY DEF IInv, TypeOK, ThreadTypes, BufferTypes, InHand, Between, LockHeld, Room,
     OutputBound, Threads, InCallback, AppOnly, Disabling, Resending
<1> QED
  BY <1>1, <1>2, <1>3, <1>4 DEF IInv, TypeOK

LEMMA FaultOnFreedQueueIInv ==
  ASSUME IInv, NEW t \in Threads, FaultOnFreedQueue(t) PROVE IInv'
<1> USE BufferAssumption, BoundAssumption
<1> USE DEF FaultOnFreedQueue, At, Goto, queues, port, threads, context, numbers, faults
<1>1. (BufferTypes /\ ThreadTypes /\ NumberTypes)'
  BY DEF IInv, TypeOK, BufferTypes, ThreadTypes, NumberTypes, InHand,
     Buffers, NextStamp, Threads, Labels, InCallback, AppOnly, Disabling, Resending
<1>2. FlagTypes'
  BY Zenon DEF IInv, TypeOK, FlagTypes
<1>3. (InHand /\ Between /\ LockHeld)'
  BY DEF IInv, TypeOK, ThreadTypes, BufferTypes, InHand, Between, LockHeld, Buffers, Threads,
     InCallback, AppOnly, Disabling, Resending
<1>4. (Room /\ OutputBound)'
  BY DEF IInv, TypeOK, ThreadTypes, BufferTypes, InHand, Between, LockHeld, Room,
     OutputBound, Threads, InCallback, AppOnly, Disabling, Resending
<1> QED
  BY <1>1, <1>2, <1>3, <1>4 DEF IInv, TypeOK

LEMMA ActionTakeIInv ==
  ASSUME IInv, ActionTake PROVE IInv'
<1> USE BufferAssumption, BoundAssumption
<1> USE DEF ActionTake, TakeCallback, At, Goto, queues, port, threads, context, numbers, faults
<1>1. (BufferTypes /\ ThreadTypes /\ NumberTypes)'
  BY TakeFirst DEF IInv, TypeOK, BufferTypes, ThreadTypes, NumberTypes, InHand,
     Buffers, NextStamp, Threads, Labels, InCallback, AppOnly, Disabling, Resending
<1>2. FlagTypes'
  BY Zenon DEF IInv, TypeOK, FlagTypes
<1>3. (InHand /\ Between /\ LockHeld)'
  BY TakeFirst DEF IInv, TypeOK, ThreadTypes, BufferTypes, InHand, Between, LockHeld, Buffers,
      Threads,
     InCallback, AppOnly, Disabling, Resending
<1>4. (Room /\ OutputBound)'
  BY TakeFirst DEF IInv, TypeOK, ThreadTypes, BufferTypes, InHand, Between, LockHeld, Room,
     OutputBound, Threads, InCallback, AppOnly, Disabling, Resending
<1> QED
  BY <1>1, <1>2, <1>3, <1>4 DEF IInv, TypeOK

LEMMA DrainTakeIInv ==
  ASSUME IInv, DrainTake PROVE IInv'
<1> USE BufferAssumption, BoundAssumption
<1> USE DEF DrainTake, TakeCallback, At, Goto, queues, port, threads, context, numbers, faults
<1>1. (BufferTypes /\ ThreadTypes /\ NumberTypes)'
  BY TakeFirst DEF IInv, TypeOK, BufferTypes, ThreadTypes, NumberTypes, InHand,
     Buffers, NextStamp, Threads, Labels, InCallback, AppOnly, Disabling, Resending
<1>2. FlagTypes'
  BY Zenon DEF IInv, TypeOK, FlagTypes
<1>3. (InHand /\ Between /\ LockHeld)'
  BY TakeFirst DEF IInv, TypeOK, ThreadTypes, BufferTypes, InHand, Between, LockHeld, Buffers,
      Threads,
     InCallback, AppOnly, Disabling, Resending
<1>4. (Room /\ OutputBound)'
  BY TakeFirst DEF IInv, TypeOK, ThreadTypes, BufferTypes, InHand, Between, LockHeld, Room,
     OutputBound, Threads, InCallback, AppOnly, Disabling, Resending
<1> QED
  BY <1>1, <1>2, <1>3, <1>4 DEF IInv, TypeOK

LEMMA FillPortIInv ==
  ASSUME IInv, FillPort PROVE IInv'
<1> USE BufferAssumption, BoundAssumption
<1> USE DEF FillPort, SendOK, SendRefused, At, Goto, queues, port, threads, context, numbers,
      faults
<1>1. (BufferTypes /\ ThreadTypes /\ NumberTypes)'
  <2>1. BufferTypes'
    <3>1. poolQ \in Seq(Frames)
      BY DEF IInv, TypeOK, BufferTypes
    <3>2. Tail(poolQ) \in Seq(Frames) /\ Head(poolQ) \in Frames
      BY <3>1, TakeFirst
    <3> QED
      BY <3>2 DEF IInv, TypeOK, BufferTypes, Buffers
  <2>2. ThreadTypes'
    BY DEF IInv, TypeOK, BufferTypes, ThreadTypes, InHand, Buffers, Threads, Labels, InCallback,
        AppOnly, Disabling, Resending
  <2>3. NumberTypes'
    BY DEF IInv, TypeOK, BufferTypes, NumberTypes
  <2> QED
    BY <2>1, <2>2, <2>3
<1>2. FlagTypes'
  BY Zenon DEF IInv, TypeOK, FlagTypes
<1>3. (InHand /\ Between /\ LockHeld)'
  BY TakeFirst DEF IInv, TypeOK, ThreadTypes, BufferTypes, InHand, Between, LockHeld, Buffers,
      Threads,
     InCallback, AppOnly, Disabling, Resending
<1>4. (Room /\ OutputBound)'
  BY TakeFirst DEF IInv, TypeOK, ThreadTypes, BufferTypes, InHand, Between, LockHeld, Room,
     OutputBound, Threads, InCallback, AppOnly, Disabling, Resending
<1> QED
  BY <1>1, <1>2, <1>3, <1>4 DEF IInv, TypeOK

LEMMA BeginReadFrameIInv ==
  ASSUME IInv, BeginReadFrame PROVE IInv'
<1> USE BufferAssumption, BoundAssumption
<1> USE DEF BeginReadFrame, At, Goto, queues, port, threads, context, numbers, faults
<1>1. (BufferTypes /\ ThreadTypes /\ NumberTypes)'
  BY TakeFirst DEF IInv, TypeOK, BufferTypes, ThreadTypes, NumberTypes, InHand,
     Buffers, NextStamp, Threads, Labels, InCallback, AppOnly, Disabling, Resending
<1>2. FlagTypes'
  BY Zenon DEF IInv, TypeOK, FlagTypes
<1>3. (InHand /\ Between /\ LockHeld)'
  BY TakeFirst DEF IInv, TypeOK, ThreadTypes, BufferTypes, InHand, Between, LockHeld, Buffers,
      Threads,
     InCallback, AppOnly, Disabling, Resending
<1>4. (Room /\ OutputBound)'
  BY TakeFirst DEF IInv, TypeOK, ThreadTypes, BufferTypes, InHand, Between, LockHeld, Room,
     OutputBound, Threads, InCallback, AppOnly, Disabling, Resending
<1> QED
  BY <1>1, <1>2, <1>3, <1>4 DEF IInv, TypeOK

LEMMA EndReadFrameIInv ==
  ASSUME IInv, EndReadFrame PROVE IInv'
<1> USE BufferAssumption, BoundAssumption
<1> USE DEF EndReadFrame, Release, Unlock, At, Goto, queues, port, threads, context, numbers,
      faults
<1>1. (BufferTypes /\ ThreadTypes /\ NumberTypes)'
  <2>1. BufferTypes'
    <3>1. locked \in Buffers
      BY DEF IInv, TypeOK, BufferTypes, ThreadTypes, InHand, InCallback, Buffers
    <3>2. poolQ \in Seq(Frames) /\ evPool \subseteq Events
      BY DEF IInv, TypeOK, BufferTypes
    <3>3. poolQ' \in Seq(Frames) /\ evPool' \subseteq Events
      <4>1. CASE locked \in Frames
        BY <3>2, <4>1, PutLast
      <4>2. CASE locked \notin Frames
        BY <3>1, <3>2, <4>2 DEF Buffers
      <4> QED
        BY <4>1, <4>2
    <3> QED
      BY <3>1, <3>3 DEF IInv, TypeOK, BufferTypes
  <2>2. ThreadTypes'
    BY DEF IInv, TypeOK, BufferTypes, ThreadTypes, InHand, Buffers, Threads, Labels, InCallback,
        AppOnly, Disabling, Resending
  <2>3. NumberTypes'
    BY DEF IInv, TypeOK, BufferTypes, NumberTypes
  <2> QED
    BY <2>1, <2>2, <2>3
<1>2. FlagTypes'
  BY Zenon DEF IInv, TypeOK, FlagTypes
<1>3. (InHand /\ Between /\ LockHeld)'
  BY PutLast DEF IInv, TypeOK, ThreadTypes, BufferTypes, InHand, Between, LockHeld, Buffers,
      Threads,
     InCallback, AppOnly, Disabling, Resending
<1>4. (Room /\ OutputBound)'
  BY PutLast DEF IInv, TypeOK, ThreadTypes, BufferTypes, InHand, Between, LockHeld, Room,
     OutputBound, Threads, InCallback, AppOnly, Disabling, Resending
<1> QED
  BY <1>1, <1>2, <1>3, <1>4 DEF IInv, TypeOK

LEMMA OutputQueueFailsIInv ==
  ASSUME IInv, OutputQueueFails PROVE IInv'
<1> USE BufferAssumption, BoundAssumption
<1> USE DEF OutputQueueFails, At, Goto, queues, port, threads, context, numbers, faults
<1>1. (BufferTypes /\ ThreadTypes /\ NumberTypes)'
  BY DEF IInv, TypeOK, BufferTypes, ThreadTypes, NumberTypes, InHand,
     Buffers, NextStamp, Threads, Labels, InCallback, AppOnly, Disabling, Resending
<1>2. FlagTypes'
  BY Zenon DEF IInv, TypeOK, FlagTypes
<1>3. (InHand /\ Between /\ LockHeld)'
  BY DEF IInv, TypeOK, ThreadTypes, BufferTypes, InHand, Between, LockHeld, Buffers, Threads,
     InCallback, AppOnly, Disabling, Resending
<1>4. (Room /\ OutputBound)'
  BY DEF IInv, TypeOK, ThreadTypes, BufferTypes, InHand, Between, LockHeld, Room,
     OutputBound, Threads, InCallback, AppOnly, Disabling, Resending
<1> QED
  BY <1>1, <1>2, <1>3, <1>4 DEF IInv, TypeOK

LEMMA ActionLockIInv ==
  ASSUME IInv, ActionLock PROVE IInv'
<1> USE BufferAssumption, BoundAssumption
<1> USE DEF ActionLock, At, Goto, queues, port, threads, context, numbers, faults
<1>1. (BufferTypes /\ ThreadTypes /\ NumberTypes)'
  BY DEF IInv, TypeOK, BufferTypes, ThreadTypes, NumberTypes, InHand,
     Buffers, NextStamp, Threads, Labels, InCallback, AppOnly, Disabling, Resending
<1>2. FlagTypes'
  BY Zenon DEF IInv, TypeOK, FlagTypes
<1>3. (InHand /\ Between /\ LockHeld)'
  BY DEF IInv, TypeOK, ThreadTypes, BufferTypes, InHand, Between, LockHeld, Buffers, Threads,
     InCallback, AppOnly, Disabling, Resending
<1>4. (Room /\ OutputBound)'
  BY DEF IInv, TypeOK, ThreadTypes, BufferTypes, InHand, Between, LockHeld, Room,
     OutputBound, Threads, InCallback, AppOnly, Disabling, Resending
<1> QED
  BY <1>1, <1>2, <1>3, <1>4 DEF IInv, TypeOK

LEMMA ActionUnlockIInv ==
  ASSUME IInv, ActionUnlock PROVE IInv'
<1> USE BufferAssumption, BoundAssumption
<1> USE DEF ActionUnlock, At, Goto, queues, port, threads, context, numbers, faults
<1>1. (BufferTypes /\ ThreadTypes /\ NumberTypes)'
  BY DEF IInv, TypeOK, BufferTypes, ThreadTypes, NumberTypes, InHand,
     Buffers, NextStamp, Threads, Labels, InCallback, AppOnly, Disabling, Resending
<1>2. FlagTypes'
  BY Zenon DEF IInv, TypeOK, FlagTypes
<1>3. (InHand /\ Between /\ LockHeld)'
  BY DEF IInv, TypeOK, ThreadTypes, BufferTypes, InHand, Between, LockHeld, Buffers, Threads,
     InCallback, AppOnly, Disabling, Resending
<1>4. (Room /\ OutputBound)'
  BY DEF IInv, TypeOK, ThreadTypes, BufferTypes, InHand, Between, LockHeld, Room,
     OutputBound, Threads, InCallback, AppOnly, Disabling, Resending
<1> QED
  BY <1>1, <1>2, <1>3, <1>4 DEF IInv, TypeOK

LEMMA PortFilledIInv ==
  ASSUME IInv, PortFilled PROVE IInv'
<1> USE BufferAssumption, BoundAssumption
<1> USE DEF PortFilled, At, Goto, queues, port, threads, context, numbers, faults
<1>1. (BufferTypes /\ ThreadTypes /\ NumberTypes)'
  BY DEF IInv, TypeOK, BufferTypes, ThreadTypes, NumberTypes, InHand,
     Buffers, NextStamp, Threads, Labels, InCallback, AppOnly, Disabling, Resending
<1>2. FlagTypes'
  BY Zenon DEF IInv, TypeOK, FlagTypes
<1>3. (InHand /\ Between /\ LockHeld)'
  BY DEF IInv, TypeOK, ThreadTypes, BufferTypes, InHand, Between, LockHeld, Buffers, Threads,
     InCallback, AppOnly, Disabling, Resending
<1>4. (Room /\ OutputBound)'
  BY DEF IInv, TypeOK, ThreadTypes, BufferTypes, InHand, Between, LockHeld, Room,
     OutputBound, Threads, InCallback, AppOnly, Disabling, Resending
<1> QED
  BY <1>1, <1>2, <1>3, <1>4 DEF IInv, TypeOK

LEMMA CreateOutputQueueIInv ==
  ASSUME IInv, CreateOutputQueue PROVE IInv'
<1> USE BufferAssumption, BoundAssumption
<1> USE DEF CreateOutputQueue, At, Goto, queues, port, threads, context, numbers, faults
<1>1. (BufferTypes /\ ThreadTypes /\ NumberTypes)'
  BY DEF IInv, TypeOK, BufferTypes, ThreadTypes, NumberTypes, InHand,
     Buffers, NextStamp, Threads, Labels, InCallback, AppOnly, Disabling, Resending
<1>2. FlagTypes'
  BY Zenon DEF IInv, TypeOK, FlagTypes
<1>3. (InHand /\ Between /\ LockHeld)'
  BY DEF IInv, TypeOK, ThreadTypes, BufferTypes, InHand, Between, LockHeld, Buffers, Threads,
     InCallback, AppOnly, Disabling, Resending
<1>4. (Room /\ OutputBound)'
  BY DEF IInv, TypeOK, ThreadTypes, BufferTypes, InHand, Between, LockHeld, Room,
     OutputBound, Threads, InCallback, AppOnly, Disabling, Resending
<1> QED
  BY <1>1, <1>2, <1>3, <1>4 DEF IInv, TypeOK

LEMMA StartCaptureIInv ==
  ASSUME IInv, StartCapture PROVE IInv'
<1> USE BufferAssumption, BoundAssumption
<1> USE DEF StartCapture, At, Goto, queues, port, threads, context, numbers, faults
<1>1. (BufferTypes /\ ThreadTypes /\ NumberTypes)'
  BY DEF IInv, TypeOK, BufferTypes, ThreadTypes, NumberTypes, InHand,
     Buffers, NextStamp, Threads, Labels, InCallback, AppOnly, Disabling, Resending
<1>2. FlagTypes'
  BY Zenon DEF IInv, TypeOK, FlagTypes
<1>3. (InHand /\ Between /\ LockHeld)'
  BY DEF IInv, TypeOK, ThreadTypes, BufferTypes, InHand, Between, LockHeld, Buffers, Threads,
     InCallback, AppOnly, Disabling, Resending
<1>4. (Room /\ OutputBound)'
  BY DEF IInv, TypeOK, ThreadTypes, BufferTypes, InHand, Between, LockHeld, Room,
     OutputBound, Threads, InCallback, AppOnly, Disabling, Resending
<1> QED
  BY <1>1, <1>2, <1>3, <1>4 DEF IInv, TypeOK

LEMMA DestroyOutputQueueIInv ==
  ASSUME IInv, DestroyOutputQueue PROVE IInv'
<1> USE BufferAssumption, BoundAssumption
<1> USE DEF DestroyOutputQueue, At, Goto, queues, port, threads, context, numbers, faults
<1>1. (BufferTypes /\ ThreadTypes /\ NumberTypes)'
  BY DEF IInv, TypeOK, BufferTypes, ThreadTypes, NumberTypes, InHand,
     Buffers, NextStamp, Threads, Labels, InCallback, AppOnly, Disabling, Resending
<1>2. FlagTypes'
  BY Zenon DEF IInv, TypeOK, FlagTypes
<1>3. (InHand /\ Between /\ LockHeld)'
  BY DEF IInv, TypeOK, ThreadTypes, BufferTypes, InHand, Between, LockHeld, Buffers, Threads,
     InCallback, AppOnly, Disabling, Resending
<1>4. (Room /\ OutputBound)'
  BY DEF IInv, TypeOK, ThreadTypes, BufferTypes, InHand, Between, LockHeld, Room,
     OutputBound, Threads, InCallback, AppOnly, Disabling, Resending
<1> QED
  BY <1>1, <1>2, <1>3, <1>4 DEF IInv, TypeOK

LEMMA PoolDestroyIInv ==
  ASSUME IInv, PoolDestroy PROVE IInv'
<1> USE BufferAssumption, BoundAssumption
<1> USE DEF PoolDestroy, At, Goto, queues, port, threads, context, numbers, faults
<1>1. (BufferTypes /\ ThreadTypes /\ NumberTypes)'
  BY DEF IInv, TypeOK, BufferTypes, ThreadTypes, NumberTypes, InHand,
     Buffers, NextStamp, Threads, Labels, InCallback, AppOnly, Disabling, Resending
<1>2. FlagTypes'
  BY Zenon DEF IInv, TypeOK, FlagTypes
<1>3. (InHand /\ Between /\ LockHeld)'
  BY DEF IInv, TypeOK, ThreadTypes, BufferTypes, InHand, Between, LockHeld, Buffers, Threads,
     InCallback, AppOnly, Disabling, Resending
<1>4. (Room /\ OutputBound)'
  BY DEF IInv, TypeOK, ThreadTypes, BufferTypes, InHand, Between, LockHeld, Room,
     OutputBound, Threads, InCallback, AppOnly, Disabling, Resending
<1> QED
  BY <1>1, <1>2, <1>3, <1>4 DEF IInv, TypeOK

LEMMA DisablePortIInv ==
  ASSUME IInv, DisablePort PROVE IInv'
<1> USE BufferAssumption, BoundAssumption
<1> USE DEF DisablePort, At, Goto, queues, port, threads, context, numbers, faults
<1>1. (BufferTypes /\ ThreadTypes /\ NumberTypes)'
  BY DEF IInv, TypeOK, BufferTypes, ThreadTypes, NumberTypes, InHand,
     Buffers, NextStamp, Threads, Labels, InCallback, AppOnly, Disabling, Resending
<1>2. FlagTypes'
  BY Zenon DEF IInv, TypeOK, FlagTypes
<1>3. (InHand /\ Between /\ LockHeld)'
  BY DEF IInv, TypeOK, ThreadTypes, BufferTypes, InHand, Between, LockHeld, Buffers, Threads,
     InCallback, AppOnly, Disabling, Resending
<1>4. (Room /\ OutputBound)'
  BY DEF IInv, TypeOK, ThreadTypes, BufferTypes, InHand, Between, LockHeld, Room,
     OutputBound, Threads, InCallback, AppOnly, Disabling, Resending
<1> QED
  BY <1>1, <1>2, <1>3, <1>4 DEF IInv, TypeOK

LEMMA LockActionIInv ==
  ASSUME IInv, LockAction PROVE IInv'
<1> USE BufferAssumption, BoundAssumption
<1> USE DEF LockAction, At, Goto, queues, port, threads, context, numbers, faults
<1>1. (BufferTypes /\ ThreadTypes /\ NumberTypes)'
  BY DEF IInv, TypeOK, BufferTypes, ThreadTypes, NumberTypes, InHand,
     Buffers, NextStamp, Threads, Labels, InCallback, AppOnly, Disabling, Resending
<1>2. FlagTypes'
  BY Zenon DEF IInv, TypeOK, FlagTypes
<1>3. (InHand /\ Between /\ LockHeld)'
  BY DEF IInv, TypeOK, ThreadTypes, BufferTypes, InHand, Between, LockHeld, Buffers, Threads,
     InCallback, AppOnly, Disabling, Resending
<1>4. (Room /\ OutputBound)'
  BY DEF IInv, TypeOK, ThreadTypes, BufferTypes, InHand, Between, LockHeld, Room,
     OutputBound, Threads, InCallback, AppOnly, Disabling, Resending
<1> QED
  BY <1>1, <1>2, <1>3, <1>4 DEF IInv, TypeOK

LEMMA VCDisabledIInv ==
  ASSUME IInv, VCDisabled PROVE IInv'
<1> USE BufferAssumption, BoundAssumption
<1> USE DEF VCDisabled, At, Goto, queues, port, threads, context, numbers, faults
<1>1. (BufferTypes /\ ThreadTypes /\ NumberTypes)'
  BY DEF IInv, TypeOK, BufferTypes, ThreadTypes, NumberTypes, InHand,
     Buffers, NextStamp, Threads, Labels, InCallback, AppOnly, Disabling, Resending
<1>2. FlagTypes'
  BY Zenon DEF IInv, TypeOK, FlagTypes
<1>3. (InHand /\ Between /\ LockHeld)'
  BY DEF IInv, TypeOK, ThreadTypes, BufferTypes, InHand, Between, LockHeld, Buffers, Threads,
     InCallback, AppOnly, Disabling, Resending
<1>4. (Room /\ OutputBound)'
  BY DEF IInv, TypeOK, ThreadTypes, BufferTypes, InHand, Between, LockHeld, Room,
     OutputBound, Threads, InCallback, AppOnly, Disabling, Resending
<1> QED
  BY <1>1, <1>2, <1>3, <1>4 DEF IInv, TypeOK

LEMMA DrainDoneIInv ==
  ASSUME IInv, DrainDone PROVE IInv'
<1> USE BufferAssumption, BoundAssumption
<1> USE DEF DrainDone, Drained, At, Goto, queues, port, threads, context, numbers, faults
<1>1. (BufferTypes /\ ThreadTypes /\ NumberTypes)'
  BY DEF IInv, TypeOK, BufferTypes, ThreadTypes, NumberTypes, InHand,
     Buffers, NextStamp, Threads, Labels, InCallback, AppOnly, Disabling, Resending
<1>2. FlagTypes'
  BY Zenon DEF IInv, TypeOK, FlagTypes
<1>3. (InHand /\ Between /\ LockHeld)'
  BY DEF IInv, TypeOK, ThreadTypes, BufferTypes, InHand, Between, LockHeld, Buffers, Threads,
     InCallback, AppOnly, Disabling, Resending
<1>4. (Room /\ OutputBound)'
  BY DEF IInv, TypeOK, ThreadTypes, BufferTypes, InHand, Between, LockHeld, Room,
     OutputBound, Threads, InCallback, AppOnly, Disabling, Resending
<1> QED
  BY <1>1, <1>2, <1>3, <1>4 DEF IInv, TypeOK

LEMMA WaitTransitIInv ==
  ASSUME IInv, WaitTransit PROVE IInv'
<1> USE BufferAssumption, BoundAssumption
<1> USE DEF WaitTransit, At, Goto, queues, port, threads, context, numbers, faults
<1>1. (BufferTypes /\ ThreadTypes /\ NumberTypes)'
  BY DEF IInv, TypeOK, BufferTypes, ThreadTypes, NumberTypes, InHand,
     Buffers, NextStamp, Threads, Labels, InCallback, AppOnly, Disabling, Resending
<1>2. FlagTypes'
  BY Zenon DEF IInv, TypeOK, FlagTypes
<1>3. (InHand /\ Between /\ LockHeld)'
  BY DEF IInv, TypeOK, ThreadTypes, BufferTypes, InHand, Between, LockHeld, Buffers, Threads,
     InCallback, AppOnly, Disabling, Resending
<1>4. (Room /\ OutputBound)'
  BY DEF IInv, TypeOK, ThreadTypes, BufferTypes, InHand, Between, LockHeld, Room,
     OutputBound, Threads, InCallback, AppOnly, Disabling, Resending
<1> QED
  BY <1>1, <1>2, <1>3, <1>4 DEF IInv, TypeOK

LEMMA FreePoolIInv ==
  ASSUME IInv, FreePool PROVE IInv'
<1> USE BufferAssumption, BoundAssumption
<1> USE DEF FreePool, At, Goto, queues, port, threads, context, numbers, faults
<1>1. (BufferTypes /\ ThreadTypes /\ NumberTypes)'
  BY DEF IInv, TypeOK, BufferTypes, ThreadTypes, NumberTypes, InHand,
     Buffers, NextStamp, Threads, Labels, InCallback, AppOnly, Disabling, Resending
<1>2. FlagTypes'
  BY Zenon DEF IInv, TypeOK, FlagTypes
<1>3. (InHand /\ Between /\ LockHeld)'
  BY DEF IInv, TypeOK, ThreadTypes, BufferTypes, InHand, Between, LockHeld, Buffers, Threads,
     InCallback, AppOnly, Disabling, Resending
<1>4. (Room /\ OutputBound)'
  BY DEF IInv, TypeOK, ThreadTypes, BufferTypes, InHand, Between, LockHeld, Room,
     OutputBound, Threads, InCallback, AppOnly, Disabling, Resending
<1> QED
  BY <1>1, <1>2, <1>3, <1>4 DEF IInv, TypeOK


-----------------------------------------------------------------------------
(* Every step, and the theorems.                                            *)

LEMMA CallbackIInv ==
  ASSUME IInv, NEW t \in Threads, Callback(t) PROVE IInv'
BY CheckLengthIInv, DisplaceIInv, ReleaseExistingIInv,
     CheckEnabledIInv, GetNewIInv, SendNewIInv, PutOutputIInv,
     ReturnFromCallbackIInv, FaultOnFreedQueueIInv
   DEF Callback

LEMMA NextIInv == IInv /\ [Next]_vars => IInv'
<1> SUFFICES ASSUME IInv, [Next]_vars PROVE IInv'
  OBVIOUS
<1>1. CASE App
  <2>1. CASE AppCall
    <3> "app" \in Threads
      BY DEF Threads
    <3> QED
      BY <2>1, CallbackIInv, FillPortIInv, PortFilledIInv, CreateOutputQueueIInv,
     OutputQueueFailsIInv, StartCaptureIInv, PoolDestroyIInv,
     DisablePortIInv, LockActionIInv, VCDisabledIInv,
     DrainTakeIInv, DrainDoneIInv, WaitTransitIInv, FreePoolIInv
      DEF AppCall
  <2> QED
    BY <1>1, <2>1, BeginReadFrameIInv, EndReadFrameIInv, DestroyOutputQueueIInv DEF App
<1>2. CASE ActionThread
  <2> "action" \in Threads
    BY DEF Threads
  <2> QED
    BY <1>2, CallbackIInv, ActionLockIInv, ActionTakeIInv, ActionUnlockIInv DEF ActionThread
<1>3. CASE \E b \in Frames : DeliverFrame(b) \/ ReturnUnfilled(b)
  BY <1>3, DeliverFrameIInv, ReturnUnfilledIInv
<1>4. CASE \E e \in Events : DeliverEvent(e)
  BY <1>4, DeliverEventIInv
<1>5. CASE UNCHANGED vars
  <2> USE <1>5 DEF vars, queues, port, threads, context, numbers, faults
  <2>1. TypeOK'
    <3>1. (BufferTypes /\ ThreadTypes /\ NumberTypes)'
      BY DEF IInv, TypeOK, BufferTypes, ThreadTypes, NumberTypes
    <3>2. FlagTypes'
      BY Zenon DEF IInv, TypeOK, FlagTypes
    <3> QED
      BY <3>1, <3>2 DEF TypeOK
  <2> QED
    BY <2>1 DEF IInv, InHand, Between, LockHeld, Room, OutputBound
<1> QED
  BY <1>1, <1>2, <1>3, <1>4, <1>5 DEF Next, Ended

LEMMA InductiveInvariant == Spec => []IInv
BY InitIInv, NextIInv, PTL DEF Spec

\* Every variable keeps its type, for any number of pool and event headers:
\* OnVideoBufferCallback and EndReadFrame release a header to the pool that
\* owns it and send only headers they took from the pool queue.
THEOREM TypeCorrect == Spec => []TypeOK
<1>1. IInv => TypeOK
  BY DEF IInv
<1> QED
  BY InductiveInvariant, <1>1, PTL

\* OnVideoBufferCallback never leaves more than two headers in OutputQueue,
\* for any number of headers, whatever the reader takes between the test of the
\* length and the put.
THEOREM OutputBounded == Spec => []OutputBound
<1>1. IInv => OutputBound
  BY DEF IInv
<1> QED
  BY InductiveInvariant, <1>1, PTL

-----------------------------------------------------------------------------
(* Where the headers are.  A step that moves a header takes it from its only *)
(* place to another, so that it is in one place again.                      *)

LEMMA MovedPlaced ==
  ASSUME Placed, NEW b \in Buffers, NEW q \in Spots, Moved(b, q)
  PROVE  Placed'
<1> SUFFICES ASSUME NEW x \in Buffers
             PROVE  \E p \in Spots : \A r \in Spots : In(x, r)' <=> r = p
    BY DEF Placed, Spots, Buffers, Threads
<1>1. CASE x = b
  BY <1>1 DEF Moved
<1>2. CASE x # b
  BY <1>2 DEF Moved, Placed
<1> QED  BY <1>1, <1>2

LEMMA StayedPlaced ==
  ASSUME Placed, Stayed
  PROVE  Placed'
<1> SUFFICES ASSUME NEW x \in Buffers
             PROVE  \E p \in Spots : \A r \in Spots : In(x, r)' <=> r = p
    BY DEF Placed, Spots, Buffers, Threads
<1> QED  BY DEF Stayed, Placed

LEMMA Alone ==
  ASSUME Placed, NEW b \in Buffers, NEW p \in Spots, In(b, p)
  PROVE  \A r \in Spots : In(b, r) <=> r = p
BY DEF Placed

LEMMA SpotTypes ==
  /\ \A k \in {"poolQ", "evPool", "gpu", "cbQ", "outQ", "locked", "lost"} : Spot(k) \in Spots
  /\ \A k \in {"cur", "hand"}, t \in Threads : <<k, t>> \in Spots
BY DEF Spots, Spot

LEMMA QuietPlaced ==
  ASSUME PlaceInv, Quiet
  PROVE  PlaceInv'
<1>1. Stayed
  <2>1. \A t \in Threads : pc'[t] = "return" <=> pc[t] = "return"
    BY DEF Quiet
  <2> QED
    BY <2>1 DEF Stayed, Quiet, In, Spots
<1>2. NoRepeats' /\ HandEmpty'
  BY DEF PlaceInv, NoRepeats, HandEmpty, Quiet
<1> QED  BY <1>1, <1>2, StayedPlaced DEF PlaceInv

LEMMA DeliverFramePlaced ==
  ASSUME IInv, PlaceInv, NEW b \in Frames, DeliverFrame(b)
  PROVE  PlaceInv'
<1> USE DEF DeliverFrame, At, Goto, queues, port, threads, context, numbers, faults
<1>1. b \in Buffers /\ cbQ \in Seq(Buffers)
  BY DEF IInv, TypeOK, BufferTypes, Buffers
<1>2. \A r \in Spots : In(b, r) <=> r = Spot("gpu")
  BY <1>1, Alone, SpotTypes DEF In, Spot, PlaceInv
<1>3. Range(cbQ') = Range(cbQ) \cup {b} /\ b \notin Range(cbQ)
  BY <1>1, <1>2, AppendElements, SpotTypes DEF In, Spot
<1>4. Moved(b, Spot("cbQ"))
  BY <1>2, <1>3 DEF In, Spots, Spot, Moved
<1>5. NoRepeats'
  BY <1>1, <1>3, AppendOnce DEF PlaceInv, NoRepeats
<1>6. HandEmpty'
  BY DEF PlaceInv, HandEmpty
<1> QED
  BY <1>1, <1>4, <1>5, <1>6, MovedPlaced, SpotTypes DEF PlaceInv

LEMMA DeliverEventPlaced ==
  ASSUME IInv, PlaceInv, NEW e \in Events, DeliverEvent(e)
  PROVE  PlaceInv'
<1> USE DEF DeliverEvent, At, Goto, queues, port, threads, context, numbers, faults
<1>1. e \in Buffers /\ cbQ \in Seq(Buffers)
  BY DEF IInv, TypeOK, BufferTypes, Buffers
<1>2. \A r \in Spots : In(e, r) <=> r = Spot("evPool")
  BY <1>1, Alone, SpotTypes DEF In, Spot, PlaceInv
<1>3. Range(cbQ') = Range(cbQ) \cup {e} /\ e \notin Range(cbQ)
  BY <1>1, <1>2, AppendElements, SpotTypes DEF In, Spot
<1>4. Moved(e, Spot("cbQ"))
  BY <1>2, <1>3 DEF In, Spots, Spot, Moved
<1>5. NoRepeats'
  BY <1>1, <1>3, AppendOnce DEF PlaceInv, NoRepeats
<1>6. HandEmpty'
  BY DEF PlaceInv, HandEmpty
<1> QED
  BY <1>1, <1>4, <1>5, <1>6, MovedPlaced, SpotTypes DEF PlaceInv

LEMMA ReturnUnfilledPlaced ==
  ASSUME IInv, PlaceInv, NEW b \in Frames, ReturnUnfilled(b)
  PROVE  PlaceInv'
<1> USE DEF ReturnUnfilled, At, Goto, queues, port, threads, context, numbers, faults
<1>1. b \in Buffers /\ cbQ \in Seq(Buffers)
  BY DEF IInv, TypeOK, BufferTypes, Buffers
<1>2. \A r \in Spots : In(b, r) <=> r = Spot("gpu")
  BY <1>1, Alone, SpotTypes DEF In, Spot, PlaceInv
<1>3. Range(cbQ') = Range(cbQ) \cup {b} /\ b \notin Range(cbQ)
  BY <1>1, <1>2, AppendElements, SpotTypes DEF In, Spot
<1>4. Moved(b, Spot("cbQ"))
  BY <1>2, <1>3 DEF In, Spots, Spot, Moved
<1>5. NoRepeats'
  BY <1>1, <1>3, AppendOnce DEF PlaceInv, NoRepeats
<1>6. HandEmpty'
  BY DEF PlaceInv, HandEmpty
<1> QED
  BY <1>1, <1>4, <1>5, <1>6, MovedPlaced, SpotTypes DEF PlaceInv

LEMMA ActionTakePlaced ==
  ASSUME IInv, PlaceInv, ActionTake
  PROVE  PlaceInv'
<1> USE DEF ActionTake, TakeCallback, At, Goto, queues, port, threads, context, numbers, faults
<1>1. cbQ \in Seq(Buffers) /\ Head(cbQ) \in Buffers /\ Head(cbQ) \in Range(cbQ)
      /\ Tail(cbQ) \in Seq(Buffers)
  BY TailElements, BufferAssumption DEF IInv, TypeOK, BufferTypes, Buffers
<1>2. \A r \in Spots : In(Head(cbQ), r) <=> r = Spot("cbQ")
  BY <1>1, Alone, SpotTypes DEF In, Spot, PlaceInv
<1>3. OnceIn(Tail(cbQ), Buffers) /\ Head(cbQ) \notin Range(Tail(cbQ))
  BY <1>1, TailOnce DEF PlaceInv, NoRepeats
<1>4. Range(cbQ) = Range(Tail(cbQ)) \cup {Head(cbQ)}
  BY <1>1, TailElements
<1>5. pc \in [Threads -> Labels] /\ cur \in [Threads -> Buffers \cup {None}]
      /\ hand \in [Threads -> Buffers \cup {None}] /\ None \notin Buffers /\ cur["action"] = None
  BY BufferAssumption DEF IInv, TypeOK, ThreadTypes, Between, PlaceInv, HandEmpty, Buffers,
      AppOnly, Disabling, Threads
<1>6. Moved(Head(cbQ), <<"cur", "action">>)
  BY <1>1, <1>2, <1>3, <1>4, <1>5 DEF In, Spots, Spot, Moved, Threads
<1>7. NoRepeats'
  BY <1>1, <1>3 DEF PlaceInv, NoRepeats
<1>8. HandEmpty'
  BY <1>1, <1>5 DEF PlaceInv, HandEmpty
<1> QED
  BY <1>1, <1>6, <1>7, <1>8, MovedPlaced, SpotTypes DEF PlaceInv, Threads

LEMMA DrainTakePlaced ==
  ASSUME IInv, PlaceInv, DrainTake
  PROVE  PlaceInv'
<1> USE DEF DrainTake, TakeCallback, At, Goto, queues, port, threads, context, numbers, faults
<1>1. cbQ \in Seq(Buffers) /\ Head(cbQ) \in Buffers /\ Head(cbQ) \in Range(cbQ)
      /\ Tail(cbQ) \in Seq(Buffers)
  BY TailElements, BufferAssumption DEF IInv, TypeOK, BufferTypes, Buffers
<1>2. \A r \in Spots : In(Head(cbQ), r) <=> r = Spot("cbQ")
  BY <1>1, Alone, SpotTypes DEF In, Spot, PlaceInv
<1>3. OnceIn(Tail(cbQ), Buffers) /\ Head(cbQ) \notin Range(Tail(cbQ))
  BY <1>1, TailOnce DEF PlaceInv, NoRepeats
<1>4. Range(cbQ) = Range(Tail(cbQ)) \cup {Head(cbQ)}
  BY <1>1, TailElements
<1>5. pc \in [Threads -> Labels] /\ cur \in [Threads -> Buffers \cup {None}]
      /\ hand \in [Threads -> Buffers \cup {None}] /\ None \notin Buffers /\ cur["app"] = None
  BY BufferAssumption DEF IInv, TypeOK, ThreadTypes, Between, PlaceInv, HandEmpty, Buffers,
      AppOnly, Disabling, Threads
<1>6. Moved(Head(cbQ), <<"cur", "app">>)
  BY <1>1, <1>2, <1>3, <1>4, <1>5 DEF In, Spots, Spot, Moved, Threads
<1>7. NoRepeats'
  BY <1>1, <1>3 DEF PlaceInv, NoRepeats
<1>8. HandEmpty'
  BY <1>1, <1>5 DEF PlaceInv, HandEmpty
<1> QED
  BY <1>1, <1>6, <1>7, <1>8, MovedPlaced, SpotTypes DEF PlaceInv, Threads

LEMMA DisplacePlaced ==
  ASSUME IInv, PlaceInv, NEW t \in Threads, Displace(t)
  PROVE  PlaceInv'
<1> USE DEF Displace, At, Goto, queues, port, threads, context, numbers, faults
<1>1. CASE outQ = <<>>
  BY <1>1, QuietPlaced DEF Quiet, IInv, TypeOK, ThreadTypes, AfterMiss
<1>2. CASE outQ # <<>>
  <2>1. outQ \in Seq(Buffers) /\ Head(outQ) \in Buffers /\ Head(outQ) \in Range(outQ)
        /\ Tail(outQ) \in Seq(Buffers)
    BY <1>2, TailElements, BufferAssumption DEF IInv, TypeOK, BufferTypes, Buffers
  <2>2. \A r \in Spots : In(Head(outQ), r) <=> r = Spot("outQ")
    BY <2>1, Alone, SpotTypes DEF In, Spot, PlaceInv
  <2>3. OnceIn(Tail(outQ), Buffers) /\ Head(outQ) \notin Range(Tail(outQ))
    BY <1>2, <2>1, TailOnce DEF PlaceInv, NoRepeats
  <2>4. Range(outQ) = Range(Tail(outQ)) \cup {Head(outQ)}
    BY <1>2, <2>1, TailElements
  <2>5. pc \in [Threads -> Labels] /\ cur \in [Threads -> Buffers \cup {None}]
        /\ hand \in [Threads -> Buffers \cup {None}] /\ None \notin Buffers /\ hand[t] = None
    BY BufferAssumption DEF IInv, TypeOK, ThreadTypes, Between, PlaceInv, HandEmpty, Buffers,
        AppOnly, Disabling, Threads
  <2>6. Moved(Head(outQ), <<"hand", t>>)
    <3> SUFFICES ASSUME NEW x \in Buffers, NEW r \in Spots
                 PROVE  In(x, r)' <=> IF x = Head(outQ) THEN r = <<"hand", t>> ELSE In(x, r)
        BY DEF Moved
    <3>1. CASE r \in {"cur", "hand"} \X Threads
      <4>1. PICK u \in Threads : r = <<"cur", u>> \/ r = <<"hand", u>>
        BY <3>1
      <4>2. pc[t] # "return" /\ pc'[t] # "return" /\ (u # t => pc'[u] = pc[u])
        BY <1>2, <2>5
      <4>3. hand'[t] = Head(outQ) /\ (u # t => hand'[u] = hand[u])
        BY <1>2, <2>5
      <4> QED
        BY <4>1, <4>2, <4>3, <2>1, <2>2, <2>5 DEF In, Spot
    <3>2. CASE r \notin {"cur", "hand"} \X Threads
      <4>1. PICK k \in {"poolQ", "evPool", "gpu", "cbQ", "outQ", "locked", "lost"} : r = Spot(k)
        BY <3>2 DEF Spots, Spot
      <4>2. r # <<"hand", t>> /\ Spot("outQ") \in Spots /\ (r = Spot("outQ") <=> k = "outQ")
        BY <4>1, SpotTypes DEF Spot
      <4> QED
        BY <1>2, <4>1, <4>2, <2>1, <2>2, <2>3, <2>4 DEF In, Spot
    <3> QED
      BY <3>1, <3>2
  <2>7. NoRepeats'
    BY <1>2, <2>1, <2>3 DEF PlaceInv, NoRepeats
  <2>8. HandEmpty'
    BY <1>2, <2>1, <2>5 DEF PlaceInv, HandEmpty
  <2> QED
    BY <2>1, <2>6, <2>7, <2>8, MovedPlaced, SpotTypes DEF PlaceInv, Threads
<1> QED
  BY <1>1, <1>2

LEMMA GetNewPlaced ==
  ASSUME IInv, PlaceInv, NEW t \in Threads, GetNew(t)
  PROVE  PlaceInv'
<1> USE DEF GetNew, At, Goto, queues, port, threads, context, numbers, faults
<1>1. CASE poolQ = <<>>
  BY <1>1, QuietPlaced DEF Quiet, IInv, TypeOK, ThreadTypes, Resume
<1>2. CASE poolQ # <<>>
  <2>1. poolQ \in Seq(Frames) /\ Head(poolQ) \in Buffers /\ Head(poolQ) \in Range(poolQ)
        /\ Tail(poolQ) \in Seq(Frames)
    BY <1>2, TailElements, BufferAssumption DEF IInv, TypeOK, BufferTypes, Buffers
  <2>2. \A r \in Spots : In(Head(poolQ), r) <=> r = Spot("poolQ")
    BY <2>1, Alone, SpotTypes DEF In, Spot, PlaceInv
  <2>3. OnceIn(Tail(poolQ), Buffers) /\ Head(poolQ) \notin Range(Tail(poolQ))
    BY <1>2, <2>1, TailOnce DEF PlaceInv, NoRepeats
  <2>4. Range(poolQ) = Range(Tail(poolQ)) \cup {Head(poolQ)}
    BY <1>2, <2>1, TailElements
  <2>5. pc \in [Threads -> Labels] /\ cur \in [Threads -> Buffers \cup {None}]
        /\ hand \in [Threads -> Buffers \cup {None}] /\ None \notin Buffers /\ hand[t] = None
    BY BufferAssumption DEF IInv, TypeOK, ThreadTypes, Between, PlaceInv, HandEmpty, Buffers,
        AppOnly, Disabling, Threads
  <2>6. Moved(Head(poolQ), <<"hand", t>>)
    <3> SUFFICES ASSUME NEW x \in Buffers, NEW r \in Spots
                 PROVE  In(x, r)' <=> IF x = Head(poolQ) THEN r = <<"hand", t>> ELSE In(x, r)
        BY DEF Moved
    <3>1. CASE r \in {"cur", "hand"} \X Threads
      <4>1. PICK u \in Threads : r = <<"cur", u>> \/ r = <<"hand", u>>
        BY <3>1
      <4>2. pc[t] # "return" /\ pc'[t] # "return" /\ (u # t => pc'[u] = pc[u])
        BY <1>2, <2>5
      <4>3. hand'[t] = Head(poolQ) /\ (u # t => hand'[u] = hand[u])
        BY <1>2, <2>5
      <4> QED
        BY <4>1, <4>2, <4>3, <2>1, <2>2, <2>5 DEF In, Spot
    <3>2. CASE r \notin {"cur", "hand"} \X Threads
      <4>1. PICK k \in {"poolQ", "evPool", "gpu", "cbQ", "outQ", "locked", "lost"} : r = Spot(k)
        BY <3>2 DEF Spots, Spot
      <4>2. r # <<"hand", t>> /\ Spot("poolQ") \in Spots /\ (r = Spot("poolQ") <=> k = "poolQ")
        BY <4>1, SpotTypes DEF Spot
      <4> QED
        BY <1>2, <4>1, <4>2, <2>1, <2>2, <2>3, <2>4 DEF In, Spot
    <3> QED
      BY <3>1, <3>2
  <2>7. NoRepeats'
    BY <1>2, <2>1, <2>3 DEF PlaceInv, NoRepeats
  <2>8. HandEmpty'
    BY <1>2, <2>1, <2>5 DEF PlaceInv, HandEmpty
  <2> QED
    BY <2>1, <2>6, <2>7, <2>8, MovedPlaced, SpotTypes DEF PlaceInv, Threads
<1> QED
  BY <1>1, <1>2

LEMMA FillPortPlaced ==
  ASSUME IInv, PlaceInv, FillPort
  PROVE  PlaceInv'
<1> USE DEF FillPort, SendOK, SendRefused, At, Goto, queues, port, threads, context, numbers,
      faults
<1>1. poolQ \in Seq(Frames) /\ Head(poolQ) \in Buffers /\ Head(poolQ) \in Range(poolQ)
      /\ Tail(poolQ) \in Seq(Frames)
  BY TailElements, BufferAssumption DEF IInv, TypeOK, BufferTypes, Buffers
<1>2. \A r \in Spots : In(Head(poolQ), r) <=> r = Spot("poolQ")
  BY <1>1, Alone, SpotTypes DEF In, Spot, PlaceInv
<1>3. OnceIn(Tail(poolQ), Buffers) /\ Head(poolQ) \notin Range(Tail(poolQ))
  BY <1>1, TailOnce DEF PlaceInv, NoRepeats
<1>4. Range(poolQ) = Range(Tail(poolQ)) \cup {Head(poolQ)}
  BY <1>1, TailElements
<1>5. pc \in [Threads -> Labels] /\ cur \in [Threads -> Buffers \cup {None}]
      /\ hand \in [Threads -> Buffers \cup {None}] /\ None \notin Buffers
  BY BufferAssumption DEF IInv, TypeOK, ThreadTypes, Between, PlaceInv, HandEmpty, Buffers,
      AppOnly, Disabling, Threads
<1>6. Moved(Head(poolQ), Spot("gpu")) \/ Moved(Head(poolQ), Spot("lost"))
  BY <1>1, <1>2, <1>3, <1>4, <1>5 DEF In, Spots, Spot, Moved, Threads
<1>7. NoRepeats'
  BY <1>1, <1>3 DEF PlaceInv, NoRepeats
<1>8. HandEmpty'
  BY <1>1, <1>5 DEF PlaceInv, HandEmpty
<1> QED
  BY <1>1, <1>6, <1>7, <1>8, MovedPlaced, SpotTypes DEF PlaceInv, Threads

\* mmal_buffer_header_release puts a header nobody else has back in its pool.
LEMMA ReleaseHome ==
  ASSUME IInv, NoRepeats, NEW b \in Buffers, Release(b), b \notin Range(poolQ)
  PROVE  /\ b \in Frames => Range(poolQ') = Range(poolQ) \cup {b} /\ evPool' = evPool
         /\ b \notin Frames => Range(poolQ') = Range(poolQ) /\ evPool' = evPool \cup {b}
         /\ OnceIn(poolQ', Buffers)
<1>1. poolQ \in Seq(Frames)
  BY DEF IInv, TypeOK, BufferTypes
<1>2. CASE b \in Frames
  <2>1. Range(Append(poolQ, b)) = Range(poolQ) \cup {b}
    BY <1>1, <1>2, AppendElements
  <2>2. OnceIn(Append(poolQ, b), Buffers)
    BY <1>1, <1>2, AppendOnce DEF NoRepeats
  <2> QED
    BY <1>2, <2>1, <2>2 DEF Release
<1>3. CASE b \notin Frames
  BY <1>3 DEF Release, NoRepeats
<1> QED
  BY <1>2, <1>3

LEMMA ReleaseExistingPlaced ==
  ASSUME IInv, PlaceInv, NEW t \in Threads, ReleaseExisting(t)
  PROVE  PlaceInv'
<1> DEFINE b == hand[t]
<1> DEFINE home == IF b \in Frames THEN Spot("poolQ") ELSE Spot("evPool")
<1> USE DEF ReleaseExisting, At, Goto, queues, port, threads, context, numbers, faults
<1>1. b \in Buffers /\ b # None
  BY BufferAssumption DEF IInv, InHand, Buffers
<1>2. \A r \in Spots : In(b, r) <=> r = <<"hand", t>>
  BY <1>1, Alone, SpotTypes DEF In, PlaceInv
<1>3. b \notin Range(poolQ)
  BY <1>2, SpotTypes DEF In, Spot
<1>4. /\ b \in Frames => Range(poolQ') = Range(poolQ) \cup {b} /\ evPool' = evPool
      /\ b \notin Frames => Range(poolQ') = Range(poolQ) /\ evPool' = evPool \cup {b}
      /\ OnceIn(poolQ', Buffers)
  BY <1>1, <1>3, ReleaseHome DEF PlaceInv
<1>5. /\ pc[t] # "return" /\ pc'[t] # "return" /\ hand'[t] = None
      /\ \A u \in Threads : u # t => pc'[u] = pc[u] /\ hand'[u] = hand[u]
  BY DEF IInv, TypeOK, ThreadTypes
<1>6. Moved(b, home)
  <2> SUFFICES ASSUME NEW x \in Buffers, NEW r \in Spots
               PROVE  In(x, r)' <=> IF x = b THEN r = home ELSE In(x, r)
      BY DEF Moved
  <2>1. CASE r \in {"cur", "hand"} \X Threads
    <3>1. PICK u \in Threads : r = <<"cur", u>> \/ r = <<"hand", u>>
      BY <2>1
    <3> QED
      BY <3>1, <1>1, <1>2, <1>5, BufferAssumption DEF In, Spot, Buffers
  <2>2. CASE r \notin {"cur", "hand"} \X Threads
    <3>1. PICK k \in {"poolQ", "evPool", "gpu", "cbQ", "outQ", "locked", "lost"} : r = Spot(k)
      BY <2>2 DEF Spots, Spot
    <3>2. r # <<"hand", t>> /\ (\A j \in {"poolQ", "evPool"} : r = Spot(j) <=> k = j)
      BY <3>1 DEF Spot
    <3>3. In(b, r) <=> FALSE
      BY <1>2, <3>2
    <3> QED
      BY <3>1, <3>2, <3>3, <1>4 DEF In, Spot
  <2> QED
    BY <2>1, <2>2
<1>7. NoRepeats' /\ HandEmpty'
  BY <1>4, <1>5 DEF PlaceInv, NoRepeats, HandEmpty
<1> QED
  BY <1>1, <1>6, <1>7, MovedPlaced, SpotTypes DEF PlaceInv

LEMMA EndReadFramePlaced ==
  ASSUME IInv, PlaceInv, EndReadFrame
  PROVE  PlaceInv'
<1> DEFINE b == locked
<1> DEFINE home == IF b \in Frames THEN Spot("poolQ") ELSE Spot("evPool")
<1> USE DEF EndReadFrame, Unlock, At, Goto, queues, port, threads, context, numbers, faults
<1>1. b \in Buffers /\ b # None
  BY BufferAssumption DEF IInv, TypeOK, BufferTypes, Buffers
<1>2. \A r \in Spots : In(b, r) <=> r = Spot("locked")
  BY <1>1, Alone, SpotTypes DEF In, PlaceInv, Spot
<1>3. b \notin Range(poolQ)
  BY <1>2, SpotTypes DEF In, Spot
<1>4. /\ b \in Frames => Range(poolQ') = Range(poolQ) \cup {b} /\ evPool' = evPool
      /\ b \notin Frames => Range(poolQ') = Range(poolQ) /\ evPool' = evPool \cup {b}
      /\ OnceIn(poolQ', Buffers)
  BY <1>1, <1>3, ReleaseHome DEF PlaceInv
<1>5. /\ pc["app"] = "ready" /\ pc'["app"] = "enabled" /\ None \notin Buffers
      /\ \A u \in Threads : u # "app" => pc'[u] = pc[u]
  BY BufferAssumption DEF IInv, TypeOK, ThreadTypes, Threads, Buffers
<1>6. Moved(b, home)
  <2> SUFFICES ASSUME NEW x \in Buffers, NEW r \in Spots
               PROVE  In(x, r)' <=> IF x = b THEN r = home ELSE In(x, r)
      BY DEF Moved
  <2>1. CASE r \in {"cur", "hand"} \X Threads
    <3>1. PICK u \in Threads : r = <<"cur", u>> \/ r = <<"hand", u>>
      BY <2>1
    <3> QED
      BY <3>1, <1>1, <1>2, <1>5 DEF In, Spot
  <2>2. CASE r \notin {"cur", "hand"} \X Threads
    <3>1. PICK k \in {"poolQ", "evPool", "gpu", "cbQ", "outQ", "locked", "lost"} : r = Spot(k)
      BY <2>2 DEF Spots, Spot
    <3>2. \A j \in {"poolQ", "evPool", "locked"} : r = Spot(j) <=> k = j
      BY <3>1 DEF Spot
    <3>3. In(b, r) <=> k = "locked"
      BY <1>2, <3>2
    <3> QED
      BY <3>1, <3>2, <3>3, <1>4, <1>5 DEF In, Spot
  <2> QED
    BY <2>1, <2>2
<1>7. NoRepeats' /\ HandEmpty'
  BY <1>4, <1>5 DEF PlaceInv, NoRepeats, HandEmpty
<1> QED
  BY <1>1, <1>6, <1>7, MovedPlaced, SpotTypes DEF PlaceInv

LEMMA SendNewPlaced ==
  ASSUME IInv, PlaceInv, NEW t \in Threads, SendNew(t)
  PROVE  PlaceInv'
<1> DEFINE b == hand[t]
<1> USE DEF SendNew, SendOK, SendRefused, Resume, At, Goto, queues, port, threads, context,
      numbers, faults
<1>1. b \in Buffers /\ b # None /\ None \notin Buffers
  BY BufferAssumption DEF IInv, InHand, Buffers
<1>2. \A r \in Spots : In(b, r) <=> r = <<"hand", t>>
  <2>1. In(b, <<"hand", t>>) /\ <<"hand", t>> \in Spots
    BY SpotTypes DEF In
  <2> QED
    BY <1>1, <2>1, Alone DEF PlaceInv
<1>3. /\ pc[t] # "return" /\ pc'[t] # "return" /\ hand'[t] = None
      /\ pc'[t] \notin {"release", "send"}
      /\ \A u \in Threads : u # t => pc'[u] = pc[u] /\ hand'[u] = hand[u]
  BY DEF IInv, TypeOK, ThreadTypes
<1>4. ASSUME NEW home \in {"gpu", "lost"},
             gpu' = IF home = "gpu" THEN gpu \cup {b} ELSE gpu,
             lost' = IF home = "lost" THEN lost \cup {b} ELSE lost
      PROVE  Moved(b, Spot(home))
  <2> SUFFICES ASSUME NEW x \in Buffers, NEW r \in Spots
               PROVE  In(x, r)' <=> IF x = b THEN r = Spot(home) ELSE In(x, r)
      BY DEF Moved
  <2>1. CASE r \in {"cur", "hand"} \X Threads
    <3>1. PICK u \in Threads : r = <<"cur", u>> \/ r = <<"hand", u>>
      BY <2>1
    <3> QED
      BY <3>1, <1>1, <1>2, <1>3 DEF In, Spot
  <2>2. CASE r \notin {"cur", "hand"} \X Threads
    <3>1. PICK k \in {"poolQ", "evPool", "gpu", "cbQ", "outQ", "locked", "lost"} : r = Spot(k)
      BY <2>2 DEF Spots, Spot
    <3>2. r # <<"hand", t>> /\ (r = Spot(home) <=> k = home)
      BY <3>1 DEF Spot
    <3>3. In(b, r) <=> FALSE
      BY <1>2, <3>2
    <3> QED
      BY <3>1, <3>2, <3>3, <1>4 DEF In, Spot
  <2> QED
    BY <2>1, <2>2
<1>5. Moved(b, Spot("gpu")) \/ Moved(b, Spot("lost"))
  BY <1>4
<1>6. NoRepeats' /\ HandEmpty'
  BY <1>3 DEF PlaceInv, NoRepeats, HandEmpty
<1> QED
  BY <1>1, <1>5, <1>6, MovedPlaced, SpotTypes DEF PlaceInv

LEMMA PutOutputPlaced ==
  ASSUME IInv, PlaceInv, NEW t \in Threads, PutOutput(t)
  PROVE  PlaceInv'
<1> DEFINE b == cur[t]
<1> USE DEF PutOutput, Queued, At, Goto, queues, port, threads, context, numbers, faults
<1>1. b \in Buffers /\ b # None /\ None \notin Buffers /\ outQ \in Seq(Buffers)
  BY BufferAssumption DEF IInv, TypeOK, BufferTypes, InHand, Buffers, InCallback
<1>2. \A r \in Spots : In(b, r) <=> r = <<"cur", t>>
  <2>1. In(b, <<"cur", t>>) /\ <<"cur", t>> \in Spots
    BY SpotTypes DEF In
  <2> QED
    BY <1>1, <2>1, Alone DEF PlaceInv
<1>3. /\ pc[t] # "return" /\ pc'[t] = "return"
      /\ \A u \in Threads : u # t => pc'[u] = pc[u]
  BY DEF IInv, TypeOK, ThreadTypes
<1>4. b \notin Range(outQ)
  BY <1>2, SpotTypes DEF In, Spot
<1>5. Range(Append(outQ, b)) = Range(outQ) \cup {b} /\ OnceIn(Append(outQ, b), Buffers)
  BY <1>1, <1>4, AppendElements, AppendOnce DEF PlaceInv, NoRepeats
<1>6. ASSUME NEW home \in {"outQ", "lost"},
             Range(outQ') = IF home = "outQ" THEN Range(outQ) \cup {b} ELSE Range(outQ),
             lost' = IF home = "lost" THEN lost \cup {b} ELSE lost
      PROVE  Moved(b, Spot(home))
  <2> SUFFICES ASSUME NEW x \in Buffers, NEW r \in Spots
               PROVE  In(x, r)' <=> IF x = b THEN r = Spot(home) ELSE In(x, r)
      BY DEF Moved
  <2>1. CASE r \in {"cur", "hand"} \X Threads
    <3>1. PICK u \in Threads : r = <<"cur", u>> \/ r = <<"hand", u>>
      BY <2>1
    <3> QED
      BY <3>1, <1>1, <1>2, <1>3 DEF In, Spot
  <2>2. CASE r \notin {"cur", "hand"} \X Threads
    <3>1. PICK k \in {"poolQ", "evPool", "gpu", "cbQ", "outQ", "locked", "lost"} : r = Spot(k)
      BY <2>2 DEF Spots, Spot
    <3>2. r # <<"cur", t>> /\ (r = Spot(home) <=> k = home)
      BY <3>1 DEF Spot
    <3>3. In(b, r) <=> FALSE
      BY <1>2, <3>2
    <3> QED
      BY <3>1, <3>2, <3>3, <1>6 DEF In, Spot
  <2> QED
    BY <2>1, <2>2
<1>7. Moved(b, Spot("outQ")) \/ Moved(b, Spot("lost"))
  BY <1>5, <1>6
<1>8. NoRepeats' /\ HandEmpty'
  BY <1>3, <1>5 DEF PlaceInv, NoRepeats, HandEmpty
<1> QED
  BY <1>1, <1>7, <1>8, MovedPlaced, SpotTypes DEF PlaceInv

LEMMA BeginReadFramePlaced ==
  ASSUME IInv, PlaceInv, BeginReadFrame
  PROVE  PlaceInv'
<1> PICK b : b = Head(outQ)
  OBVIOUS
<1> PICK l : l = locked
  OBVIOUS
<1> USE DEF BeginReadFrame, At, Goto, queues, port, threads, context, numbers, faults
<1>1. /\ outQ \in Seq(Buffers) /\ b \in Buffers /\ Range(outQ) = Range(Tail(outQ)) \cup {b}
      /\ None \notin Buffers /\ locked \in Buffers \cup {None}
  BY TailElements, BufferAssumption DEF IInv, TypeOK, BufferTypes, Buffers
<1>2. OnceIn(Tail(outQ), Buffers) /\ b \notin Range(Tail(outQ))
  BY <1>1, TailOnce DEF PlaceInv, NoRepeats
<1>3. \A r \in Spots : In(b, r) <=> r = Spot("outQ")
  BY <1>1, Alone, SpotTypes DEF In, Spot, PlaceInv
<1>4. l # None => \A r \in Spots : In(l, r) <=> r = Spot("locked")
  BY <1>1, Alone, SpotTypes DEF In, Spot, PlaceInv
<1>5. l # b
  BY <1>1, <1>3, <1>4, SpotTypes DEF Spot
<1>6. ASSUME NEW r \in Spots
      PROVE  /\ In(b, r)' <=> r = Spot("locked")
             /\ l # None => (In(l, r)' <=> r = Spot("lost"))
             /\ \A x \in Buffers : x \notin {b, l} => (In(x, r)' <=> In(x, r))
  <2>1. CASE r \in {"cur", "hand"} \X Threads
    <3>1. PICK u \in Threads : r = <<"cur", u>> \/ r = <<"hand", u>>
      BY <2>1
    <3>2. r # Spot("outQ") /\ r # Spot("locked") /\ r # Spot("lost")
      BY <3>1 DEF Spot
    <3>3. \A x \in Buffers : In(x, r)' <=> In(x, r)
      BY <3>1 DEF In
    <3>4. ~In(b, r) /\ (l # None => ~In(l, r))
      BY <3>2, <1>3, <1>4
    <3> QED
      BY <3>2, <3>3, <3>4, <1>1
  <2>2. CASE r \notin {"cur", "hand"} \X Threads
    <3>1. PICK k \in {"poolQ", "evPool", "gpu", "cbQ", "outQ", "locked", "lost"} : r = Spot(k)
      BY <2>2 DEF Spots, Spot
    <3>2. \A j \in {"outQ", "locked", "lost"} : r = Spot(j) <=> k = j
      BY <3>1 DEF Spot
    <3>3. (In(b, r) <=> k = "outQ") /\ (l # None => (In(l, r) <=> k = "locked"))
      BY <1>3, <1>4, <3>2
    <3>4. lost' = IF l = None THEN lost ELSE lost \cup {l}
      OBVIOUS
    <3>5. In(b, r)' <=> k = "locked"
      BY <3>1, <3>3, <3>4, <1>1, <1>2, <1>5 DEF In, Spot
    <3>6. l # None => (In(l, r)' <=> k = "lost")
      BY <3>1, <3>3, <3>4, <1>1, <1>2, <1>5 DEF In, Spot
    <3>7. \A x \in Buffers : x \notin {b, l} => (In(x, r)' <=> In(x, r))
      BY <3>1, <3>4, <1>1, <1>2 DEF In, Spot
    <3> QED
      BY <3>2, <3>5, <3>6, <3>7
  <2> QED
    BY <2>1, <2>2
<1>9. Placed'
  <2> SUFFICES ASSUME NEW x \in Buffers
               PROVE  \E p \in Spots : \A r \in Spots : In(x, r)' <=> r = p
      BY DEF Placed, Spots, Buffers, Threads
  <2>1. CASE x = b
    BY <1>6, <2>1, SpotTypes
  <2>2. CASE x = l
    BY <1>1, <1>6, <2>2, SpotTypes
  <2>3. CASE x \notin {b, l}
    <3>1. PICK p \in Spots : \A r \in Spots : In(x, r) <=> r = p
      BY DEF PlaceInv, Placed
    <3> QED
      BY <1>6, <2>3, <3>1
  <2> QED
    BY <2>1, <2>2, <2>3
<1>10. NoRepeats' /\ HandEmpty'
  BY <1>2 DEF PlaceInv, NoRepeats, HandEmpty
<1> QED
  BY <1>9, <1>10 DEF PlaceInv

LEMMA ReturnFromCallbackPlaced ==
  ASSUME IInv, PlaceInv, NEW t \in Threads, ReturnFromCallback(t)
  PROVE  PlaceInv'
<1> USE DEF ReturnFromCallback, At, Goto, queues, port, threads, context, numbers, faults
<1>1. /\ pc[t] = "return" /\ pc'[t] # "return" /\ cur'[t] = None /\ None \notin Buffers
      /\ pc'[t] \notin {"release", "send"}
      /\ \A u \in Threads : u # t => pc'[u] = pc[u] /\ cur'[u] = cur[u]
  BY BufferAssumption DEF IInv, TypeOK, ThreadTypes, Buffers
<1>2. Stayed
  BY <1>1 DEF In, Stayed, Spots
<1>3. NoRepeats' /\ HandEmpty'
  BY <1>1 DEF PlaceInv, NoRepeats, HandEmpty
<1> QED
  BY <1>2, <1>3, StayedPlaced DEF PlaceInv

\* The steps that move no header
LEMMA OthersQuiet ==
  ASSUME IInv,
         \/ \E t \in Threads : CheckLength(t) \/ CheckEnabled(t) \/ FaultOnFreedQueue(t)
         \/ ActionLock \/ ActionUnlock \/ PortFilled \/ CreateOutputQueue \/ OutputQueueFails
         \/ StartCapture \/ DestroyOutputQueue \/ PoolDestroy \/ DisablePort \/ LockAction
         \/ VCDisabled \/ DrainDone \/ WaitTransit \/ FreePool
         \/ UNCHANGED vars
  PROVE  Quiet
<1> USE DEF At, Goto, vars, queues, port, threads, context, numbers, faults, IInv, TypeOK,
      ThreadTypes
<1>1. CASE \E t \in Threads : CheckLength(t) \/ CheckEnabled(t) \/ FaultOnFreedQueue(t)
  BY <1>1 DEF Quiet, CheckLength, CheckEnabled, FaultOnFreedQueue, Resume
<1>2. CASE ActionLock \/ ActionUnlock
  BY <1>2 DEF Quiet, ActionLock, ActionUnlock
<1>3. CASE PortFilled \/ CreateOutputQueue \/ OutputQueueFails \/ StartCapture
  BY <1>3 DEF Quiet, PortFilled, CreateOutputQueue, OutputQueueFails, StartCapture
<1>4. CASE DestroyOutputQueue \/ PoolDestroy \/ DisablePort \/ LockAction
  BY <1>4 DEF Quiet, DestroyOutputQueue, PoolDestroy, DisablePort, LockAction
<1>5. CASE VCDisabled \/ DrainDone \/ WaitTransit \/ FreePool \/ UNCHANGED vars
  BY <1>5 DEF Quiet, VCDisabled, DrainDone, WaitTransit, FreePool
<1> QED
  BY <1>1, <1>2, <1>3, <1>4, <1>5

LEMMA InitPlaced ==
  ASSUME Init
  PROVE  PlaceInv
<1> USE BufferAssumption
<1>1. /\ poolQ \in [1..Cardinality(Frames) -> Frames] /\ Range(poolQ) = Frames
      /\ Cardinality(Frames) \in Nat
  BY FS_CardinalityType DEF Init
<1>2. OnceIn(poolQ, Buffers)
  <2>1. poolQ \in Surjection(1..Cardinality(Frames), Frames)
    BY <1>1 DEF Surjection, Range
  <2>2. IsFiniteSet(1..Cardinality(Frames))
        /\ Cardinality(1..Cardinality(Frames)) = Cardinality(Frames)
    <3>1. 1 \in Int /\ Cardinality(Frames) \in Int
      BY <1>1
    <3>2. /\ IsFiniteSet(1..Cardinality(Frames))
          /\ Cardinality(1..Cardinality(Frames))
               = IF 1 > Cardinality(Frames) THEN 0 ELSE Cardinality(Frames) - 1 + 1
      BY <3>1, FS_Interval
    <3> QED
      BY <1>1, <3>2
  <2>3. poolQ \in Injection(1..Cardinality(Frames), Frames)
    BY <2>1, <2>2, FS_SurjSameCardinalityImpliesInj
  <2> QED
    BY <1>1, <2>3 DEF Injection, IsInjective, OnceIn
<1>3. /\ evPool = Events /\ gpu = {} /\ lost = {} /\ locked = None
      /\ cbQ = <<>> /\ outQ = <<>>
      /\ \A t \in Threads : cur[t] = None /\ hand[t] = None
  BY DEF Init
<1>4. Range(cbQ) = {} /\ Range(outQ) = {} /\ OnceIn(cbQ, Buffers) /\ OnceIn(outQ, Buffers)
  BY <1>3 DEF Range, OnceIn
<1>5. ASSUME NEW b \in Frames, NEW r \in Spots PROVE In(b, r) <=> r = Spot("poolQ")
  BY <1>1, <1>3, <1>4 DEF In, Spots, Spot
<1>6. ASSUME NEW b \in Events, NEW r \in Spots PROVE In(b, r) <=> r = Spot("evPool")
  BY <1>1, <1>3, <1>4 DEF In, Spots, Spot
<1>7. Placed
  BY <1>5, <1>6, SpotTypes DEF Placed, Buffers
<1> QED
  BY <1>2, <1>3, <1>4, <1>7 DEF PlaceInv, NoRepeats, HandEmpty

\* Every step moves headers one at a time, from the place where they are.
LEMMA NextPlaced ==
  ASSUME IInv, PlaceInv, [Next]_vars
  PROVE  PlaceInv'
<1>1. ASSUME NEW t \in Threads, Callback(t) PROVE PlaceInv'
  BY <1>1, OthersQuiet, QuietPlaced, DisplacePlaced, ReleaseExistingPlaced, GetNewPlaced,
     SendNewPlaced, PutOutputPlaced, ReturnFromCallbackPlaced DEF Callback
<1>2. CASE App
  <2> "app" \in Threads
    BY DEF Threads
  <2> QED
    BY <1>1, <1>2, OthersQuiet, QuietPlaced, FillPortPlaced, DrainTakePlaced,
       BeginReadFramePlaced, EndReadFramePlaced DEF App, AppCall
<1>3. CASE ActionThread
  <2> "action" \in Threads
    BY DEF Threads
  <2> QED
    BY <1>1, <1>3, OthersQuiet, QuietPlaced, ActionTakePlaced DEF ActionThread
<1>4. CASE \E b \in Frames : DeliverFrame(b) \/ ReturnUnfilled(b)
  BY <1>4, DeliverFramePlaced, ReturnUnfilledPlaced
<1>5. CASE \E e \in Events : DeliverEvent(e)
  BY <1>5, DeliverEventPlaced
<1>6. CASE UNCHANGED vars
  BY <1>6, OthersQuiet, QuietPlaced
<1> QED
  BY <1>2, <1>3, <1>4, <1>5, <1>6 DEF Next, Ended

-----------------------------------------------------------------------------
(* Where the threads are.                                                   *)

LEMMA InitStage == Init => StageInv
BY BufferAssumption DEF Init, StageInv, Roles, Closing, Opening, Draining, Closed, Threads,
    AppOnly, Disabling, Resending

\* A thread goes on within its callback or its recycling.
LEMMA GoesOnStaged ==
  ASSUME StageInv, NEW t \in Threads, \A u \in Threads : u # t => pc'[u] = pc[u],
         UNCHANGED <<cbQ, port, cur, capturing, actLock>>, poolQ = <<>> => poolQ' = <<>>,
         pc[t] \in InCallback \cup Resending, pc'[t] \in InCallback \cup Resending \cup {"ready"},
         pc'[t] = "ready" => t = "app", cur[t] # None \/ t = "app"
  PROVE  StageInv'
<1> USE DEF port, InCallback, Resending, AppOnly, Disabling, Threads
<1>1. \A u \in Threads, l \in (AppOnly \ {"ready"}) \cup {"idle", "loop"} :
        pc'[u] = l <=> pc[u] = l
  OBVIOUS
<1>2. Roles'
  BY DEF StageInv, Roles
<1>3. Draining' = Draining /\ Closed' = Closed
  BY <1>1 DEF Draining, Closed
<1>4. Closing'
  BY <1>1, <1>3 DEF StageInv, Closing
<1>5. Opening'
  BY <1>1 DEF StageInv, Opening
<1> QED
  BY <1>2, <1>4, <1>5 DEF StageInv

\* Where the threads are and what the port still has agree after every step.
LEMMA NextStage ==
  ASSUME IInv, StageInv, [Next]_vars
  PROVE  StageInv'
<1> USE BufferAssumption
<1> USE DEF Buffers, Threads, InCallback, AppOnly, Disabling, Resending,
            At, Goto, queues, port, threads, context, numbers, faults
<1> USE DEF StageInv, Roles, Closing, Draining, Closed, Opening, IInv, TypeOK, ThreadTypes,
            FlagTypes, BufferTypes, NumberTypes, Between, InHand, LockHeld
<1>1. ASSUME NEW t \in Threads, CheckLength(t) PROVE StageInv'
  BY <1>1 DEF CheckLength
<1>2. ASSUME NEW t \in Threads, Displace(t) PROVE StageInv'
  <2>1. /\ \A u \in Threads : u # t => pc'[u] = pc[u]
        /\ UNCHANGED <<cbQ, poolQ, port, cur, capturing, actLock>>
        /\ pc[t] = "displace" /\ pc'[t] \in {"put", "release"} /\ cur[t] # None
    BY <1>2 DEF Displace, AfterMiss
  <2> HIDE DEF StageInv
  <2> QED
    BY <2>1, GoesOnStaged
<1>3. ASSUME NEW t \in Threads, ReleaseExisting(t) PROVE StageInv'
  BY <1>3 DEF ReleaseExisting, Release
<1>4. ASSUME NEW t \in Threads, CheckEnabled(t) PROVE StageInv'
  BY <1>4 DEF CheckEnabled, PortOpen, Resume
<1>5. ASSUME NEW t \in Threads, GetNew(t) PROVE StageInv'
  <2>1. /\ \A u \in Threads : u # t => pc'[u] = pc[u]
        /\ UNCHANGED <<cbQ, port, cur, capturing, actLock>>
        /\ poolQ = <<>> => poolQ' = <<>>
        /\ pc[t] = "get"
        /\ pc'[t] = "send" \/ pc'[t] = Resume(t)
    BY <1>5 DEF GetNew
  <2>2. cur[t] # None \/ t = "app"
    BY <2>1
  <2>3. pc'[t] \in {"send", "put", "ready"} /\ (pc'[t] = "ready" => t = "app")
    BY <2>1, <2>2 DEF Resume
  <2> HIDE DEF StageInv
  <2> QED
    BY <2>1, <2>2, <2>3, GoesOnStaged
<1>6. ASSUME NEW t \in Threads, SendNew(t) PROVE StageInv'
  BY <1>6 DEF SendNew, SendOK, SendRefused, Resume
<1>7. ASSUME NEW t \in Threads, PutOutput(t) PROVE StageInv'
  BY <1>7 DEF PutOutput
<1>8. ASSUME NEW t \in Threads, ReturnFromCallback(t) PROVE StageInv'
  BY <1>8 DEF ReturnFromCallback
<1>9. ASSUME NEW t \in Threads, FaultOnFreedQueue(t) PROVE StageInv'
  BY <1>9 DEF FaultOnFreedQueue
<1>10. ASSUME NEW b \in Frames, DeliverFrame(b) PROVE StageInv'
  BY <1>10 DEF DeliverFrame
<1>11. ASSUME NEW b \in Frames, ReturnUnfilled(b) PROVE StageInv'
  BY <1>11 DEF ReturnUnfilled
<1>12. ASSUME NEW e \in Events, DeliverEvent(e) PROVE StageInv'
  BY <1>12 DEF DeliverEvent
<1>13. ASSUME ActionTake PROVE StageInv'
  BY <1>13 DEF ActionTake, TakeCallback
<1>14. ASSUME DrainTake PROVE StageInv'
  BY <1>14 DEF DrainTake, TakeCallback
<1>15. ASSUME FillPort PROVE StageInv'
  BY <1>15 DEF FillPort, SendOK, SendRefused
<1>16. ASSUME BeginReadFrame PROVE StageInv'
  BY <1>16 DEF BeginReadFrame
<1>17. ASSUME EndReadFrame PROVE StageInv'
  BY <1>17 DEF EndReadFrame, Release, Unlock
<1>18. ASSUME OutputQueueFails PROVE StageInv'
  BY <1>18 DEF OutputQueueFails
<1>19. ASSUME ActionLock PROVE StageInv'
  BY <1>19 DEF ActionLock
<1>20. ASSUME ActionUnlock PROVE StageInv'
  BY <1>20 DEF ActionUnlock
<1>21. ASSUME PortFilled PROVE StageInv'
  BY <1>21 DEF PortFilled
<1>22. ASSUME CreateOutputQueue PROVE StageInv'
  BY <1>22 DEF CreateOutputQueue
<1>23. ASSUME StartCapture PROVE StageInv'
  BY <1>23 DEF StartCapture
<1>24. ASSUME DestroyOutputQueue PROVE StageInv'
  BY <1>24 DEF DestroyOutputQueue
<1>25. ASSUME PoolDestroy PROVE StageInv'
  BY <1>25 DEF PoolDestroy
<1>26. ASSUME DisablePort PROVE StageInv'
  BY <1>26 DEF DisablePort
<1>27. ASSUME LockAction PROVE StageInv'
  BY <1>27 DEF LockAction
<1>28. ASSUME VCDisabled PROVE StageInv'
  BY <1>28 DEF VCDisabled
<1>29. ASSUME WaitTransit PROVE StageInv'
  BY <1>29 DEF WaitTransit
<1>30. ASSUME FreePool PROVE StageInv'
  BY <1>30 DEF FreePool
<1>31. ASSUME DrainDone PROVE StageInv'
  <2>1. actLock = "app"
    BY <1>31 DEF DrainDone
  <2>2. pc["action"] = "idle"
    BY <2>1 DEF Labels
  <2> QED
    BY <1>31, <2>1, <2>2 DEF DrainDone, Drained
<1>32. ASSUME UNCHANGED vars PROVE StageInv'
  BY <1>32 DEF vars
<1> HIDE DEF StageInv
<1>33. ASSUME NEW t \in Threads, Callback(t) PROVE StageInv'
  BY <1>33, <1>1, <1>2, <1>3, <1>4, <1>5, <1>6, <1>7, <1>8, <1>9 DEF Callback
<1>34. ASSUME AppCall PROVE StageInv'
  BY <1>34, <1>14, <1>15, <1>18, <1>19, <1>20, <1>21, <1>22, <1>23, <1>24, <1>25, <1>26, <1>27,
      <1>28, <1>29, <1>30, <1>31, <1>33 DEF AppCall
<1> QED
  BY <1>10, <1>11, <1>12, <1>13, <1>14, <1>15, <1>16, <1>17, <1>18, <1>19, <1>20, <1>21, <1>22,
      <1>23, <1>24, <1>25, <1>26, <1>27, <1>28, <1>29, <1>30, <1>31, <1>32, <1>33, <1>34
      DEF Next, App, ActionThread, Ended

LEMMA PlacesAndStages == Spec => [](IInv /\ PlaceInv /\ StageInv)
<1>1. Init => IInv /\ PlaceInv /\ StageInv
  BY InitIInv, InitPlaced, InitStage
<1>2. IInv /\ PlaceInv /\ StageInv /\ [Next]_vars => (IInv /\ PlaceInv /\ StageInv)'
  BY NextIInv, NextPlaced, NextStage
<1> QED
  BY <1>1, <1>2, PTL DEF Spec

\* mmal_port_disable and IN_TRANSIT_WAIT leave nothing of the port behind for
\* mmal_pool_destroy to free under someone's hands: for any number of headers,
\* when Release gets there the device, the callback queue and the action thread
\* are done with them.
THEOREM PoolFreedQuiet == Spec => []PoolFreedQuiescent
<1>1. IInv /\ StageInv => PoolFreedQuiescent
  <2> SUFFICES ASSUME IInv, StageInv, pc["app"] \in {"poolFree", "closed"}
               PROVE  /\ gpu = {} /\ cbQ = <<>> /\ transit = 0
                      /\ pc["action"] = "idle" /\ cur["action"] = None
      BY DEF PoolFreedQuiescent
  <2> QED
    BY DEF StageInv, Closing, Closed, IInv, Between, Threads
<1> QED
  BY PlacesAndStages, <1>1, PTL

LEMMA HolderIsSpot ==
  ASSUME IInv, PlaceInv
  PROVE  OneHolder
<1> SUFFICES ASSUME NEW b \in Buffers
             PROVE  \E p \in Whereabouts(b) : Whereabouts(b) = {p}
    BY DEF OneHolder
<1>1. PICK p \in Spots : \A r \in Spots : In(b, r) <=> r = p
  BY DEF PlaceInv, Placed
<1> DEFINE places(s) == {j \in DOMAIN s : s[j] = b}
           Pool  == {<<"poolQ", i>> : i \in places(poolQ)}
           Calls == {<<"cbQ", i>> : i \in places(cbQ)}
           Out   == {<<"outQ", i>> : i \in places(outQ)}
           Curs  == {<<"cur", t>> : t \in {u \in Threads : cur[u] = b /\ pc[u] # "return"}}
           Hands == {<<"hand", t>> : t \in {u \in Threads : hand[u] = b}}
           Gpu   == {<<"gpu", x>> : x \in gpu \cap {b}}
           Event == {<<"evPool", x>> : x \in evPool \cap {b}}
           Lock  == {<<"locked", x>> : x \in {locked} \cap {b}}
           Lost  == {<<"lost", x>> : x \in lost \cap {b}}
<1>2. \A k \in {"poolQ", "evPool", "gpu", "cbQ", "outQ", "locked", "lost"} :
        In(b, Spot(k)) <=> p = Spot(k)
  BY <1>1, SpotTypes
<1>3. /\ b \in Range(poolQ) <=> p = Spot("poolQ")
      /\ b \in evPool <=> p = Spot("evPool")
      /\ b \in gpu <=> p = Spot("gpu")
      /\ b \in Range(cbQ) <=> p = Spot("cbQ")
      /\ b \in Range(outQ) <=> p = Spot("outQ")
      /\ b = locked <=> p = Spot("locked")
      /\ b \in lost <=> p = Spot("lost")
  BY <1>2 DEF In, Spot
<1>4. ASSUME NEW s \in Seq(Buffers), OnceIn(s, Buffers)
      PROVE  /\ b \in Range(s) => \E i : places(s) = {i}
             /\ b \notin Range(s) => places(s) = {}
  <2>1. /\ b \in Range(s) => \E i \in DOMAIN s : {j \in DOMAIN s : s[j] = b} = {i}
        /\ b \notin Range(s) => {j \in DOMAIN s : s[j] = b} = {}
    BY <1>4, OncePosition, Zenon
  <2> QED
    BY <2>1, Zenon
<1>5. /\ IF p = Spot("poolQ") THEN \E x : Pool = {x} ELSE Pool = {}
      /\ IF p = Spot("cbQ") THEN \E x : Calls = {x} ELSE Calls = {}
      /\ IF p = Spot("outQ") THEN \E x : Out = {x} ELSE Out = {}
  <2>1. poolQ \in Seq(Buffers) /\ cbQ \in Seq(Buffers) /\ outQ \in Seq(Buffers)
    BY DEF IInv, TypeOK, BufferTypes, Buffers
  <2>2. OnceIn(poolQ, Buffers) /\ OnceIn(cbQ, Buffers) /\ OnceIn(outQ, Buffers)
    BY DEF PlaceInv, NoRepeats
  <2> HIDE DEF places
  <2>3. IF p = Spot("poolQ") THEN \E x : Pool = {x} ELSE Pool = {}
    <3>1. IF p = Spot("poolQ") THEN \E i : places(poolQ) = {i} ELSE places(poolQ) = {}
      BY <1>3, <1>4, <2>1, <2>2, Zenon
    <3>2. CASE p = Spot("poolQ")
      <4>1. PICK i : places(poolQ) = {i}
        BY <3>1, <3>2
      <4>2. Pool = {<<"poolQ", i>>}
        BY <4>1
      <4> QED
        BY <3>2, <4>2
    <3>3. CASE p # Spot("poolQ")
      <4>1. Pool = {}
        BY <3>1, <3>3
      <4> QED
        BY <3>3, <4>1
    <3> QED
      BY <3>2, <3>3
  <2>4. IF p = Spot("cbQ") THEN \E x : Calls = {x} ELSE Calls = {}
    <3>1. IF p = Spot("cbQ") THEN \E i : places(cbQ) = {i} ELSE places(cbQ) = {}
      BY <1>3, <1>4, <2>1, <2>2, Zenon
    <3>2. CASE p = Spot("cbQ")
      <4>1. PICK i : places(cbQ) = {i}
        BY <3>1, <3>2
      <4>2. Calls = {<<"cbQ", i>>}
        BY <4>1
      <4> QED
        BY <3>2, <4>2
    <3>3. CASE p # Spot("cbQ")
      <4>1. Calls = {}
        BY <3>1, <3>3
      <4> QED
        BY <3>3, <4>1
    <3> QED
      BY <3>2, <3>3
  <2>5. IF p = Spot("outQ") THEN \E x : Out = {x} ELSE Out = {}
    <3>1. IF p = Spot("outQ") THEN \E i : places(outQ) = {i} ELSE places(outQ) = {}
      BY <1>3, <1>4, <2>1, <2>2, Zenon
    <3>2. CASE p = Spot("outQ")
      <4>1. PICK i : places(outQ) = {i}
        BY <3>1, <3>2
      <4>2. Out = {<<"outQ", i>>}
        BY <4>1
      <4> QED
        BY <3>2, <4>2
    <3>3. CASE p # Spot("outQ")
      <4>1. Out = {}
        BY <3>1, <3>3
      <4> QED
        BY <3>3, <4>1
    <3> QED
      BY <3>2, <3>3
  <2> QED
    BY <2>3, <2>4, <2>5
<1>6. /\ IF p = Spot("gpu") THEN \E x : Gpu = {x} ELSE Gpu = {}
      /\ IF p = Spot("evPool") THEN \E x : Event = {x} ELSE Event = {}
      /\ IF p = Spot("locked") THEN \E x : Lock = {x} ELSE Lock = {}
      /\ IF p = Spot("lost") THEN \E x : Lost = {x} ELSE Lost = {}
  BY <1>3
<1>7. /\ IF p \in {"cur"} \X Threads THEN \E x : Curs = {x} ELSE Curs = {}
      /\ IF p \in {"hand"} \X Threads THEN \E x : Hands = {x} ELSE Hands = {}
  <2>1. \A t \in Threads : (cur[t] = b /\ pc[t] # "return") <=> p = <<"cur", t>>
    BY <1>1, SpotTypes DEF In
  <2>2. \A t \in Threads : hand[t] = b <=> p = <<"hand", t>>
    BY <1>1, SpotTypes DEF In
  <2>3. Curs = {<<"cur", t>> : t \in {u \in Threads : p = <<"cur", u>>}}
    BY <2>1
  <2>4. Hands = {<<"hand", t>> : t \in {u \in Threads : p = <<"hand", u>>}}
    BY <2>2
  <2> HIDE DEF Curs, Hands
  <2>5. ASSUME NEW k
        PROVE  LET X == {<<k, t>> : t \in {u \in Threads : p = <<k, u>>}}
               IN  IF p \in {k} \X Threads THEN X = {p} ELSE X = {}
    OBVIOUS
  <2> QED
    BY <2>3, <2>4, <2>5
<1>8. Whereabouts(b) = Pool \cup Calls \cup Out \cup Curs \cup Hands \cup Gpu \cup Event
                         \cup Lock \cup Lost
  BY Zenon DEF Whereabouts
<1> HIDE DEF Pool, Calls, Out, Curs, Hands, Gpu, Event, Lock, Lost
<1>9. CASE \E k \in {"poolQ", "cbQ", "outQ", "evPool", "gpu", "locked", "lost"} : p = Spot(k)
  <2>1. p \notin {"cur"} \X Threads /\ p \notin {"hand"} \X Threads
    BY <1>9 DEF Spot
  <2>2. \A k, j : Spot(k) = Spot(j) => k = j
    BY DEF Spot
  <2> QED
    BY <1>5, <1>6, <1>7, <1>8, <1>9, <2>1, <2>2
<1>10. CASE p \in {"cur", "hand"} \X Threads
  <2>1. \A k : p # Spot(k)
    BY <1>10, BufferAssumption DEF Spot, Threads
  <2>2. \/ p \in {"cur"} \X Threads /\ p \notin {"hand"} \X Threads
        \/ p \notin {"cur"} \X Threads /\ p \in {"hand"} \X Threads
    BY <1>10
  <2> QED
    BY <1>5, <1>6, <1>7, <1>8, <2>1, <2>2
<1> QED
  BY <1>9, <1>10 DEF Spots, Spot

\* No interleaving of OnVideoBufferCallback on either thread, EndReadFrame and
\* Release duplicates or mislays a buffer header, for any number of headers: each
\* is in one queue at one position, or with one thread, or with the device.
THEOREM HeadersUnique == Spec => []OneHolder
BY PlacesAndStages, HolderIsSpot, PTL

-----------------------------------------------------------------------------
(* How many headers there are in the port, and idle in the pool.            *)

LEMMA TransitSum ==
  TransitExact <=>
    transit = Cardinality(gpu) + Cardinality(PlacesOf(cbQ, Frames)) + Cardinality(InCall)
BY DEF TransitExact, PlacesOf, InCall

LEMMA ThreadsFinite == IsFiniteSet(Threads) /\ Cardinality(Threads) \in Nat
<1>1. IsFiniteSet({"app"}) /\ Threads = {"app"} \cup {"action"}
  BY FS_Singleton DEF Threads
<1> QED
  BY <1>1, FS_AddElement, FS_CardinalityType

LEMMA PortCounts ==
  ASSUME IInv
  PROVE  /\ IsFiniteSet(gpu) /\ Cardinality(gpu) \in Nat
         /\ cbQ \in Seq(Buffers) /\ Cardinality(PlacesOf(cbQ, Frames)) \in Nat
         /\ IsFiniteSet(InCall) /\ Cardinality(InCall) \in Nat
<1>1. gpu \subseteq Frames /\ IsFiniteSet(Frames) /\ cbQ \in Seq(Buffers)
  BY BufferAssumption DEF IInv, TypeOK, BufferTypes
<1>2. IsFiniteSet(InCall)
  BY ThreadsFinite, FS_Subset DEF InCall
<1> QED
  BY <1>1, <1>2, FS_Subset, FS_CardinalityType, CountType

\* What one thread does changes what the threads have by that thread at most.
LEMMA InCallStep ==
  ASSUME IInv, NEW t \in Threads, \A u \in Threads : u # t => cur'[u] = cur[u]
  PROVE  Cardinality(InCall') =
           Cardinality(InCall) + One(cur'[t] \in Frames) - One(cur[t] \in Frames)
<1>1. InCall' \ {t} = InCall \ {t}
  BY DEF InCall, Threads
<1>2. (t \in InCall' <=> cur'[t] \in Frames) /\ (t \in InCall <=> cur[t] \in Frames)
  BY DEF InCall, Threads
<1> QED
  BY <1>1, <1>2, DifferInOne, PortCounts DEF One

LEMMA NextTransit ==
  ASSUME IInv, PlaceInv, TransitExact, [Next]_vars
  PROVE  TransitExact'
<1> USE BufferAssumption
<1> USE DEF At, Goto, queues, port, threads, context, numbers, faults
<1> DEFINE Calls == Cardinality(PlacesOf(cbQ, Frames))
<1>0. transit = Cardinality(gpu) + Calls + Cardinality(InCall)
  BY TransitSum
<1>1. ASSUME UNCHANGED <<gpu, cbQ, cur, transit>> PROVE TransitExact'
  BY <1>1 DEF TransitExact, Threads
<1>2. ASSUME transit' = Cardinality(gpu') + Calls' + Cardinality(InCall') PROVE TransitExact'
  BY <1>2 DEF TransitExact, PlacesOf, InCall, Threads
<1>3. ASSUME NEW b \in Frames, DeliverFrame(b) \/ ReturnUnfilled(b) PROVE TransitExact'
  <2>1. /\ b \in gpu /\ gpu' = gpu \ {b} /\ cbQ' = Append(cbQ, b) /\ b \in Buffers
        /\ transit' = transit /\ InCall' = InCall
    BY <1>3 DEF DeliverFrame, ReturnUnfilled, InCall, Buffers, Threads
  <2>2. Cardinality(gpu') = Cardinality(gpu) - 1
    BY <2>1, PortCounts, FS_RemoveElement
  <2>3. Calls' = Calls + 1
    BY <2>1, PortCounts, CountAppend DEF One
  <2> QED
    BY <1>0, <1>2, <2>1, <2>2, <2>3, PortCounts
<1>4. ASSUME NEW e \in Events, DeliverEvent(e) PROVE TransitExact'
  <2>1. cbQ' = Append(cbQ, e) /\ e \in Buffers /\ e \notin Frames
    BY <1>4 DEF DeliverEvent, Buffers
  <2>2. Calls' = Calls
    BY <2>1, PortCounts, CountAppend DEF One
  <2>3. gpu' = gpu /\ transit' = transit /\ InCall' = InCall
    BY <1>4 DEF DeliverEvent, InCall, Threads
  <2> QED
    BY <1>0, <1>2, <2>2, <2>3
<1>5. ASSUME NEW t \in Threads, TakeCallback(t), cur[t] = None PROVE TransitExact'
  <2>1. /\ cbQ # <<>> /\ cbQ' = Tail(cbQ) /\ cur'[t] = Head(cbQ)
        /\ \A u \in Threads : u # t => cur'[u] = cur[u]
        /\ gpu' = gpu /\ transit' = transit
    BY <1>5 DEF TakeCallback, IInv, TypeOK, ThreadTypes
  <2>2. Calls' = Calls - One(Head(cbQ) \in Frames)
    BY <2>1, PortCounts, CountTail
  <2>3. Cardinality(InCall') = Cardinality(InCall) + One(Head(cbQ) \in Frames) - 0
    BY <1>5, <2>1, InCallStep DEF One
  <2>4. One(Head(cbQ) \in Frames) \in Nat
    BY DEF One
  <2> QED
    BY <1>0, <1>2, <2>1, <2>2, <2>3, <2>4, PortCounts
<1>6. ASSUME NEW b, b \notin gpu, SendOK(b), UNCHANGED <<cbQ, cur>> PROVE TransitExact'
  <2>1. Cardinality(gpu') = Cardinality(gpu) + 1
    BY <1>6, PortCounts, FS_AddElement DEF SendOK
  <2> QED
    BY <1>0, <1>2, <1>6, <2>1, PortCounts DEF SendOK, InCall, Threads, PlacesOf
<1>7. ASSUME NEW t \in Threads, SendNew(t) PROVE TransitExact'
  <2>1. hand[t] \in Buffers /\ In(hand[t], <<"hand", t>>)
    BY <1>7 DEF SendNew, IInv, InHand, Buffers, In
  <2>2. \A r \in Spots : In(hand[t], r) <=> r = <<"hand", t>>
    BY <2>1, Alone, SpotTypes DEF PlaceInv
  <2>3. hand[t] \notin gpu
    BY <2>2, SpotTypes DEF In, Spot
  <2> QED
    BY <1>1, <1>6, <1>7, <2>3 DEF SendNew, SendRefused
<1>8. ASSUME FillPort PROVE TransitExact'
  <2>1. poolQ \in Seq(Frames) /\ poolQ # <<>>
    BY <1>8 DEF FillPort, IInv, TypeOK, BufferTypes
  <2>2. Head(poolQ) \in Buffers /\ Head(poolQ) \in Range(poolQ)
    BY <2>1, TailElements DEF Buffers
  <2>3. Head(poolQ) \notin gpu
    BY <2>2, Alone, SpotTypes DEF PlaceInv, In, Spot
  <2> QED
    BY <1>1, <1>6, <1>8, <2>3 DEF FillPort, SendRefused
<1>9. ASSUME NEW t \in Threads, ReturnFromCallback(t) PROVE TransitExact'
  <2>1. /\ cur'[t] = None /\ \A u \in Threads : u # t => cur'[u] = cur[u]
        /\ gpu' = gpu /\ cbQ' = cbQ
        /\ transit' = transit - One(cur[t] \in Frames)
    BY <1>9 DEF ReturnFromCallback, Counted, IInv, TypeOK, ThreadTypes, NumberTypes, One
  <2>2. Cardinality(InCall') = Cardinality(InCall) + 0 - One(cur[t] \in Frames)
    BY <2>1, InCallStep DEF One
  <2>3. One(cur[t] \in Frames) \in Nat
    BY DEF One
  <2> QED
    BY <1>0, <1>2, <2>1, <2>2, <2>3, PortCounts
<1>10. ASSUME ActionTake \/ DrainTake PROVE TransitExact'
  BY <1>5, <1>10 DEF ActionTake, DrainTake, Threads, IInv, Between, AppOnly, Disabling
<1>11. ASSUME NEW t \in Threads, Callback(t) PROVE TransitExact'
  BY <1>1, <1>7, <1>9, <1>11 DEF Callback, CheckLength, Displace, ReleaseExisting, CheckEnabled,
     GetNew, PutOutput, FaultOnFreedQueue
<1>12. ASSUME ActionThread PROVE TransitExact'
  BY <1>1, <1>10, <1>11, <1>12 DEF ActionThread, ActionLock, ActionUnlock, Threads
<1>13. ASSUME AppCall PROVE TransitExact'
  BY <1>1, <1>8, <1>10, <1>11, <1>13 DEF AppCall, Threads, PortFilled, CreateOutputQueue,
     OutputQueueFails, StartCapture, PoolDestroy, DisablePort, LockAction, VCDisabled, DrainDone,
     WaitTransit, FreePool
<1>14. ASSUME BeginReadFrame \/ EndReadFrame \/ DestroyOutputQueue \/ UNCHANGED vars
       PROVE  TransitExact'
  BY <1>1, <1>14 DEF BeginReadFrame, EndReadFrame, DestroyOutputQueue, vars
<1> QED
  BY <1>3, <1>4, <1>12, <1>13, <1>14 DEF Next, App, Ended

LEMMA InitTransit == Init => TransitExact
<1> SUFFICES ASSUME Init PROVE TransitExact
  OBVIOUS
<1>1. gpu = {} /\ cbQ = <<>> /\ transit = 0 /\ InCall = {}
  BY BufferAssumption DEF Init, InCall
<1>2. <<>> \in Seq(Buffers)
  OBVIOUS
<1>3. Cardinality({}) = 0 /\ Cardinality(PlacesOf(<<>>, Frames)) = 0
  BY <1>2, CountType, FS_EmptySet
<1> QED
  BY <1>1, <1>3, TransitSum

\* A thread that enters or leaves the two steps that recycle a header
LEMMA RecyclingStep ==
  ASSUME NEW t \in Threads, \A u \in Threads : u # t => pc'[u] = pc[u]
  PROVE  /\ Cardinality(Recycling) \in Nat
         /\ Cardinality(Recycling') =
              Cardinality(Recycling) + One(pc'[t] \in {"enabled", "get"})
                                     - One(pc[t] \in {"enabled", "get"})
<1>1. Recycling' \ {t} = Recycling \ {t}
  BY DEF Recycling, Threads
<1>2. /\ t \in Recycling' <=> pc'[t] \in {"enabled", "get"}
      /\ t \in Recycling <=> pc[t] \in {"enabled", "get"}
  BY DEF Recycling, Threads
<1>3. IsFiniteSet(Recycling)
  BY ThreadsFinite, FS_Subset DEF Recycling
<1> QED
  BY <1>1, <1>2, <1>3, DifferInOne DEF One

LEMMA RecyclingSame ==
  ASSUME \A t \in Threads : pc'[t] \in {"enabled", "get"} <=> pc[t] \in {"enabled", "get"}
  PROVE  Recycling' = Recycling
BY DEF Recycling, Threads

LEMMA RecyclingCount == Cardinality(Recycling) \in Nat /\ IsFiniteSet(Recycling)
BY ThreadsFinite, FS_Subset, FS_CardinalityType DEF Recycling

\* Each thread that releases a header goes on to take one: what the pool queue
\* has and what the threads are about to take from it change together.
LEMMA NextBalanced ==
  ASSUME IInv, StageInv, Balanced, [Next]_vars
  PROVE  Balanced'
<1> USE BufferAssumption
<1> USE DEF At, Goto, queues, port, threads, context, numbers, faults
<1>0. /\ pc \in [Threads -> Labels] /\ poolQ \in Seq(Frames) /\ Len(poolQ) \in Nat
      /\ Cardinality(Recycling) \in Nat
  BY RecyclingCount, SeqDomain DEF IInv, TypeOK, ThreadTypes, BufferTypes
<1>1. ASSUME UNCHANGED <<poolQ, capturing>>, enabled' => enabled,
             \A t \in Threads : pc'[t] \in {"enabled", "get"} <=> pc[t] \in {"enabled", "get"}
      PROVE  Balanced'
  <2>1. Recycling' = Recycling
    BY <1>1, RecyclingSame
  <2> QED
    BY <1>1, <2>1 DEF Balanced, Supplied
<1>2. ASSUME NEW t \in Threads, NEW b \in Buffers, Release(b), UNCHANGED <<capturing, enabled>>,
             \A u \in Threads : u # t => pc'[u] = pc[u],
             pc[t] \notin {"enabled", "get"}, pc'[t] = "enabled"
      PROVE  Balanced'
  <2>1. Cardinality(Recycling') = Cardinality(Recycling) + 1
    BY <1>0, <1>2, RecyclingStep DEF One
  <2>2. Len(poolQ') = Len(poolQ) + One(b \in Frames)
    BY <1>0, <1>2, AppendParts DEF Release, One
  <2>3. b \notin Frames => Events # {}
    BY DEF Buffers
  <2> QED
    BY <1>0, <1>2, <2>1, <2>2, <2>3 DEF Balanced, Supplied, One
<1>3. ASSUME NEW t \in Threads, CheckEnabled(t) PROVE Balanced'
  <2>1. \A u \in Threads : u # t => pc'[u] = pc[u]
    BY <1>0, <1>3 DEF CheckEnabled
  <2>2. CASE enabled
    BY <1>0, <1>1, <1>3, <2>2 DEF CheckEnabled, PortOpen
  <2>3. CASE ~enabled
    <3>1. pc[t] = "enabled" /\ pc'[t] \notin {"enabled", "get"} /\ poolQ' = poolQ
          /\ enabled' = enabled
      BY <1>0, <1>3, <2>3 DEF CheckEnabled, PortOpen, Resume
    <3>2. Cardinality(Recycling') = Cardinality(Recycling) - 1
      BY <1>0, <2>1, <3>1, RecyclingStep DEF One
    <3> QED
      BY <1>0, <2>3, <3>1, <3>2 DEF Balanced, Supplied
  <2> QED
    BY <2>2, <2>3
<1>4. ASSUME NEW t \in Threads, GetNew(t) PROVE Balanced'
  <2>1. /\ pc[t] = "get" /\ pc'[t] \notin {"enabled", "get"}
        /\ \A u \in Threads : u # t => pc'[u] = pc[u]
        /\ enabled' = enabled /\ capturing' = capturing
    BY <1>0, <1>4 DEF GetNew, Resume
  <2>2. Cardinality(Recycling') = Cardinality(Recycling) - 1 /\ Cardinality(Recycling') \in Nat
    <3>1. t \in Recycling
      BY <2>1 DEF Recycling
    <3>2. Cardinality(Recycling) # 0
      BY <3>1, RecyclingCount, FS_EmptySet
    <3> QED
      BY <1>0, <2>1, <3>2, RecyclingStep DEF One
  <2>3. CASE poolQ = <<>>
    <3>1. poolQ' = poolQ /\ Len(poolQ) = 0
      BY <1>0, <1>4, <2>3 DEF GetNew
    <3> QED
      BY <1>0, <2>1, <2>2, <3>1 DEF Balanced, Supplied
  <2>4. CASE poolQ # <<>>
    <3>1. Len(poolQ') = Len(poolQ) - 1
      BY <1>0, <1>4, <2>4, TailParts DEF GetNew
    <3> QED
      BY <1>0, <2>1, <2>2, <3>1 DEF Balanced, Supplied
  <2> QED
    BY <2>3, <2>4
<1>5. ASSUME FillPort PROVE Balanced'
  <2>1. Recycling = {} /\ Recycling' = {} /\ ~capturing /\ ~capturing'
    BY <1>0, <1>5 DEF FillPort, StageInv, Opening, Recycling, Threads
  <2>2. Len(poolQ') \in Nat
    BY <1>0, <1>5, TailParts DEF FillPort
  <2> QED
    BY <2>1, <2>2, FS_EmptySet DEF Balanced, Supplied
<1>6. ASSUME StartCapture PROVE Balanced'
  <2>1. poolQ = <<>> /\ poolQ' = poolQ /\ Len(poolQ) = 0
    BY <1>6 DEF StartCapture, StageInv, Opening
  <2>2. Recycling' = Recycling
    BY <1>0, <1>6, RecyclingSame DEF StartCapture, Threads
  <2> QED
    BY <1>0, <2>1, <2>2 DEF Balanced, Supplied
<1>7. ASSUME NEW t \in Threads, ReleaseExisting(t) PROVE Balanced'
  BY <1>0, <1>2, <1>7 DEF ReleaseExisting, IInv, InHand
<1>8. ASSUME EndReadFrame PROVE Balanced'
  <2>1. locked \in Buffers
    BY <1>8 DEF EndReadFrame, IInv, TypeOK, BufferTypes
  <2> QED
    BY <1>0, <1>2, <1>8, <2>1 DEF EndReadFrame, Threads
<1>9. ASSUME NEW t \in Threads, Callback(t) PROVE Balanced'
  <2>1. ASSUME CheckLength(t) \/ Displace(t) \/ SendNew(t) \/ PutOutput(t)
                 \/ ReturnFromCallback(t) \/ FaultOnFreedQueue(t)
        PROVE  Balanced'
    BY <1>0, <1>1, <2>1 DEF CheckLength, Displace, AfterMiss, SendNew, SendOK, SendRefused,
        Resume,
       PutOutput, ReturnFromCallback, FaultOnFreedQueue
  <2> QED
    BY <1>3, <1>4, <1>7, <1>9, <2>1 DEF Callback
<1>10. ASSUME ActionLock \/ ActionTake \/ ActionUnlock \/ DrainTake PROVE Balanced'
  BY <1>0, <1>1, <1>10 DEF ActionLock, ActionTake, ActionUnlock, DrainTake, TakeCallback, Threads
<1>11. ASSUME PortFilled \/ CreateOutputQueue \/ OutputQueueFails PROVE Balanced'
  BY <1>0, <1>1, <1>11 DEF PortFilled, CreateOutputQueue, OutputQueueFails, Threads
<1>12. ASSUME PoolDestroy \/ DisablePort \/ LockAction \/ VCDisabled \/ DestroyOutputQueue
       PROVE  Balanced'
  BY <1>0, <1>1, <1>12 DEF PoolDestroy, DisablePort, LockAction, VCDisabled, DestroyOutputQueue,
     Threads
<1>13. ASSUME DrainDone \/ WaitTransit \/ FreePool \/ BeginReadFrame \/ UNCHANGED vars
       PROVE  Balanced'
  BY <1>0, <1>1, <1>13 DEF DrainDone, WaitTransit, FreePool, BeginReadFrame, vars, Threads
<1>14. ASSUME \/ \E b \in Frames : DeliverFrame(b) \/ ReturnUnfilled(b)
              \/ \E e \in Events : DeliverEvent(e)
       PROVE  Balanced'
  BY <1>0, <1>1, <1>14 DEF DeliverFrame, ReturnUnfilled, DeliverEvent
<1>15. ASSUME App PROVE Balanced'
  <2> "app" \in Threads
    BY DEF Threads
  <2> QED
    BY <1>5, <1>6, <1>8, <1>9, <1>10, <1>11, <1>12, <1>13, <1>15 DEF App, AppCall
<1> QED
  <2> "action" \in Threads
    BY DEF Threads
  <2> QED
    BY <1>9, <1>10, <1>13, <1>14, <1>15 DEF Next, ActionThread, Ended

LEMMA InitBalanced == Init => Balanced
<1> SUFFICES ASSUME Init PROVE Balanced
  OBVIOUS
<1>1. Recycling = {} /\ ~capturing
  BY DEF Init, Recycling, Threads
<1>2. Cardinality(Frames) \in Nat /\ Len(poolQ) \in Nat
  <2>1. Cardinality(Frames) \in Nat
    BY BufferAssumption, FS_CardinalityType
  <2> QED
    BY <2>1, InitIInv, SeqDomain DEF IInv, TypeOK, BufferTypes
<1> QED
  BY <1>1, <1>2, FS_EmptySet DEF Balanced, Supplied

LEMMA CountsHold == Spec => [](IInv /\ PlaceInv /\ StageInv /\ TransitExact /\ Balanced)
<1>1. Init => TransitExact /\ Balanced
  BY InitTransit, InitBalanced
<1>2. IInv /\ PlaceInv /\ StageInv /\ TransitExact /\ Balanced /\ [Next]_vars
        => (TransitExact /\ Balanced)'
  BY NextTransit, NextBalanced
<1> QED
  BY <1>1, <1>2, PlacesAndStages, PTL DEF Spec

\* transit_buffer_headers is right at every step, for any number of headers, so
\* IN_TRANSIT_WAIT cannot return while a header of the port is out, nor wait for
\* one that came back: neither events nor the callbacks that mmal_port_disable
\* runs itself disturb the count.
THEOREM TransitCounted == Spec => []TransitExact
BY CountsHold, PTL

\* The two threads that recycle headers, OnVideoBufferCallback and EndReadFrame,
\* never leave one idle in the pool queue of an open port.
THEOREM NoHeaderStranded == Spec => []NoneStranded
<1>1. Balanced => NoneStranded
  BY DEF Balanced, NoneStranded, Recycling
<1> QED
  BY CountsHold, <1>1, PTL

\* When the component sends no events, each of the threads that recycle headers
\* finds one in the pool queue, even when both have released one before either
\* takes one.
THEOREM HeadersSuffice == Spec => []NoShortage
<1>1. IInv /\ Balanced => NoShortage
  <2> SUFFICES ASSUME IInv, Balanced, Events = {}, NEW t \in Threads, pc[t] = "get", poolQ = <<>>
               PROVE  FALSE
      BY DEF NoShortage
  <2>1. t \in Recycling
    BY DEF Recycling
  <2>2. Cardinality(Recycling) # 0 /\ Cardinality(Recycling) \in Nat
    BY <2>1, RecyclingCount, FS_EmptySet
  <2> QED
    BY <2>2 DEF Balanced, Supplied
<1> QED
  BY CountsHold, <1>1, PTL

-----------------------------------------------------------------------------
(* The order of the frames, and the mailbox.                                *)

LEMMA StampType ==
  ASSUME IInv
  PROVE  /\ clock \in 0..MaxStamp /\ lastRead \in 0..MaxStamp /\ MaxStamp \in Nat
         /\ \A b \in Buffers : stamp[b] \in 0..MaxStamp
         /\ stamp \in [Buffers -> 0..MaxStamp]
         /\ outQ \in Seq(Buffers) /\ cbQ \in Seq(Buffers)
BY BoundAssumption DEF IInv, TypeOK, NumberTypes, BufferTypes

LEMMA TakeOrder ==
  ASSUME NEW s \in Seq(Buffers), s # <<>>, Ascending(s), NEW n, After(s, n)
  PROVE  /\ Ascending(Tail(s)) /\ After(Tail(s), n)
         /\ After(Tail(s), stamp[Head(s)]) /\ Newer(stamp[Head(s)], n)
<1>1. /\ DOMAIN s = 1..Len(s) /\ Len(s) \in Nat /\ Len(s) >= 1 /\ Head(s) = s[1]
      /\ DOMAIN Tail(s) = 1..(Len(s) - 1)
      /\ \A i \in DOMAIN Tail(s) : Tail(s)[i] = s[i + 1] /\ i + 1 \in DOMAIN s
  BY TailParts
<1>2. ASSUME NEW i \in DOMAIN Tail(s), NEW j \in DOMAIN Tail(s), i < j
      PROVE  Newer(stamp[Tail(s)[j]], stamp[Tail(s)[i]])
  <2>1. i + 1 < j + 1
    BY <1>1, <1>2
  <2> QED
    BY <1>1, <2>1 DEF Ascending
<1>3. ASSUME NEW i \in DOMAIN Tail(s)
      PROVE  Newer(stamp[Tail(s)[i]], n) /\ Newer(stamp[Tail(s)[i]], stamp[Head(s)])
  <2>1. 1 < i + 1 /\ 1 \in DOMAIN s
    BY <1>1
  <2> QED
    BY <1>1, <2>1 DEF Ascending, After
<1>4. 1 \in DOMAIN s
  BY <1>1
<1> QED
  BY <1>1, <1>2, <1>3, <1>4 DEF Ascending, After

LEMMA AppendOrder ==
  ASSUME NEW s \in Seq(Buffers), NEW e \in Buffers, Ascending(s), Before(s, stamp[e]),
         NEW n, After(s, n), Newer(stamp[e], n)
  PROVE  Ascending(Append(s, e)) /\ After(Append(s, e), n)
<1>1. /\ DOMAIN s = 1..Len(s) /\ Len(s) \in Nat /\ DOMAIN Append(s, e) = 1..(Len(s) + 1)
      /\ \A i \in DOMAIN s : Append(s, e)[i] = s[i]
      /\ Append(s, e)[Len(s) + 1] = e
  BY AppendParts
<1>2. ASSUME NEW i \in DOMAIN Append(s, e), NEW j \in DOMAIN Append(s, e), i < j
      PROVE  Newer(stamp[Append(s, e)[j]], stamp[Append(s, e)[i]])
  <2>1. i \in DOMAIN s /\ (j \in DOMAIN s \/ j = Len(s) + 1)
    BY <1>1, <1>2
  <2> QED
    BY <1>1, <1>2, <2>1 DEF Ascending, Before
<1>3. ASSUME NEW i \in DOMAIN Append(s, e)
      PROVE  Newer(stamp[Append(s, e)[i]], n)
  <2>1. i \in DOMAIN s \/ i = Len(s) + 1
    BY <1>1
  <2> QED
    BY <1>1, <2>1 DEF After
<1> QED
  BY <1>2, <1>3 DEF Ascending, After

\* Where OutputQueue is in its life, after every step
LEMMA NextQueueStage ==
  ASSUME IInv, StageInv, QueueStage, [Next]_vars
  PROVE  QueueStage'
<1> USE BufferAssumption
<1> USE DEF Buffers, Threads, InCallback, AppOnly, Disabling, Resending,
            At, Goto, queues, port, threads, context, numbers, faults
<1> USE DEF QueueStage, StageInv, Roles, IInv, TypeOK, ThreadTypes, BufferTypes, Between, InHand
<1>1. ASSUME NEW t \in Threads, Callback(t) PROVE QueueStage'
  <2>1. CASE CheckLength(t) \/ CheckEnabled(t) \/ GetNew(t) \/ FaultOnFreedQueue(t)
    BY <2>1 DEF CheckLength, CheckEnabled, GetNew, FaultOnFreedQueue, Resume
  <2>2. CASE Displace(t) \/ ReleaseExisting(t)
    BY <2>2 DEF Displace, AfterMiss, ReleaseExisting
  <2>3. CASE SendNew(t)
    BY <2>3 DEF SendNew, Resume
  <2>4. CASE PutOutput(t) \/ ReturnFromCallback(t)
    BY <2>4 DEF PutOutput, ReturnFromCallback
  <2> QED
    BY <1>1, <2>1, <2>2, <2>3, <2>4 DEF Callback
<1>2. ASSUME ActionLock \/ ActionTake \/ ActionUnlock \/ DrainTake PROVE QueueStage'
  BY <1>2 DEF ActionLock, ActionTake, ActionUnlock, DrainTake, TakeCallback
<1>3. ASSUME FillPort \/ PortFilled \/ CreateOutputQueue \/ OutputQueueFails \/ StartCapture
      PROVE  QueueStage'
  BY <1>3 DEF FillPort, PortFilled, CreateOutputQueue, OutputQueueFails, StartCapture
<1>4. ASSUME PoolDestroy \/ DisablePort \/ LockAction \/ VCDisabled PROVE QueueStage'
  BY <1>4 DEF PoolDestroy, DisablePort, LockAction, VCDisabled
<1>5. ASSUME DrainDone \/ WaitTransit \/ FreePool PROVE QueueStage'
  BY <1>5 DEF DrainDone, WaitTransit, FreePool
<1>6. ASSUME BeginReadFrame \/ EndReadFrame \/ DestroyOutputQueue PROVE QueueStage'
  BY <1>6 DEF BeginReadFrame, EndReadFrame, DestroyOutputQueue
<1>7. ASSUME \/ \E b \in Frames : DeliverFrame(b) \/ ReturnUnfilled(b)
             \/ \E e \in Events : DeliverEvent(e)
             \/ UNCHANGED vars
      PROVE  QueueStage'
  BY <1>7 DEF DeliverFrame, ReturnUnfilled, DeliverEvent, vars
<1> HIDE DEF QueueStage
<1> QED
  BY <1>1, <1>2, <1>3, <1>4, <1>5, <1>6, <1>7 DEF Next, App, AppCall, ActionThread, Ended

\* The steps that give out a number
LEMMA Produces ==
  ASSUME IInv, PlaceInv, Numbered, NEW b \in Buffers,
         In(b, Spot("gpu")) \/ In(b, Spot("evPool")),
         clock' = NextStamp(clock), stamp' = [stamp EXCEPT ![b] = NextStamp(clock)]
  PROVE  /\ \A x \in Buffers : stamp'[x] = IF x = b THEN clock' ELSE stamp[x]
         /\ clock' \in 0..MaxStamp /\ clock <= clock'
         /\ \A n \in 0..MaxStamp : n <= clock => Newer(clock', n)
         /\ b \notin Range(outQ) /\ b \notin Range(cbQ)
         /\ cur["action"] = b => pc["action"] = "return"
<1>1. /\ clock' \in 0..MaxStamp /\ clock <= clock'
      /\ \A n \in 0..MaxStamp : n <= clock => Newer(clock', n)
  BY StampType DEF NextStamp, Newer
<1>2. \A x \in Buffers : stamp'[x] = IF x = b THEN clock' ELSE stamp[x]
  BY StampType
<1>3. \A k \in {"outQ", "cbQ"} : ~In(b, Spot(k))
  BY Alone, SpotTypes DEF PlaceInv, Spot
<1>4. ~In(b, <<"cur", "action">>)
  <2>1. <<"cur", "action">> # Spot("gpu") /\ <<"cur", "action">> # Spot("evPool")
        /\ "action" \in Threads
    BY DEF Spot, Threads
  <2> QED
    BY <2>1, Alone, SpotTypes DEF PlaceInv
<1> QED
  BY <1>1, <1>2, <1>3, <1>4 DEF In, Spot

\* A header that gets a new, higher number leaves the numbering in order.
LEMMA Renumbered ==
  ASSUME IInv, Numbered, NEW b \in Buffers,
         \A x \in Buffers : stamp'[x] = IF x = b THEN clock' ELSE stamp[x],
         clock' \in 0..MaxStamp, clock <= clock', lastRead' = lastRead
  PROVE  Numbered'
<1>1. clock \in Int /\ clock' \in Int /\ lastRead \in Int /\ \A x \in Buffers : stamp[x] \in Int
  BY StampType
<1>2. lastRead' <= clock'
  BY <1>1 DEF Numbered
<1>3. ASSUME NEW x \in Buffers PROVE stamp'[x] <= clock'
  <2>1. CASE x = b
    BY <1>1, <2>1
  <2>2. CASE x # b
    BY <1>1, <2>2 DEF Numbered
  <2> QED
    BY <2>1, <2>2
<1> QED
  BY <1>2, <1>3 DEF Numbered

LEMMA NextNumbered ==
  ASSUME IInv, PlaceInv, Numbered, [Next]_vars
  PROVE  Numbered'
<1> USE DEF queues, port, threads, context, numbers, faults
<1>1. ASSUME UNCHANGED <<stamp, clock, lastRead>> PROVE Numbered'
  BY <1>1 DEF Numbered
<1>2. ASSUME NEW b \in Frames, DeliverFrame(b) PROVE Numbered'
  <2>1. b \in Buffers /\ In(b, Spot("gpu"))
    BY <1>2 DEF DeliverFrame, Buffers, In, Spot
  <2>2. /\ \A x \in Buffers : stamp'[x] = IF x = b THEN clock' ELSE stamp[x]
        /\ clock' \in 0..MaxStamp /\ clock <= clock' /\ lastRead' = lastRead
    BY <1>2, <2>1, Produces DEF DeliverFrame
  <2> QED
    BY <2>1, <2>2, Renumbered
<1>3. ASSUME NEW b \in Events, DeliverEvent(b) PROVE Numbered'
  <2>1. b \in Buffers /\ In(b, Spot("evPool"))
    BY <1>3 DEF DeliverEvent, Buffers, In, Spot
  <2>2. /\ \A x \in Buffers : stamp'[x] = IF x = b THEN clock' ELSE stamp[x]
        /\ clock' \in 0..MaxStamp /\ clock <= clock' /\ lastRead' = lastRead
    BY <1>3, <2>1, Produces DEF DeliverEvent
  <2> QED
    BY <2>1, <2>2, Renumbered
<1>4. ASSUME BeginReadFrame PROVE Numbered'
  <2>1. Head(outQ) \in Buffers
    BY <1>4, StampType, TailParts DEF BeginReadFrame
  <2> QED
    BY <1>4, <2>1 DEF BeginReadFrame, Numbered
<1>5. ASSUME NEW t \in Threads, Callback(t) PROVE Numbered'
  BY <1>1, <1>5 DEF Callback, CheckLength, Displace, ReleaseExisting, CheckEnabled, GetNew,
      SendNew,
     PutOutput, ReturnFromCallback, FaultOnFreedQueue
<1>6. ASSUME ActionThread PROVE Numbered'
  BY <1>1, <1>5, <1>6 DEF ActionThread, ActionLock, ActionTake, ActionUnlock, TakeCallback,
      Threads
<1>7. ASSUME App PROVE Numbered'
  BY <1>1, <1>4, <1>5, <1>7 DEF App, AppCall, Threads, FillPort, PortFilled, CreateOutputQueue,
     OutputQueueFails, StartCapture, PoolDestroy, DisablePort, LockAction, VCDisabled, DrainTake,
     TakeCallback, DrainDone, WaitTransit, FreePool, EndReadFrame, DestroyOutputQueue
<1>8. ASSUME NEW b \in Frames, ReturnUnfilled(b) PROVE Numbered'
  BY <1>1, <1>8 DEF ReturnUnfilled
<1>9. ASSUME UNCHANGED vars PROVE Numbered'
  BY <1>1, <1>9 DEF vars
<1> HIDE DEF Numbered
<1> QED
  BY <1>2, <1>3, <1>6, <1>7, <1>8, <1>9 DEF Next, Ended

LEMMA NextLined ==
  ASSUME IInv, PlaceInv, StageInv, QueueStage, Numbered, Lined, [Next]_vars
  PROVE  Lined'
<1> USE BufferAssumption
<1> USE DEF At, Goto, queues, port, threads, context, numbers, faults
<1>0. /\ pc \in [Threads -> Labels] /\ cur \in [Threads -> Buffers \cup {None}]
      /\ outQ \in Seq(Buffers) /\ cbQ \in Seq(Buffers)
      /\ "action" \in Threads /\ "app" \in Threads /\ "app" # "action"
  BY DEF IInv, TypeOK, ThreadTypes, BufferTypes, Threads
\* Nothing in the line moves.
<1>1. ASSUME UNCHANGED <<outQ, cbQ, stamp, lastRead>>, outQState' = "live" => outQState = "live",
             Current' => Current /\ cur'["action"] = cur["action"]
      PROVE  Lined'
  BY <1>1 DEF Lined, Ascending, After, Before
\* VideoCore puts what it has just produced at the end of the line.
<1>2. ASSUME NEW b \in Buffers, In(b, Spot("gpu")) \/ In(b, Spot("evPool")),
             clock' = NextStamp(clock), stamp' = [stamp EXCEPT ![b] = NextStamp(clock)],
             cbQ' = Append(cbQ, b), UNCHANGED <<outQ, lastRead, outQState, cur, pc>>,
             outQState = "live"
      PROVE  Lined'
  <2>1. /\ \A x \in Buffers : stamp'[x] = IF x = b THEN clock' ELSE stamp[x]
        /\ \A n \in 0..MaxStamp : n <= clock => Newer(clock', n)
        /\ b \notin Range(outQ) /\ b \notin Range(cbQ)
        /\ cur["action"] = b => pc["action"] = "return"
    BY <1>2, Produces
  <2>2. /\ \A n \in 0..MaxStamp : n <= clock => Newer(stamp'[b], n)
        /\ \A x \in Buffers : Newer(stamp'[b], stamp[x])
        /\ Newer(stamp'[b], lastRead)
    BY <2>1, StampType DEF Numbered
  <2>3. /\ \A i \in DOMAIN outQ : outQ[i] \in Buffers /\ stamp'[outQ[i]] = stamp[outQ[i]]
        /\ \A i \in DOMAIN cbQ : cbQ[i] \in Buffers /\ stamp'[cbQ[i]] = stamp[cbQ[i]]
    BY <1>0, <2>1 DEF Range
  <2>4. /\ DOMAIN cbQ = 1..Len(cbQ) /\ Len(cbQ) \in Nat /\ DOMAIN cbQ' = 1..(Len(cbQ) + 1)
        /\ \A i \in DOMAIN cbQ : cbQ'[i] = cbQ[i]
        /\ cbQ'[Len(cbQ) + 1] = b
        /\ \A i \in DOMAIN cbQ' : i \in DOMAIN cbQ \/ i = Len(cbQ) + 1
    BY <1>0, <1>2, AppendParts
  <2>5. ASSUME NEW n, After(cbQ, n), Newer(stamp'[b], n)
        PROVE  After(cbQ, n)'
    <3>1. ASSUME NEW i \in DOMAIN cbQ' PROVE Newer(stamp'[cbQ'[i]], n)
      BY <2>3, <2>4, <2>5 DEF After
    <3> QED
      BY <3>1 DEF After, Newer
  <2>6. Ascending(cbQ)'
    <3>1. ASSUME NEW i \in DOMAIN cbQ', NEW j \in DOMAIN cbQ', i < j
          PROVE  Newer(stamp'[cbQ'[j]], stamp'[cbQ'[i]])
      <4>1. i \in DOMAIN cbQ /\ (j \in DOMAIN cbQ \/ j = Len(cbQ) + 1)
        BY <2>4, <3>1
      <4>2. CASE j \in DOMAIN cbQ
        BY <1>2, <2>3, <2>4, <3>1, <4>1, <4>2 DEF Lined, Ascending
      <4>3. CASE j = Len(cbQ) + 1
        BY <2>2, <2>3, <2>4, <4>1, <4>3
      <4> QED
        BY <4>1, <4>2, <4>3
    <3> QED
      BY <3>1 DEF Ascending, Newer
  <2>7. Ascending(outQ)' /\ After(outQ, lastRead)'
    BY <1>2, <2>3 DEF Lined, Ascending, After, Newer
  <2>8. After(cbQ, lastRead)'
    BY <1>2, <2>2, <2>5 DEF Lined, After
  <2>9. ASSUME NEW i \in DOMAIN outQ' PROVE After(cbQ, stamp[outQ[i]])'
    <3>1. After(cbQ, stamp[outQ[i]])
      BY <1>2, <2>9 DEF Lined
    <3>2. Newer(stamp'[b], stamp[outQ[i]])
      BY <1>2, <2>2, <2>3, <2>9
    <3>3. \A j \in DOMAIN cbQ' : Newer(stamp'[cbQ'[j]], stamp[outQ[i]])
      BY <2>3, <2>4, <3>1, <3>2 DEF After
    <3>4. stamp'[outQ'[i]] = stamp[outQ[i]]
      BY <1>2, <2>3, <2>9
    <3> QED
      BY <3>3, <3>4 DEF After, Newer
  <2>10. ASSUME Current'
         PROVE  (LET n == stamp[cur["action"]]
                 IN  Newer(n, lastRead) /\ Before(outQ, n) /\ After(cbQ, n))'
    <3> DEFINE c == cur["action"]
    <3>1. Current /\ c \in Buffers /\ stamp'[c] = stamp[c] /\ c' = c
      BY <1>0, <1>2, <2>1, <2>10 DEF Current
    <3>2. Newer(stamp[c], lastRead) /\ Before(outQ, stamp[c]) /\ After(cbQ, stamp[c])
      BY <1>2, <3>1 DEF Lined
    <3>3. \A i \in DOMAIN outQ' : Newer(stamp'[c'], stamp'[outQ'[i]])
      BY <1>2, <2>3, <3>1, <3>2 DEF Before
    <3>4. \A j \in DOMAIN cbQ' : Newer(stamp'[cbQ'[j]], stamp'[c'])
      BY <2>2, <2>3, <2>4, <3>1, <3>2 DEF After
    <3>5. Newer(stamp'[c'], lastRead')
      BY <1>2, <3>1, <3>2
    <3> QED
      BY <3>3, <3>4, <3>5 DEF Before, After, Newer
  <2> QED
    BY <2>6, <2>7, <2>8, <2>9, <2>10 DEF Lined
<1>3. ASSUME NEW b \in Frames, DeliverFrame(b) PROVE Lined'
  <2>1. b \in Buffers /\ In(b, Spot("gpu"))
    BY <1>3 DEF DeliverFrame, Buffers, In, Spot
  <2>2. outQState # "live" => Lined'
    BY <1>3 DEF DeliverFrame, Lined
  <2> QED
    BY <1>2, <1>3, <2>1, <2>2 DEF DeliverFrame
<1>4. ASSUME NEW b \in Events, DeliverEvent(b) PROVE Lined'
  <2>1. b \in Buffers /\ In(b, Spot("evPool"))
    BY <1>4 DEF DeliverEvent, Buffers, In, Spot
  <2>2. outQState # "live" => Lined'
    BY <1>4 DEF DeliverEvent, Lined
  <2> QED
    BY <1>2, <1>4, <2>1, <2>2 DEF DeliverEvent
\* The callback of the first header that waits for one begins.
<1>5. ASSUME ActionTake PROVE Lined'
  <2> SUFFICES ASSUME outQState' = "live" PROVE Lined'
    BY DEF Lined
  <2> DEFINE h == Head(cbQ)
  <2>1. /\ cbQ # <<>> /\ cbQ' = Tail(cbQ) /\ cur'["action"] = h
        /\ UNCHANGED <<outQ, stamp, lastRead, outQState>>
    BY <1>0, <1>5 DEF ActionTake, TakeCallback
  <2>2. /\ Ascending(Tail(cbQ)) /\ After(Tail(cbQ), lastRead) /\ After(Tail(cbQ), stamp[h])
        /\ Newer(stamp[h], lastRead)
    BY <1>0, <2>1, TakeOrder DEF Lined
  <2>3. ASSUME NEW i \in DOMAIN outQ
        PROVE  After(Tail(cbQ), stamp[outQ[i]]) /\ Newer(stamp[h], stamp[outQ[i]])
    BY <1>0, <2>1, TakeOrder DEF Lined
  <2>4. Before(outQ, stamp[h])
    BY <2>3 DEF Before
  <2>5. Ascending(outQ) /\ After(outQ, lastRead)
    BY <2>1 DEF Lined
  <2> HIDE DEF h
  <2>6. Ascending(cbQ)' /\ After(cbQ, lastRead)' /\ Ascending(outQ)' /\ After(outQ, lastRead)'
    BY <2>1, <2>2, <2>5 DEF Ascending, After
  <2>7. \A i \in DOMAIN outQ' : After(cbQ, stamp[outQ[i]])'
    BY <2>1, <2>3 DEF After
  <2>8. (Newer(stamp[cur["action"]], lastRead) /\ Before(outQ, stamp[cur["action"]])
           /\ After(cbQ, stamp[cur["action"]]))'
    BY <2>1, <2>2, <2>4 DEF After, Before, Newer
  <2> QED
    BY <2>6, <2>7, <2>8 DEF Lined
\* The header at the head of OutputQueue is displaced.
<1>6. ASSUME NEW t \in Threads, Displace(t) PROVE Lined'
  <2>1. CASE outQ = <<>>
    BY <1>0, <1>1, <1>6, <2>1 DEF Displace, AfterMiss, Current
  <2>2. CASE outQ # <<>>
    <3> SUFFICES ASSUME outQState' = "live" PROVE Lined'
      BY DEF Lined
    <3>1. /\ outQ' = Tail(outQ) /\ UNCHANGED <<cbQ, cur, stamp, lastRead, outQState>>
          /\ Current' => Current
      BY <1>0, <1>6, <2>2 DEF Displace, Current
    <3>2. Ascending(Tail(outQ)) /\ After(Tail(outQ), lastRead)
      BY <1>0, <2>2, <3>1, TakeOrder DEF Lined
    <3>3. \A i \in DOMAIN Tail(outQ) : Tail(outQ)[i] = outQ[i + 1] /\ i + 1 \in DOMAIN outQ
      BY <1>0, <2>2, TailParts
    <3> QED
      BY <3>1, <3>2, <3>3 DEF Lined, Ascending, After, Before
  <2> QED
    BY <2>1, <2>2
\* The callback queues its header; only the action thread does while the queue lives.
<1>7. ASSUME NEW t \in Threads, PutOutput(t) PROVE Lined'
  <2> SUFFICES ASSUME outQState' = "live" PROVE Lined'
    BY DEF Lined
  <2> DEFINE c == cur["action"]
  <2>1. outQState = "live" /\ pc[t] = "put" /\ cur[t] \in Buffers
    BY <1>7 DEF PutOutput, IInv, InHand, InCallback
  <2>2. t = "action"
    BY <2>1 DEF QueueStage, Resending, Threads
  <2>3. /\ outQ' = Append(outQ, c) /\ UNCHANGED <<cbQ, stamp, lastRead>> /\ ~Current' /\ Current
        /\ c \in Buffers
    <3>1. outQ' = Append(outQ, c) /\ UNCHANGED <<cbQ, stamp, lastRead>> /\ c \in Buffers
      BY <1>7, <2>1, <2>2 DEF PutOutput, Queued
    <3>2. pc["action"] = "put" /\ pc'["action"] = "return"
      BY <1>0, <1>7, <2>1, <2>2 DEF PutOutput
    <3>3. c # None
      BY <3>1 DEF Buffers
    <3> QED
      BY <3>1, <3>2, <3>3 DEF Current
  <2>4. Newer(stamp[c], lastRead) /\ Before(outQ, stamp[c]) /\ After(cbQ, stamp[c])
        /\ Ascending(outQ) /\ After(outQ, lastRead) /\ Ascending(cbQ) /\ After(cbQ, lastRead)
    BY <2>1, <2>3 DEF Lined
  <2>5. Ascending(Append(outQ, c)) /\ After(Append(outQ, c), lastRead)
    BY <1>0, <2>3, <2>4, AppendOrder
  <2>6. \A i \in DOMAIN Append(outQ, c) : After(cbQ, stamp[Append(outQ, c)[i]])
    <3>1. \A i \in DOMAIN Append(outQ, c) :
             (i \in DOMAIN outQ /\ Append(outQ, c)[i] = outQ[i]) \/ Append(outQ, c)[i] = c
      BY <1>0, <2>3, AppendParts
    <3> QED
      BY <2>1, <2>4, <3>1 DEF Lined
  <2> HIDE DEF c
  <2> QED
    BY <2>3, <2>4, <2>5, <2>6 DEF Lined, Ascending, After
\* The reader takes the first header of OutputQueue.
<1>8. ASSUME BeginReadFrame PROVE Lined'
  <2> SUFFICES ASSUME outQState' = "live" PROVE Lined'
    BY DEF Lined
  <2> DEFINE h == Head(outQ)
  <2>1. /\ outQ # <<>> /\ outQ' = Tail(outQ) /\ lastRead' = stamp[h] /\ outQState = "live"
        /\ UNCHANGED <<cbQ, cur, pc, stamp>>
    BY <1>8 DEF BeginReadFrame
  <2>2. Ascending(Tail(outQ)) /\ After(Tail(outQ), stamp[h])
    BY <1>0, <2>1, TakeOrder DEF Lined
  <2>3. /\ \A i \in DOMAIN Tail(outQ) : Tail(outQ)[i] = outQ[i + 1] /\ i + 1 \in DOMAIN outQ
        /\ 1 \in DOMAIN outQ /\ h = outQ[1]
    BY <1>0, <2>1, TailParts
  <2>4. Ascending(cbQ) /\ After(cbQ, stamp[h])
    BY <2>1, <2>3 DEF Lined
  <2>5. \A i \in DOMAIN Tail(outQ) : After(cbQ, stamp[Tail(outQ)[i]])
    BY <2>1, <2>3 DEF Lined
  <2>6. Current => LET n == stamp[cur["action"]]
                   IN  Newer(n, stamp[h]) /\ Before(Tail(outQ), n) /\ After(cbQ, n)
    BY <2>1, <2>3 DEF Lined, Before
  <2> HIDE DEF h
  <2> QED
    BY <2>1, <2>2, <2>4, <2>5, <2>6 DEF Lined, Ascending, After, Before, Current
<1>9. ASSUME CreateOutputQueue PROVE Lined'
  <2>1. outQ' = <<>> /\ cbQ' = <<>> /\ ~Current'
    BY <1>0, <1>9 DEF CreateOutputQueue, StageInv, Opening, QueueStage, Current, IInv, Between
  <2> QED
    BY <2>1 DEF Lined, Ascending, After
<1>10. ASSUME NEW b \in Frames, ReturnUnfilled(b) PROVE Lined'
  <2>1. outQState' # "live"
    BY <1>10 DEF ReturnUnfilled, QueueStage, Resending
  <2> QED
    BY <2>1 DEF Lined
<1>11. ASSUME DrainTake PROVE Lined'
  <2>1. outQState' # "live"
    BY <1>11 DEF DrainTake, TakeCallback, QueueStage, Resending
  <2> QED
    BY <2>1 DEF Lined
<1>12. ASSUME NEW t \in Threads, Callback(t) PROVE Lined'
  <2>1. ASSUME CheckLength(t) \/ CheckEnabled(t) \/ FaultOnFreedQueue(t) PROVE Lined'
    BY <1>0, <1>1, <2>1 DEF CheckLength, CheckEnabled, FaultOnFreedQueue, Current
  <2>2. ASSUME ReleaseExisting(t) \/ GetNew(t) \/ SendNew(t) PROVE Lined'
    BY <1>0, <1>1, <2>2 DEF ReleaseExisting, GetNew, SendNew, Current
  <2>3. ASSUME ReturnFromCallback(t) PROVE Lined'
    BY <1>0, <1>1, <2>3 DEF ReturnFromCallback, Current
  <2> QED
    BY <1>6, <1>7, <1>12, <2>1, <2>2, <2>3 DEF Callback
<1>13. ASSUME ActionLock \/ ActionUnlock PROVE Lined'
  BY <1>0, <1>1, <1>13 DEF ActionLock, ActionUnlock, Current
<1>14. ASSUME FillPort \/ PortFilled \/ OutputQueueFails \/ StartCapture PROVE Lined'
  BY <1>0, <1>1, <1>14 DEF FillPort, PortFilled, OutputQueueFails, StartCapture, Current
<1>15. ASSUME PoolDestroy \/ DisablePort \/ LockAction \/ VCDisabled \/ DestroyOutputQueue
       PROVE  Lined'
  BY <1>0, <1>1, <1>15 DEF PoolDestroy, DisablePort, LockAction, VCDisabled, DestroyOutputQueue,
     Current
<1>16. ASSUME DrainDone \/ WaitTransit \/ FreePool \/ EndReadFrame \/ UNCHANGED vars
       PROVE  Lined'
  BY <1>0, <1>1, <1>16 DEF DrainDone, WaitTransit, FreePool, EndReadFrame, vars, Current
<1> HIDE DEF Lined
<1>17. ASSUME App PROVE Lined'
  BY <1>0, <1>8, <1>9, <1>11, <1>12, <1>14, <1>15, <1>16, <1>17 DEF App, AppCall
<1>18. ASSUME ActionThread PROVE Lined'
  BY <1>0, <1>5, <1>12, <1>13, <1>18 DEF ActionThread
<1> QED
  BY <1>3, <1>4, <1>10, <1>16, <1>17, <1>18 DEF Next, Ended

OrderInv == QueueStage /\ Numbered /\ Lined

LEMMA InitOrder == Init => OrderInv
<1> SUFFICES ASSUME Init PROVE OrderInv
  OBVIOUS
<1>1. QueueStage
  BY DEF Init, QueueStage, Threads, Resending
<1>2. Numbered
  BY BoundAssumption DEF Init, Numbered
<1>3. Lined
  BY DEF Init, Lined
<1> QED
  BY <1>1, <1>2, <1>3 DEF OrderInv

LEMMA OrderHolds == Spec => [](IInv /\ PlaceInv /\ StageInv /\ OrderInv)
<1>1. IInv /\ PlaceInv /\ StageInv /\ OrderInv /\ [Next]_vars => OrderInv'
  BY NextQueueStage, NextNumbered, NextLined DEF OrderInv
<1> QED
  BY <1>1, InitOrder, PlacesAndStages, PTL DEF Spec

\* Whatever the callback displaces and the reader takes in the meantime, the frame
\* that BeginReadFrame locks is newer than every frame it locked before, for any
\* number of headers and as far as MaxStamp tells them apart.
THEOREM FramesInOrder == Spec => ReadsInOrder
<1>1. ASSUME IInv, OrderInv, [Next]_vars, locked' # None, locked' # locked
      PROVE  lastRead' > lastRead \/ lastRead' = MaxStamp
  <2> USE DEF At, Goto, queues, port, threads, context, numbers, faults
  <2>1. BeginReadFrame
    <3>1. ASSUME NEW t \in Threads PROVE ~Callback(t)
      BY <1>1 DEF Callback, CheckLength, Displace, ReleaseExisting, CheckEnabled, GetNew, SendNew,
         PutOutput, ReturnFromCallback, FaultOnFreedQueue
    <3>2. ~ActionThread
      BY <1>1, <3>1 DEF ActionThread, ActionLock, ActionTake, ActionUnlock, TakeCallback, Threads
    <3>3. ~AppCall
      BY <1>1, <3>1 DEF AppCall, Threads, FillPort, PortFilled, CreateOutputQueue,
         OutputQueueFails, StartCapture, PoolDestroy, DisablePort, LockAction, VCDisabled,
         DrainTake, TakeCallback, DrainDone, WaitTransit, FreePool
    <3>4. ~EndReadFrame /\ ~DestroyOutputQueue /\ ~UNCHANGED vars
      BY <1>1 DEF EndReadFrame, Unlock, DestroyOutputQueue, vars
    <3>5. /\ \A b \in Frames : ~DeliverFrame(b) /\ ~ReturnUnfilled(b)
          /\ \A e \in Events : ~DeliverEvent(e)
      BY <1>1 DEF DeliverFrame, ReturnUnfilled, DeliverEvent
    <3> QED
      BY <1>1, <3>2, <3>3, <3>4, <3>5 DEF Next, App, Ended
  <2>2. outQState = "live" /\ outQ # <<>> /\ lastRead' = stamp[Head(outQ)]
    BY <1>1, <2>1 DEF BeginReadFrame, OrderInv, QueueStage
  <2>3. 1 \in DOMAIN outQ /\ Head(outQ) = outQ[1]
    BY <1>1, <2>2, StampType, TailParts
  <2> QED
    BY <1>1, <2>2, <2>3 DEF OrderInv, Lined, After, Newer
<1>2. IInv /\ OrderInv /\ [Next]_vars
        => [locked' # None /\ locked' # locked
              => lastRead' > lastRead \/ lastRead' = MaxStamp]_vars
  BY <1>1
<1> QED
  BY <1>2, OrderHolds, PTL DEF Spec, ReadsInOrder

-----------------------------------------------------------------------------
(* The mailbox: every step of the pipeline is a step of FrameMailbox, or    *)
(* changes nothing of it.                                                   *)

\* The numbers of the headers in a queue
Numbers(q) == [i \in DOMAIN q |-> stamp[q[i]]]

LEMMA NumbersOf ==
  ASSUME IInv, NEW q \in Seq(Buffers)
  PROVE  /\ Numbers(q) \in Seq(0..MaxStamp) /\ Len(Numbers(q)) = Len(q)
         /\ DOMAIN Numbers(q) = DOMAIN q
         /\ \A i \in DOMAIN q : Numbers(q)[i] = stamp[q[i]]
         /\ q = <<>> <=> Numbers(q) = <<>>
<1>1. DOMAIN q = 1..Len(q) /\ Len(q) \in Nat /\ \A i \in DOMAIN q : q[i] \in Buffers
  OBVIOUS
<1>2. \A i \in DOMAIN q : stamp[q[i]] \in 0..MaxStamp
  BY <1>1, StampType
<1>3. Numbers(q) \in [1..Len(q) -> 0..MaxStamp]
  BY <1>1, <1>2 DEF Numbers
<1>4. Numbers(q) \in Seq(0..MaxStamp) /\ Len(Numbers(q)) = Len(q)
  BY <1>1, <1>3, SequenceOf
<1>5. q = <<>> <=> Len(q) = 0
  BY SeqDomain
<1>6. Numbers(q) = <<>> <=> Len(Numbers(q)) = 0
  BY <1>4, SeqDomain
<1> QED
  BY <1>3, <1>4, <1>5, <1>6 DEF Numbers

LEMMA NumbersTail ==
  ASSUME IInv, NEW q \in Seq(Buffers), q # <<>>
  PROVE  Numbers(Tail(q)) = Tail(Numbers(q)) /\ Head(Numbers(q)) = stamp[Head(q)]
<1>1. Tail(q) \in Seq(Buffers) /\ Len(q) \in Nat /\ Len(q) >= 1 /\ Len(Tail(q)) = Len(q) - 1
      /\ DOMAIN q = 1..Len(q)
      /\ DOMAIN Tail(q) = 1..(Len(q) - 1) /\ Head(q) = q[1]
      /\ \A i \in DOMAIN Tail(q) : Tail(q)[i] = q[i + 1] /\ i + 1 \in DOMAIN q
  BY TailParts
<1>2. /\ Numbers(q) \in Seq(0..MaxStamp) /\ Numbers(q) # <<>> /\ Len(Numbers(q)) = Len(q)
      /\ \A i \in DOMAIN q : Numbers(q)[i] = stamp[q[i]]
  BY NumbersOf
<1>3. /\ Numbers(Tail(q)) \in Seq(0..MaxStamp) /\ Len(Numbers(Tail(q))) = Len(q) - 1
      /\ DOMAIN Numbers(Tail(q)) = DOMAIN Tail(q)
      /\ \A i \in DOMAIN Tail(q) : Numbers(Tail(q))[i] = stamp[Tail(q)[i]]
  BY <1>1, NumbersOf
<1>4. /\ Tail(Numbers(q)) \in Seq(0..MaxStamp) /\ Len(Tail(Numbers(q))) = Len(q) - 1
      /\ Head(Numbers(q)) = Numbers(q)[1]
      /\ DOMAIN Tail(Numbers(q)) = 1..(Len(q) - 1)
      /\ \A i \in DOMAIN Tail(Numbers(q)) : Tail(Numbers(q))[i] = Numbers(q)[i + 1]
  BY <1>2, TailParts
<1>5. \A i \in DOMAIN Numbers(Tail(q)) : Numbers(Tail(q))[i] = Tail(Numbers(q))[i]
  BY <1>1, <1>2, <1>3, <1>4
<1>6. Numbers(Tail(q)) = Tail(Numbers(q))
  BY <1>3, <1>4, <1>5, SameSequence
<1>7. Head(Numbers(q)) = stamp[Head(q)]
  BY <1>1, <1>2, <1>4
<1> QED
  BY <1>6, <1>7

LEMMA NumbersAppend ==
  ASSUME IInv, NEW q \in Seq(Buffers), NEW e \in Buffers
  PROVE  Numbers(Append(q, e)) = Append(Numbers(q), stamp[e])
<1>1. Append(q, e) \in Seq(Buffers) /\ Len(q) \in Nat /\ DOMAIN q = 1..Len(q)
      /\ DOMAIN Append(q, e) = 1..(Len(q) + 1)
      /\ \A i \in DOMAIN q : Append(q, e)[i] = q[i]
      /\ Append(q, e)[Len(q) + 1] = e
  BY AppendParts
<1>2. /\ Numbers(q) \in Seq(0..MaxStamp) /\ Len(Numbers(q)) = Len(q) /\ stamp[e] \in 0..MaxStamp
      /\ \A i \in DOMAIN q : Numbers(q)[i] = stamp[q[i]]
  BY NumbersOf, StampType
<1>3. /\ Append(Numbers(q), stamp[e]) \in Seq(0..MaxStamp)
      /\ Len(Append(Numbers(q), stamp[e])) = Len(q) + 1
      /\ \A i \in 1..Len(q) : Append(Numbers(q), stamp[e])[i] = Numbers(q)[i]
      /\ Append(Numbers(q), stamp[e])[Len(q) + 1] = stamp[e]
  BY <1>1, <1>2, AppendParts
<1>4. /\ Numbers(Append(q, e)) \in Seq(0..MaxStamp) /\ Len(Numbers(Append(q, e))) = Len(q) + 1
      /\ DOMAIN Numbers(Append(q, e)) = 1..(Len(q) + 1)
      /\ \A i \in 1..(Len(q) + 1) : Numbers(Append(q, e))[i] = stamp[Append(q, e)[i]]
  <2> DEFINE r == Append(q, e)
  <2>1. r \in Seq(Buffers) /\ DOMAIN r = 1..(Len(q) + 1) /\ Len(r) = Len(q) + 1
    BY <1>1, AppendParts
  <2> HIDE DEF r
  <2>2. /\ Numbers(r) \in Seq(0..MaxStamp) /\ Len(Numbers(r)) = Len(r)
        /\ DOMAIN Numbers(r) = DOMAIN r /\ \A i \in DOMAIN r : Numbers(r)[i] = stamp[r[i]]
    BY <2>1, NumbersOf
  <2>3. /\ Numbers(r) \in Seq(0..MaxStamp) /\ Len(Numbers(r)) = Len(q) + 1
        /\ DOMAIN Numbers(r) = 1..(Len(q) + 1)
        /\ \A i \in 1..(Len(q) + 1) : Numbers(r)[i] = stamp[r[i]]
    BY <2>1, <2>2
  <2> QED
    BY <2>3 DEF r
<1>5. \A i \in 1..(Len(q) + 1) : i \in 1..Len(q) \/ i = Len(q) + 1
  BY <1>1
<1>6. \A i \in DOMAIN Numbers(Append(q, e)) :
        Numbers(Append(q, e))[i] = Append(Numbers(q), stamp[e])[i]
  BY <1>1, <1>2, <1>3, <1>4, <1>5
<1> QED
  BY <1>3, <1>4, <1>6, SameSequence

Box == IF outQState = "live" THEN Numbers(outQ) ELSE <<>>

\* What each step of the mailbox says of the pipeline's variables
LEMMA MailboxSteps ==
  /\ Mailbox!vars = <<Box, lastRead, outQState>>
  /\ Mailbox!Init <=> Box = <<>> /\ lastRead = 0 /\ outQState = "null"
  /\ UNCHANGED <<Box, lastRead, outQState>> <=> UNCHANGED Mailbox!vars
  /\ outQState = "null" /\ outQState' = "live" /\ UNCHANGED <<Box, lastRead>> => Mailbox!Next
  /\ outQState = "live" /\ Box # <<>> /\ Box' = Tail(Box) /\ UNCHANGED <<lastRead, outQState>>
       => Mailbox!Next
  /\ outQState = "live" /\ Box # <<>> /\ lastRead' = Head(Box) /\ Box' = Tail(Box)
       /\ UNCHANGED outQState => Mailbox!Next
  /\ outQState = "live" /\ outQState' = "freed" /\ Box' = <<>> /\ UNCHANGED lastRead
       => Mailbox!Next
  /\ \A n \in 0..MaxStamp :
       outQState = "live" /\ Len(Box) < 2 /\ Newer(n, lastRead)
         /\ (\A i \in DOMAIN Box : Newer(n, Box[i])) /\ Box' = Append(Box, n)
         /\ UNCHANGED <<lastRead, outQState>> => Mailbox!Next
<1>1. Box = (IF outQState = "live" THEN [i \in DOMAIN outQ |-> stamp[outQ[i]]] ELSE <<>>)
  BY DEF Box, Numbers
<1>2. Mailbox!vars = <<Box, lastRead, outQState>>
  BY <1>1 DEF Mailbox!vars
<1>3. Mailbox!Init <=> Box = <<>> /\ lastRead = 0 /\ outQState = "null"
  BY <1>1 DEF Mailbox!Init
<1>4. UNCHANGED <<Box, lastRead, outQState>> <=> UNCHANGED Mailbox!vars
  BY <1>2 DEF Box, Numbers, Mailbox!vars
<1>5. outQState = "null" /\ outQState' = "live" /\ UNCHANGED <<Box, lastRead>> => Mailbox!Next
  BY DEF Mailbox!Next, Mailbox!Open, Box, Numbers
<1>6. outQState = "live" /\ Box # <<>> /\ Box' = Tail(Box) /\ UNCHANGED <<lastRead, outQState>>
       => Mailbox!Next
  BY DEF Mailbox!Next, Mailbox!DropOldest, Box, Numbers
<1>7. outQState = "live" /\ Box # <<>> /\ lastRead' = Head(Box) /\ Box' = Tail(Box)
       /\ UNCHANGED outQState => Mailbox!Next
  BY DEF Mailbox!Next, Mailbox!Take, Box, Numbers
<1>8. outQState = "live" /\ outQState' = "freed" /\ Box' = <<>> /\ UNCHANGED lastRead
       => Mailbox!Next
  BY DEF Mailbox!Next, Mailbox!Close, Box, Numbers
<1>9. \A n \in 0..MaxStamp :
        outQState = "live" /\ Len(Box) < 2 /\ Newer(n, lastRead)
          /\ (\A i \in DOMAIN Box : Newer(n, Box[i])) /\ Box' = Append(Box, n)
          /\ UNCHANGED <<lastRead, outQState>> => Mailbox!Next
  BY DEF Mailbox!Next, Mailbox!Put, Mailbox!Newer, Newer, Box, Numbers
<1> QED
  BY <1>2, <1>3, <1>4, <1>5, <1>6, <1>7, <1>8, <1>9

LEMMA MailboxInit == Init => Mailbox!Init
BY MailboxSteps DEF Init, Box

LEMMA MailboxNext ==
  ASSUME IInv, PlaceInv, StageInv, OrderInv, [Next]_vars
  PROVE  Mailbox!Next \/ UNCHANGED Mailbox!vars
<1> USE DEF At, Goto, queues, port, threads, context, numbers, faults
<1>0. outQ \in Seq(Buffers)
  BY StampType
<1>1. ASSUME UNCHANGED <<outQ, outQState, lastRead>>,
      \A i \in DOMAIN outQ : stamp'[outQ[i]] = stamp[outQ[i]]
      PROVE  UNCHANGED Mailbox!vars
  <2>1. [i \in DOMAIN outQ |-> stamp'[outQ[i]]] = [i \in DOMAIN outQ |-> stamp[outQ[i]]]
    BY <1>1
  <2>2. Box' = Box
    BY <1>1, <2>1 DEF Box, Numbers
  <2> QED
    BY <1>1, <2>2, MailboxSteps
<1>2. ASSUME UNCHANGED <<outQ, outQState, lastRead, stamp>> PROVE UNCHANGED Mailbox!vars
  BY <1>1, <1>2
<1>3. ASSUME outQState # "live", outQState' # "live", UNCHANGED <<outQState, lastRead>>
      PROVE  UNCHANGED Mailbox!vars
  BY <1>3, MailboxSteps DEF Box
<1>4. ASSUME NEW b \in Frames, DeliverFrame(b) PROVE UNCHANGED Mailbox!vars
  <2>1. b \in Buffers /\ In(b, Spot("gpu"))
    BY <1>4 DEF DeliverFrame, Buffers, In, Spot
  <2>2. b \notin Range(outQ) /\ \A x \in Buffers : x # b => stamp'[x] = stamp[x]
    BY <1>4, <2>1, Produces DEF DeliverFrame, OrderInv
  <2>3. \A i \in DOMAIN outQ : stamp'[outQ[i]] = stamp[outQ[i]]
    BY <1>0, <2>2 DEF Range
  <2> QED
    BY <1>1, <1>4, <2>3 DEF DeliverFrame
<1>5. ASSUME NEW b \in Events, DeliverEvent(b) PROVE UNCHANGED Mailbox!vars
  <2>1. b \in Buffers /\ In(b, Spot("evPool"))
    BY <1>5 DEF DeliverEvent, Buffers, In, Spot
  <2>2. b \notin Range(outQ) /\ \A x \in Buffers : x # b => stamp'[x] = stamp[x]
    BY <1>5, <2>1, Produces DEF DeliverEvent, OrderInv
  <2>3. \A i \in DOMAIN outQ : stamp'[outQ[i]] = stamp[outQ[i]]
    BY <1>0, <2>2 DEF Range
  <2> QED
    BY <1>1, <1>5, <2>3 DEF DeliverEvent
<1>6. ASSUME CreateOutputQueue PROVE Mailbox!Next
  <2>1. outQState = "null" /\ outQState' = "live" /\ outQ = <<>> /\ outQ' = outQ
        /\ lastRead' = lastRead
    BY <1>6 DEF CreateOutputQueue, OrderInv, QueueStage
  <2>2. Numbers(outQ) = <<>> /\ Numbers(outQ)' = <<>>
    BY <2>1 DEF Numbers
  <2> QED
    BY <2>1, <2>2, MailboxSteps DEF Box
<1>7. ASSUME DestroyOutputQueue PROVE Mailbox!Next
  <2>1. outQState = "live" /\ outQState' = "freed" /\ lastRead' = lastRead
    BY <1>7 DEF DestroyOutputQueue, OrderInv, QueueStage
  <2> QED
    BY <2>1, MailboxSteps DEF Box
<1>8. ASSUME BeginReadFrame PROVE Mailbox!Next
  <2>1. /\ outQState = "live" /\ outQState' = "live" /\ outQ # <<>> /\ outQ' = Tail(outQ)
        /\ lastRead' = stamp[Head(outQ)] /\ stamp' = stamp
    BY <1>8 DEF BeginReadFrame, OrderInv, QueueStage
  <2>2. /\ Numbers(Tail(outQ)) = Tail(Numbers(outQ)) /\ Head(Numbers(outQ)) = stamp[Head(outQ)]
        /\ Numbers(outQ) # <<>>
    BY <1>0, <2>1, NumbersTail, NumbersOf
  <2>3. Numbers(outQ)' = Numbers(Tail(outQ))
    BY <2>1 DEF Numbers
  <2>4. Box = Numbers(outQ) /\ Box' = Numbers(outQ)'
    BY <2>1 DEF Box
  <2> QED
    BY <2>1, <2>2, <2>3, <2>4, MailboxSteps
<1>9. ASSUME NEW t \in Threads, Displace(t) PROVE Mailbox!Next \/ UNCHANGED Mailbox!vars
  <2>1. CASE outQ = <<>>
    BY <1>2, <1>9, <2>1 DEF Displace
  <2>2. CASE outQState # "live"
    BY <1>3, <1>9, <2>2 DEF Displace
  <2>3. CASE outQ # <<>> /\ outQState = "live"
    <3>1. outQ' = Tail(outQ) /\ UNCHANGED <<lastRead, outQState, stamp>>
      BY <1>9, <2>3 DEF Displace
    <3>2. Numbers(Tail(outQ)) = Tail(Numbers(outQ)) /\ Numbers(outQ) # <<>>
      BY <1>0, <2>3, NumbersTail, NumbersOf
    <3>3. Numbers(outQ)' = Numbers(Tail(outQ))
      BY <3>1 DEF Numbers
    <3>4. Box = Numbers(outQ) /\ Box' = Numbers(outQ)'
      BY <2>3, <3>1 DEF Box
    <3> QED
      BY <2>3, <3>1, <3>2, <3>3, <3>4, MailboxSteps
  <2> QED
    BY <2>1, <2>2, <2>3
<1>10. ASSUME NEW t \in Threads, PutOutput(t) PROVE Mailbox!Next \/ UNCHANGED Mailbox!vars
  <2>1. CASE outQState # "live"
    BY <1>3, <1>10, <2>1 DEF PutOutput
  <2>2. CASE outQState = "live"
    <3> DEFINE c == cur["action"]
               n == stamp[c]
    <3>1. t = "action" /\ pc["action"] = "put" /\ c \in Buffers
      BY <1>10, <2>2 DEF PutOutput, OrderInv, QueueStage, Resending, Threads, IInv, InHand,
          InCallback
    <3>2. outQ' = Append(outQ, c) /\ UNCHANGED <<lastRead, outQState, stamp>>
      BY <1>10, <2>2, <3>1 DEF PutOutput, Queued
    <3>3. Current
      BY <3>1, BufferAssumption DEF Current, Buffers
    <3>4. Newer(n, lastRead) /\ Before(outQ, n)
      BY <2>2, <3>3 DEF OrderInv, Lined
    <3>5. Len(outQ) <= 1 /\ Len(outQ) \in Nat
      BY <1>0, <3>1, <3>3 DEF IInv, Room, Current, Threads
    <3>6. Numbers(Append(outQ, c)) = Append(Numbers(outQ), n) /\ n \in 0..MaxStamp
      BY <1>0, <3>1, NumbersAppend, StampType
    <3>7. Numbers(outQ)' = Numbers(Append(outQ, c))
      BY <3>2 DEF Numbers
    <3>8. Box = Numbers(outQ) /\ Box' = Numbers(outQ)'
      BY <2>2, <3>2 DEF Box
    <3>9. Len(Box) < 2 /\ \A i \in DOMAIN Box : Newer(n, Box[i])
      BY <1>0, <3>4, <3>5, <3>8, NumbersOf DEF Before
    <3> HIDE DEF n, c
    <3>10. Box' = Append(Box, n)
      BY <3>6, <3>7, <3>8
    <3> QED
      BY <2>2, <3>2, <3>4, <3>6, <3>9, <3>10, MailboxSteps
  <2> QED
    BY <2>1, <2>2
<1>11. ASSUME NEW t \in Threads, Callback(t) PROVE Mailbox!Next \/ UNCHANGED Mailbox!vars
  <2>1. ASSUME CheckLength(t) \/ ReleaseExisting(t) \/ CheckEnabled(t) \/ GetNew(t) \/ SendNew(t)
                 \/ ReturnFromCallback(t) \/ FaultOnFreedQueue(t)
        PROVE  UNCHANGED Mailbox!vars
    BY <1>2, <2>1 DEF CheckLength, ReleaseExisting, CheckEnabled, GetNew, SendNew,
       ReturnFromCallback, FaultOnFreedQueue
  <2> QED
    BY <1>9, <1>10, <1>11, <2>1 DEF Callback
<1>12. ASSUME ActionLock \/ ActionTake \/ ActionUnlock \/ DrainTake PROVE UNCHANGED Mailbox!vars
  BY <1>2, <1>12 DEF ActionLock, ActionTake, ActionUnlock, DrainTake, TakeCallback
<1>13. ASSUME FillPort \/ PortFilled \/ OutputQueueFails \/ StartCapture \/ PoolDestroy
                \/ DisablePort \/ LockAction \/ VCDisabled
       PROVE  UNCHANGED Mailbox!vars
  BY <1>2, <1>13 DEF FillPort, PortFilled, OutputQueueFails, StartCapture, PoolDestroy,
      DisablePort,
     LockAction, VCDisabled
<1>14. ASSUME DrainDone \/ WaitTransit \/ FreePool \/ EndReadFrame \/ UNCHANGED vars
                \/ \E b \in Frames : ReturnUnfilled(b)
       PROVE  UNCHANGED Mailbox!vars
  BY <1>2, <1>14 DEF DrainDone, WaitTransit, FreePool, EndReadFrame, vars, ReturnUnfilled
<1>15. ASSUME App PROVE Mailbox!Next \/ UNCHANGED Mailbox!vars
  <2> "app" \in Threads
    BY DEF Threads
  <2> QED
    BY <1>6, <1>7, <1>8, <1>11, <1>12, <1>13, <1>14, <1>15 DEF App, AppCall
<1>16. ASSUME ActionThread PROVE Mailbox!Next \/ UNCHANGED Mailbox!vars
  <2> "action" \in Threads
    BY DEF Threads
  <2> QED
    BY <1>11, <1>12, <1>16 DEF ActionThread
<1> QED
  BY <1>4, <1>5, <1>14, <1>15, <1>16 DEF Next, Ended

\* The pipeline implements the mailbox it promises, for any number of headers:
\* while OutputQueue lives, what BeginReadFrame, the displacing callback, Init and
\* Release do to it are the reader's takes, the drops of the oldest frame, the puts
\* of a newer one, the opening and the closing of a mailbox of two frames.
THEOREM MailboxImplemented == Spec => ImplementsMailbox
<1>1. IInv /\ PlaceInv /\ StageInv /\ OrderInv /\ [Next]_vars => [Mailbox!Next]_Mailbox!vars
  BY MailboxNext
<1> QED
  BY <1>1, MailboxInit, OrderHolds, PTL DEF Spec, ImplementsMailbox, Mailbox!Spec

-----------------------------------------------------------------------------
(* What the liveness that the runs check rests on                           *)

LEMMA NextLockOwner ==
  ASSUME IInv, StageInv, LockOwner, [Next]_vars
  PROVE  LockOwner'
<1> USE BufferAssumption
<1> USE DEF Buffers, Threads, InCallback, AppOnly, Disabling, Resending,
            At, Goto, queues, port, threads, context, numbers, faults, LockOwner
<1> USE DEF StageInv, Roles, IInv, TypeOK, ThreadTypes, BufferTypes, Between, InHand, LockHeld
<1>1. ASSUME actLock' = actLock, cur' = cur,
             pc'["action"] = "idle" => pc["action"] = "idle",
             pc["app"] \in {"disableVC", "drain"} => pc'["app"] \in {"disableVC", "drain"}
      PROVE  LockOwner'
  BY <1>1
<1>2. ASSUME NEW t \in Threads, Callback(t) PROVE LockOwner'
  <2>1. ASSUME ~ReturnFromCallback(t) PROVE LockOwner'
    BY <1>1, <1>2, <2>1 DEF Callback, CheckLength, Displace, ReleaseExisting, CheckEnabled, GetNew,
       SendNew, PutOutput, FaultOnFreedQueue, Resume, AfterMiss
  <2>2. ASSUME ReturnFromCallback(t) PROVE LockOwner'
    BY <2>2 DEF ReturnFromCallback
  <2> QED
    BY <2>1, <2>2
<1>3. ASSUME ActionTake \/ DrainTake PROVE LockOwner'
  <2>1. cbQ \in Seq(Buffers) /\ cbQ # <<>>
    BY <1>3 DEF ActionTake, DrainTake, TakeCallback
  <2>2. Head(cbQ) # None
    BY <2>1
  <2> QED
    BY <1>3, <2>2 DEF ActionTake, DrainTake, TakeCallback
<1>4. ASSUME ActionLock \/ ActionUnlock PROVE LockOwner'
  BY <1>4 DEF ActionLock, ActionUnlock
<1>5. ASSUME LockAction \/ VCDisabled \/ DrainDone PROVE LockOwner'
  BY <1>5 DEF LockAction, VCDisabled, DrainDone
<1>6. ASSUME FillPort \/ PortFilled \/ CreateOutputQueue \/ OutputQueueFails \/ StartCapture
               \/ PoolDestroy \/ DisablePort \/ WaitTransit \/ FreePool
      PROVE  LockOwner'
  BY <1>1, <1>6 DEF FillPort, PortFilled, CreateOutputQueue, OutputQueueFails, StartCapture,
     PoolDestroy, DisablePort, WaitTransit, FreePool
<1>7. ASSUME BeginReadFrame \/ EndReadFrame \/ DestroyOutputQueue \/ UNCHANGED vars
      PROVE  LockOwner'
  BY <1>1, <1>7 DEF BeginReadFrame, EndReadFrame, DestroyOutputQueue, vars
<1>8. ASSUME NEW b, DeliverFrame(b) \/ ReturnUnfilled(b) \/ DeliverEvent(b) PROVE LockOwner'
  BY <1>1, <1>8 DEF DeliverFrame, ReturnUnfilled, DeliverEvent
<1> HIDE DEF LockOwner
<1>9. ASSUME App PROVE LockOwner'
  BY <1>2, <1>3, <1>5, <1>6, <1>7, <1>9 DEF App, AppCall
<1>10. ASSUME ActionThread PROVE LockOwner'
  BY <1>2, <1>3, <1>4, <1>10 DEF ActionThread
<1> QED
  BY <1>7, <1>8, <1>9, <1>10 DEF Next, Ended

LEMMA LockOwned == Spec => []LockOwner
<1>1. Init => LockOwner
  BY BufferAssumption DEF Init, LockOwner
<1>2. IInv /\ StageInv /\ LockOwner /\ [Next]_vars => LockOwner'
  BY NextLockOwner
<1> QED
  BY <1>1, <1>2, PlacesAndStages, PTL DEF Spec

\* What mmal_port_disable waits for is in good hands: whoever has action_mutex is in its
\* callbacks, and IN_TRANSIT_WAIT finds nothing to wait for.
DisableProceeds ==
  /\ pc["app"] = "lock" /\ actLock # None =>
       actLock = "action" /\ pc["action"] \in Resending \cup InCallback \cup {"loop"}
  /\ pc["app"] = "wait" => transit = 0

\* Release never blocks for good on a lock or on a count, for any number of headers:
\* the only thread it can wait for is the action thread, whose callbacks wait for
\* nobody, and once the queued callbacks have run no header is in transit.
THEOREM ReleaseUnblocked == Spec => []DisableProceeds
<1>1. ASSUME IInv, StageInv, TransitExact, LockOwner PROVE DisableProceeds
  <2>1. ASSUME pc["app"] = "lock", actLock # None
        PROVE  actLock = "action" /\ pc["action"] \in Resending \cup InCallback \cup {"loop"}
    <3>1. cur["app"] = None
      BY <1>1, <2>1 DEF IInv, Between, AppOnly, Disabling, Threads
    <3>2. actLock = "action"
      BY <1>1, <2>1, <3>1 DEF LockOwner, IInv, TypeOK, ThreadTypes, Threads
    <3> QED
      BY <1>1, <3>2 DEF LockOwner, StageInv, Roles, IInv, TypeOK, ThreadTypes, Threads, Labels
  <2>2. ASSUME pc["app"] = "wait" PROVE transit = 0
    <3>1. gpu = {} /\ cbQ = <<>> /\ pc["action"] = "idle"
      BY <1>1, <2>2 DEF StageInv, Closing, Closed
    <3>2. InCall = {}
      BY <1>1, <2>2, <3>1, BufferAssumption
         DEF IInv, Between, AppOnly, Disabling, InCall, Threads
    <3>3. Cardinality(gpu) = 0 /\ Cardinality(PlacesOf(cbQ, Frames)) = 0 /\ Cardinality(InCall) = 0
      BY <1>1, <3>1, <3>2, PortCounts, CountType, FS_EmptySet
    <3> QED
      BY <1>1, <3>3, TransitSum
  <2> QED
    BY <2>1, <2>2 DEF DisableProceeds
<1> QED
  BY <1>1, CountsHold, LockOwned, PTL

\* Both threads are at rest and nothing waits for a callback.
AtRest == capturing /\ pc["app"] = "ready" /\ pc["action"] = "idle" /\ cbQ = <<>>

\* The headers that wait for the reader, and the one it has
WithReader == Len(outQ) + (IF locked = None THEN 0 ELSE 1)

\* VideoCore has every header that is neither with the reader nor lost to a refused
\* send.
CameraSupplied ==
  AtRest => Cardinality(Frames) <= Cardinality(gpu) + Cardinality(lost \cap Frames) + WithReader

LEMMA AddAtMost ==
  ASSUME NEW S, IsFiniteSet(S), NEW x
  PROVE  IsFiniteSet(S \cup {x}) /\ Cardinality(S \cup {x}) <= Cardinality(S) + 1
<1>1. Cardinality(S) \in Nat
  BY FS_CardinalityType
<1>2. /\ IsFiniteSet(S \cup {x})
      /\ Cardinality(S \cup {x}) = IF x \in S THEN Cardinality(S) ELSE Cardinality(S) + 1
  BY FS_AddElement, Zenon
<1> QED
  BY <1>1, <1>2

\* With n pool headers, at rest, VideoCore has at least n - 2 of them, less those lost and
\* the one the reader has: with the three that Init asks for it is out of headers exactly
\* while the reader has one and two wait, and every other time it can go on filling.
THEOREM CameraKeepsHeaders == Spec => []CameraSupplied
<1>1. ASSUME IInv, PlaceInv, StageInv, Balanced PROVE CameraSupplied
  <2> SUFFICES ASSUME AtRest
               PROVE  Cardinality(Frames)
                        <= Cardinality(gpu) + Cardinality(lost \cap Frames) + WithReader
    BY DEF CameraSupplied
  <2> USE <1>1
  <2>1. /\ IsFiniteSet(Frames) /\ gpu \subseteq Frames /\ IsFiniteSet(gpu)
        /\ IsFiniteSet(lost \cap Frames) /\ outQ \in Seq(Buffers) /\ Len(outQ) \in 0..2
    <3>1. IsFiniteSet(Frames) /\ gpu \subseteq Frames /\ outQ \in Seq(Buffers) /\ Len(outQ) <= 2
      BY BufferAssumption DEF IInv, TypeOK, BufferTypes, OutputBound
    <3>2. gpu \in SUBSET Frames /\ lost \cap Frames \in SUBSET Frames
      BY <3>1
    <3>3. IsFiniteSet(gpu) /\ IsFiniteSet(lost \cap Frames)
      BY <3>1, <3>2, FS_Subset
    <3>4. Len(outQ) \in Nat
      BY <3>1, SeqDomain
    <3>5. \A n \in Nat : n <= 2 => n \in 0..2
      OBVIOUS
    <3>6. Len(outQ) \in 0..2
      BY <3>1, <3>4, <3>5, Zenon
    <3> QED
      BY <3>1, <3>3, <3>6
  <2>2. \A t \in Threads : cur[t] = None /\ hand[t] = None
    BY DEF AtRest, IInv, Between, AppOnly, PlaceInv, HandEmpty, Threads
  <2>3. Recycling = {} /\ enabled
    BY <2>2 DEF AtRest, Recycling, Threads, StageInv, Closing, Closed, Draining
  <2>4. poolQ = <<>> /\ cbQ = <<>>
    <3>1. poolQ \in Seq(Frames) /\ Len(poolQ) <= 0
      BY <2>3, FS_EmptySet DEF Balanced, AtRest, IInv, TypeOK, BufferTypes
    <3> QED
      BY <3>1 DEF AtRest
  <2> DEFINE A == gpu \cup (lost \cap Frames)
             B == A \cup Range(outQ)
             C == IF locked = None THEN B ELSE B \cup {locked}
  <2>5. Frames \subseteq C
    <3> SUFFICES ASSUME NEW b \in Frames PROVE b \in C
      OBVIOUS
    <3>1. PICK p \in Spots : In(b, p)
      BY DEF PlaceInv, Placed, Buffers
    <3>2. b # None /\ b \notin evPool
      BY BufferAssumption DEF IInv, TypeOK, BufferTypes
    <3>3. Range(poolQ) = {} /\ Range(cbQ) = {}
      BY <2>4 DEF Range
    <3>4. b \in gpu \/ b \in Range(outQ) \/ b = locked \/ b \in lost
      BY <2>2, <3>1, <3>2, <3>3 DEF In, Spots
    <3> QED
      BY <3>2, <3>4
  <2>6. IsFiniteSet(A) /\ Cardinality(A) <= Cardinality(gpu) + Cardinality(lost \cap Frames)
    <3> DEFINE L == lost \cap Frames
    <3>1. IsFiniteSet(gpu) /\ IsFiniteSet(L) /\ gpu \cap L \in SUBSET gpu
      BY <2>1
    <3> HIDE DEF L
    <3>2. IsFiniteSet(gpu \cap L)
      BY <3>1, FS_Subset
    <3>3. /\ IsFiniteSet(gpu \cup L)
          /\ Cardinality(gpu \cup L) = Cardinality(gpu) + Cardinality(L) - Cardinality(gpu \cap L)
      BY <3>1, FS_Union
    <3>4. Cardinality(gpu) \in Nat /\ Cardinality(L) \in Nat /\ Cardinality(gpu \cap L) \in Nat
      BY <3>1, <3>2, FS_CardinalityType
    <3>5. IsFiniteSet(gpu \cup L) /\ Cardinality(gpu \cup L) <= Cardinality(gpu) + Cardinality(L)
      BY <3>3, <3>4
    <3> QED
      BY <3>5 DEF L
  <2> HIDE DEF A
  <2>7. IsFiniteSet(B) /\ Cardinality(B) <= Cardinality(A) + Len(outQ)
    <3>1. CASE Len(outQ) = 0
      <4>1. Range(outQ) = {}
        BY <2>1, <3>1, SeqDomain
      <4> QED
        BY <2>6, <3>1, <4>1, FS_CardinalityType
    <3>2. CASE Len(outQ) = 1
      <4>1. B = A \cup {outQ[1]}
        BY <2>1, <3>2, SeqDomain DEF Range
      <4> QED
        BY <2>6, <3>2, <4>1, AddAtMost
    <3>3. CASE Len(outQ) = 2
      <4>1. B = (A \cup {outQ[1]}) \cup {outQ[2]}
        BY <2>1, <3>3, SeqDomain DEF Range
      <4>2. IsFiniteSet(A \cup {outQ[1]}) /\ Cardinality(A \cup {outQ[1]}) <= Cardinality(A) + 1
        BY <2>6, AddAtMost
      <4>3. IsFiniteSet(B) /\ Cardinality(B) <= Cardinality(A \cup {outQ[1]}) + 1
        BY <4>1, <4>2, AddAtMost
      <4> QED
        BY <2>6, <3>3, <4>2, <4>3, FS_CardinalityType
    <3> QED
      BY <2>1, <3>1, <3>2, <3>3
  <2> HIDE DEF B
  <2>8. IsFiniteSet(C) /\ Cardinality(C) <= Cardinality(A) + WithReader
    <3>1. Cardinality(A) \in Nat /\ Cardinality(B) \in Nat
      BY <2>6, <2>7, FS_CardinalityType
    <3>2. CASE locked = None
      BY <2>1, <2>7, <3>1, <3>2 DEF WithReader
    <3>3. CASE locked # None
      <4>1. IsFiniteSet(C) /\ Cardinality(C) <= Cardinality(B) + 1 /\ Cardinality(C) \in Nat
        BY <2>7, <3>3, AddAtMost, FS_CardinalityType
      <4> QED
        BY <2>1, <2>7, <3>1, <3>3, <4>1 DEF WithReader
    <3> QED
      BY <3>2, <3>3
  <2>9. Cardinality(Frames) <= Cardinality(C)
    BY <2>5, <2>8, FS_Subset
  <2>10. /\ Cardinality(A) \in Nat /\ Cardinality(C) \in Nat /\ Cardinality(Frames) \in Nat
         /\ Cardinality(gpu) \in Nat /\ Cardinality(lost \cap Frames) \in Nat /\ WithReader \in Nat
    BY <2>1, <2>6, <2>8, FS_CardinalityType DEF WithReader
  <2> HIDE DEF C
  <2> QED
    BY <2>6, <2>8, <2>9, <2>10
<1> QED
  BY <1>1, CountsHold, PTL

-----------------------------------------------------------------------------
(* The promise of the port to the pipeline, step by step                    *)

\* What each action of HeaderPort says of the pipeline's variables
LEMMA PortSteps ==
  /\ Lent = {} /\ enabled = TRUE /\ Calling => PortPromise!Init
  /\ UNCHANGED <<enabled, Calling, Lent>> => UNCHANGED PortPromise!vars
  /\ enabled' = FALSE /\ UNCHANGED <<Calling, Lent>> => PortPromise!Next
  /\ \A b \in Frames :
       enabled /\ b \notin Lent /\ Lent' = Lent \cup {b} /\ UNCHANGED <<enabled, Calling>>
         => PortPromise!Next
  /\ \A b \in Frames :
       Calling /\ b \in Lent /\ Lent' = Lent \ {b} /\ UNCHANGED <<enabled, Calling>>
         => PortPromise!Next
  /\ ~enabled /\ Lent = {} /\ ~Calling' /\ UNCHANGED <<enabled, Lent>> => PortPromise!Next
<1>1. Lent = {} /\ enabled = TRUE /\ Calling => PortPromise!Init
  BY DEF PortPromise!Init, Calling
<1>2. UNCHANGED <<enabled, Calling, Lent>> => UNCHANGED PortPromise!vars
  BY DEF PortPromise!vars
<1>3. enabled' = FALSE /\ UNCHANGED <<Calling, Lent>> => PortPromise!Next
  BY DEF PortPromise!Next, PortPromise!Stop
<1>4. ASSUME NEW b \in Frames, enabled, b \notin Lent, Lent' = Lent \cup {b},
             UNCHANGED <<enabled, Calling>>
      PROVE  PortPromise!Next
  BY <1>4 DEF PortPromise!Next, PortPromise!Take
<1>5. ASSUME NEW b \in Frames, Calling, b \in Lent, Lent' = Lent \ {b},
             UNCHANGED <<enabled, Calling>>
      PROVE  PortPromise!Next
  BY <1>5 DEF PortPromise!Next, PortPromise!GiveBack
<1>6. ~enabled /\ Lent = {} /\ ~Calling' /\ UNCHANGED <<enabled, Lent>> => PortPromise!Next
  BY DEF PortPromise!Next, PortPromise!Close, Calling
<1> QED
  BY <1>1, <1>2, <1>3, <1>4, <1>5, <1>6

\* A header goes from the port to the callback queue, or an event is queued: the port
\* has what it had.
LEMMA QueuedLent ==
  ASSUME IInv, NEW b \in Buffers, cbQ' = Append(cbQ, b),
         gpu' = gpu \ {b}, b \in gpu \/ b \in Events
  PROVE  Lent' = Lent
<1>1. cbQ \in Seq(Buffers) /\ gpu \subseteq Frames /\ Frames \cap Events = {}
  BY BufferAssumption DEF IInv, TypeOK, BufferTypes
<1>2. Range(cbQ') = Range(cbQ) \cup {b}
  BY <1>1, AppendElements
<1> QED
  BY <1>1, <1>2 DEF Lent

\* A callback begins: the port gives the header back, unless it is an event.
LEMMA TakeCallbackPort ==
  ASSUME IInv, PlaceInv, NEW t \in Threads, TakeCallback(t), Calling, Calling'
  PROVE  PortPromise!Next \/ UNCHANGED PortPromise!vars
<1> DEFINE b == Head(cbQ)
<1>1. cbQ \in Seq(Buffers) /\ cbQ # <<>> /\ cbQ' = Tail(cbQ) /\ UNCHANGED <<gpu, enabled>>
  BY DEF IInv, TypeOK, BufferTypes, TakeCallback, port
<1>2. b \in Buffers /\ Range(cbQ) = Range(Tail(cbQ)) \cup {b} /\ b \notin Range(Tail(cbQ))
  BY <1>1, TailElements, TailOnce DEF PlaceInv, NoRepeats
<1>3. b \notin gpu
  <2>1. In(b, Spot("cbQ"))
    BY <1>2 DEF In, Spot
  <2> QED
    BY <1>2, <2>1, Alone, SpotTypes DEF PlaceInv, In, Spot
<1>4. UNCHANGED Calling
  BY DEF Calling
<1> HIDE DEF b
<1>5. CASE b \in Frames
  <2>1. b \in Lent /\ Lent' = Lent \ {b}
    BY <1>1, <1>2, <1>3, <1>5 DEF Lent
  <2> QED
    BY <1>1, <1>4, <1>5, <2>1, PortSteps
<1>6. CASE b \notin Frames
  <2>1. Lent' = Lent
    BY <1>1, <1>2, <1>6 DEF Lent
  <2> QED
    BY <1>1, <1>4, <2>1, PortSteps
<1> QED
  BY <1>5, <1>6

\* A send: the port takes a header it does not have, or the header is lost.
LEMMA SendPort ==
  ASSUME NEW b \in Frames, b \notin gpu, b \notin Range(cbQ), SendOK(b) \/ SendRefused(b),
         UNCHANGED <<cbQ, enabled, Calling>>
  PROVE  PortPromise!Next \/ UNCHANGED PortPromise!vars
<1>1. CASE SendOK(b)
  <2>1. enabled /\ b \notin Lent /\ Lent' = Lent \cup {b}
    BY <1>1 DEF SendOK, Lent
  <2> QED
    BY <2>1, PortSteps
<1>2. CASE SendRefused(b)
  BY <1>2, PortSteps DEF SendRefused, Lent
<1> QED
  BY <1>1, <1>2

\* Every step of the pipeline is one that the port's promise allows, or nothing to the
\* port.
LEMMA PortNext ==
  ASSUME IInv, PlaceInv, StageInv, [Next]_vars
  PROVE  PortPromise!Next \/ UNCHANGED PortPromise!vars
<1> USE DEF At, Goto, queues, port, threads, context, numbers, faults
<1> DEFINE G == PortPromise!Next \/ UNCHANGED PortPromise!vars
<1>0. pc \in [Threads -> Labels] /\ "app" \in Threads /\ "action" \in Threads
  BY DEF IInv, TypeOK, ThreadTypes, Threads
<1>1. ASSUME UNCHANGED <<gpu, cbQ, enabled, Calling>> PROVE G
  BY <1>1, PortSteps DEF Lent
<1>2. ASSUME NEW b \in Frames, DeliverFrame(b) \/ ReturnUnfilled(b) PROVE G
  <2>1. b \in Buffers /\ b \in gpu /\ gpu' = gpu \ {b} /\ cbQ' = Append(cbQ, b)
        /\ UNCHANGED <<enabled, Calling>>
    BY <1>2 DEF DeliverFrame, ReturnUnfilled, Buffers, Calling
  <2> QED
    BY <2>1, QueuedLent, PortSteps
<1>3. ASSUME NEW e \in Events, DeliverEvent(e) PROVE G
  <2>1. e \in Buffers /\ gpu' = gpu /\ e \notin gpu /\ cbQ' = Append(cbQ, e)
        /\ UNCHANGED <<enabled, Calling>>
    BY <1>3, BufferAssumption DEF DeliverEvent, Buffers, Calling, IInv, TypeOK, BufferTypes
  <2> QED
    BY <2>1, QueuedLent, PortSteps
<1>4. ASSUME ActionTake PROVE G
  <2>1. TakeCallback("action") /\ pc'["app"] = pc["app"]
    BY <1>0, <1>4 DEF ActionTake, TakeCallback
  <2>2. Calling
    BY <1>4 DEF ActionTake, TakeCallback, StageInv, Closing, Closed, Calling
  <2> QED
    BY <1>0, <2>1, <2>2, TakeCallbackPort DEF Calling
<1>5. ASSUME DrainTake PROVE G
  <2>1. TakeCallback("app") /\ pc["app"] = "drain" /\ pc'["app"] = "length"
    BY <1>0, <1>5 DEF DrainTake, TakeCallback
  <2> QED
    BY <1>0, <2>1, TakeCallbackPort DEF Calling
<1>6. ASSUME NEW t \in Threads, SendNew(t) PROVE G
  <2>1. hand[t] \in Frames /\ In(hand[t], <<"hand", t>>)
    BY <1>6 DEF SendNew, IInv, InHand, In
  <2>2. \A r \in Spots : In(hand[t], r) <=> r = <<"hand", t>>
    BY <2>1, Alone, SpotTypes DEF PlaceInv, Buffers
  <2>3. hand[t] \notin gpu /\ hand[t] \notin Range(cbQ)
    BY <2>2, SpotTypes DEF In, Spot
  <2>4. UNCHANGED <<cbQ, enabled, Calling>>
    BY <1>0, <1>6 DEF SendNew, Resume, Calling
  <2> QED
    BY <1>6, <2>1, <2>3, <2>4, SendPort DEF SendNew
<1>7. ASSUME FillPort PROVE G
  <2>1. poolQ \in Seq(Frames) /\ poolQ # <<>>
    BY <1>7 DEF FillPort, IInv, TypeOK, BufferTypes
  <2>2. Head(poolQ) \in Frames /\ Head(poolQ) \in Range(poolQ)
    BY <2>1, TailElements
  <2>3. Head(poolQ) \notin gpu /\ Head(poolQ) \notin Range(cbQ)
    BY <2>2, Alone, SpotTypes DEF PlaceInv, In, Spot, Buffers
  <2>4. UNCHANGED <<cbQ, enabled, Calling>>
    BY <1>0, <1>7 DEF FillPort, Calling
  <2> QED
    BY <1>7, <2>2, <2>3, <2>4, SendPort DEF FillPort
<1>8. ASSUME NEW t \in Threads, Callback(t) PROVE G
  <2>1. ASSUME CheckLength(t) \/ Displace(t) \/ ReleaseExisting(t) \/ CheckEnabled(t)
                 \/ GetNew(t) \/ PutOutput(t) \/ ReturnFromCallback(t) \/ FaultOnFreedQueue(t)
        PROVE  UNCHANGED <<gpu, cbQ, enabled, Calling>>
    BY <1>0, <2>1 DEF CheckLength, Displace, ReleaseExisting, CheckEnabled, GetNew, PutOutput,
       ReturnFromCallback, FaultOnFreedQueue, Resume, AfterMiss, Calling
  <2> QED
    BY <1>1, <1>6, <1>8, <2>1 DEF Callback
<1>9. ASSUME ActionLock \/ ActionUnlock PROVE G
  BY <1>0, <1>1, <1>9 DEF ActionLock, ActionUnlock, Calling
<1>10. ASSUME PortFilled \/ CreateOutputQueue \/ OutputQueueFails \/ StartCapture
                \/ LockAction \/ VCDisabled \/ DrainDone \/ FreePool
       PROVE  G
  BY <1>0, <1>1, <1>10 DEF PortFilled, CreateOutputQueue, OutputQueueFails, StartCapture,
     LockAction, VCDisabled, DrainDone, FreePool, Calling
<1>11. ASSUME PoolDestroy PROVE G
  <2>1. pc["app"] = "poolDestroy" /\ enabled
    BY <1>11 DEF PoolDestroy, StageInv, Closing, Closed, Draining, IInv, Between, AppOnly, Threads
  <2> QED
    BY <1>0, <1>1, <1>11, <2>1 DEF PoolDestroy, Calling
<1>12. ASSUME DisablePort PROVE G
  BY <1>0, <1>12, PortSteps DEF DisablePort, Calling, Lent
<1>13. ASSUME WaitTransit PROVE G
  <2>1. ~enabled /\ gpu = {} /\ cbQ = <<>>
    BY <1>13 DEF WaitTransit, StageInv, Closing, Closed
  <2>2. Lent = {} /\ Lent' = Lent
    BY <1>13, <2>1 DEF WaitTransit, Lent, Range
  <2>3. enabled' = enabled /\ ~Calling'
    BY <1>0, <1>13 DEF WaitTransit, Calling
  <2> QED
    BY <2>1, <2>2, <2>3, PortSteps
<1>14. ASSUME BeginReadFrame \/ EndReadFrame \/ DestroyOutputQueue \/ UNCHANGED vars PROVE G
  BY <1>0, <1>1, <1>14 DEF BeginReadFrame, EndReadFrame, DestroyOutputQueue, vars, Calling
<1>15. ASSUME App PROVE G
  BY <1>0, <1>5, <1>7, <1>8, <1>10, <1>11, <1>12, <1>13, <1>14, <1>15 DEF App, AppCall
<1>16. ASSUME ActionThread PROVE G
  BY <1>0, <1>4, <1>8, <1>9, <1>16 DEF ActionThread
<1> QED
  BY <1>2, <1>3, <1>14, <1>15, <1>16 DEF Next, Ended

\* The port the pipeline is written for is the one HeaderPort promises, for any number
\* of headers: OnVideoBufferCallback, EndReadFrame and Init send it only headers of the
\* pool that it does not have, and Release drops the callback when none is left.
THEOREM PortUsedAsPromised == Spec => ImplementsPort
<1>1. Init => PortPromise!Init
  <2> SUFFICES ASSUME Init PROVE PortPromise!Init
    OBVIOUS
  <2>1. gpu = {} /\ cbQ = <<>> /\ enabled = TRUE /\ pc["app"] = "fill"
    BY DEF Init, Threads
  <2> QED
    BY <2>1, PortSteps DEF Lent, Calling, Range
<1>2. IInv /\ PlaceInv /\ StageInv /\ [Next]_vars => [PortPromise!Next]_PortPromise!vars
  BY PortNext
<1> QED
  BY <1>1, <1>2, PlacesAndStages, PTL DEF Spec, ImplementsPort, PortPromise!Spec

=============================================================================
