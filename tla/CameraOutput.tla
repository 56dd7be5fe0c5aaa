---------------------------- MODULE CameraOutput ----------------------------
(***************************************************************************)
(* The frame pipeline of CCameraOutput (src/Project/camera.cpp).           *)
(*                                                                         *)
(* A fixed set of buffer headers circulates between the pool queue, the    *)
(* VideoCore side of the port, the component's callback queue, the output  *)
(* queue and the reader.  Two threads of the client move them: the         *)
(* application ("app": Init, BeginReadFrame, EndReadFrame, Release) and    *)
(* the MMAL action thread ("action": OnVideoBufferCallback).  VideoCore    *)
(* itself fills buffers and hands them to the VCHIQ thread, which queues   *)
(* them for the action thread.                                             *)
(*                                                                         *)
(* An operation on an MMAL queue is one step: mmal_queue_put and           *)
(* mmal_queue_get hold the queue's mutex (module MMALQueue shows that they *)
(* are atomic); mmal_queue_length takes no lock and is a step of its own.  *)
(***************************************************************************)
EXTENDS Integers, Sequences, FiniteSets, Functions

CONSTANTS
  Frames,       \* the buffer headers of BufferPool
  Events,       \* the buffer headers of the component's event pool
  None,         \* no buffer header, or no thread
  MaxStamp,     \* frame numbers saturate here
  MaxFailures,  \* bound on the sends VideoCore refuses
  Paired,       \* the application calls EndReadFrame before it begins again
  Resized       \* Init put a resizer between the camera and the pool's port

ASSUME BufferAssumption ==
  /\ IsFiniteSet(Frames) /\ Frames # {}
  /\ Frames \cap Events = {}
  /\ None \notin Frames \cup Events \cup {"app", "action"}

ASSUME BoundAssumption ==
  MaxStamp \in Nat /\ MaxFailures \in Nat /\ Paired \in BOOLEAN /\ Resized \in BOOLEAN

Buffers == Frames \cup Events
Threads == {"app", "action"}

VARIABLES
  poolQ,      \* BufferPool->queue
  evPool,     \* the free event headers of the component
  gpu,        \* the headers VideoCore holds
  cbQ,        \* callback_queue of the VideoCore component
  outQ,       \* OutputQueue
  outQState,  \* "null" before Init stores it, "live", "freed"
  enabled,    \* BufferPort->is_enabled
  capturing,  \* MMAL_PARAMETER_CAPTURE is set on the camera's video port
  transit,    \* transit_buffer_headers of the port
  actLock,    \* holder of the component's action_mutex
  pc,         \* where each thread is
  cur,        \* the header whose callback a thread is running
  hand,       \* existing_buffer or new_buffer in a thread's locals
  locked,     \* LockedBuffer
  stamp,      \* the number of the frame (or event) a header carries
  clock,      \* frames and events VideoCore has produced
  lastRead,   \* number of the last message BeginReadFrame returned
  lost,       \* pool headers no queue, thread or device refers to any more
  failures,   \* sends VideoCore has refused
  crashed     \* a thread took a fault

queues  == <<poolQ, evPool, cbQ, outQ>>
port    == <<gpu, enabled, transit>>
threads == <<pc, cur, hand>>
numbers == <<stamp, clock, lastRead>>
faults  == <<lost, failures, crashed>>
context == <<numbers, faults, outQState, capturing, actLock, locked>>
vars    == <<queues, port, threads, context>>

\* Where a thread is inside OnVideoBufferCallback, or inside the tail that
\* EndReadFrame shares with it ("enabled", "get", "send").
Resending   == {"enabled", "get", "send"}
InCallback  == {"length", "displace", "release", "put", "return"}
Disabling   == {"disable", "lock", "disableVC", "drain", "wait"}
AppOnly     == {"fill", "queue", "capture", "ready", "poolDestroy", "poolFree", "closed"}
               \cup Disabling
Labels      == Resending \cup InCallback \cup AppOnly \cup {"idle", "loop"}

At(t, label)     == ~crashed /\ pc[t] = label
Goto(t, label)   == pc' = [pc EXCEPT ![t] = label]
NextStamp(x)         == IF x < MaxStamp THEN x + 1 ELSE MaxStamp

BufferTypes ==
  /\ poolQ \in Seq(Frames) /\ evPool \subseteq Events
  /\ gpu \subseteq Frames /\ cbQ \in Seq(Buffers) /\ outQ \in Seq(Buffers)
  /\ locked \in Buffers \cup {None} /\ lost \subseteq Buffers

ThreadTypes ==
  /\ outQState \in {"null", "live", "freed"}
  /\ actLock \in Threads \cup {None}
  /\ pc \in [Threads -> Labels]
  /\ cur \in [Threads -> Buffers \cup {None}]
  /\ hand \in [Threads -> Buffers \cup {None}]

NumberTypes ==
  /\ transit \in Int /\ failures \in 0..MaxFailures
  /\ stamp \in [Buffers -> 0..MaxStamp] /\ clock \in 0..MaxStamp /\ lastRead \in 0..MaxStamp

FlagTypes == enabled \in BOOLEAN /\ capturing \in BOOLEAN /\ crashed \in BOOLEAN

\* Every variable has its type: pool headers and event headers are never mixed up,
\* each goes back to the pool it came from (mmal_buffer_header_release).
TypeOK == BufferTypes /\ ThreadTypes /\ NumberTypes /\ FlagTypes

\* EnablePortCallbackAndCreateBufferPool has created the pool and enabled the
\* port; all the headers are still in the pool queue.
Init ==
  /\ poolQ \in {s \in [1..Cardinality(Frames) -> Frames] : Range(s) = Frames}
  /\ evPool = Events /\ gpu = {} /\ cbQ = <<>> /\ outQ = <<>>
  /\ outQState = "null" /\ enabled = TRUE /\ capturing = FALSE /\ transit = 0
  /\ actLock = None
  /\ pc = [t \in Threads |-> IF t = "app" THEN "fill" ELSE "idle"]
  /\ cur = [t \in Threads |-> None] /\ hand = [t \in Threads |-> None]
  /\ locked = None
  /\ stamp = [b \in Buffers |-> 0] /\ clock = 0 /\ lastRead = 0
  /\ lost = {} /\ failures = 0 /\ crashed = FALSE

-----------------------------------------------------------------------------
(* mmal_port_send_buffer(BufferPort, b): the send lock makes the test of    *)
(* is_enabled and the hand-over one step.  An event header carries no       *)
(* payload request and never gets here: b comes from the pool queue.        *)

SendOK(b) ==
  /\ enabled
  /\ gpu' = gpu \cup {b} /\ transit' = transit + 1
  /\ UNCHANGED <<lost, failures>>

\* The caller prints a line and forgets the header.
SendRefused(b) ==
  /\ \/ ~enabled /\ UNCHANGED failures
     \/ enabled /\ failures < MaxFailures /\ failures' = failures + 1
  /\ lost' = lost \cup {b}
  /\ UNCHANGED <<gpu, transit>>

\* Mutant: an event header is released to the pool of the port.
ReleaseToPool(b) == poolQ' = Append(poolQ, b) /\ UNCHANGED evPool

\* mmal_buffer_header_release: a header goes back to the pool that owns it.
Release(b) ==
  IF b \in Frames
  THEN poolQ' = Append(poolQ, b) /\ UNCHANGED evPool
  ELSE evPool' = evPool \cup {b} /\ UNCHANGED poolQ

-----------------------------------------------------------------------------
(* VideoCore and the VCHIQ thread.                                          *)

\* VideoCore fills a buffer; mmal_vc_port_send_callback queues it.
DeliverFrame(b) ==
  /\ ~crashed /\ capturing /\ b \in gpu
  /\ gpu' = gpu \ {b} /\ cbQ' = Append(cbQ, b)
  /\ clock' = NextStamp(clock) /\ stamp' = [stamp EXCEPT ![b] = NextStamp(clock)]
  /\ UNCHANGED <<poolQ, evPool, outQ, enabled, transit, threads, lastRead, faults,
                 outQState, capturing, actLock, locked>>

\* mmal_vc_handle_event_msg takes a free event header for an event of the port.
DeliverEvent(e) ==
  /\ ~crashed /\ capturing /\ (enabled \/ pc["app"] \in {"lock", "disableVC"})
  /\ e \in evPool
  /\ evPool' = evPool \ {e} /\ cbQ' = Append(cbQ, e)
  /\ clock' = NextStamp(clock) /\ stamp' = [stamp EXCEPT ![e] = NextStamp(clock)]
  /\ UNCHANGED <<poolQ, outQ, port, threads, lastRead, faults,
                 outQState, capturing, actLock, locked>>

\* On MMAL_WORKER_PORT_ACTION_DISABLE VideoCore returns the buffers unfilled.
ReturnUnfilled(b) ==
  /\ At("app", "disableVC") /\ b \in gpu
  /\ gpu' = gpu \ {b} /\ cbQ' = Append(cbQ, b)
  /\ UNCHANGED <<poolQ, evPool, outQ, enabled, transit, threads, context>>

-----------------------------------------------------------------------------
(* OnVideoBufferCallback, on the action thread or, while the port is being  *)
(* disabled, on the thread that disables it.                                *)

\* mmal_vc_do_callback: the next header of callback_queue.
TakeCallback(t) ==
  /\ cbQ # <<>>
  /\ cur' = [cur EXCEPT ![t] = Head(cbQ)] /\ cbQ' = Tail(cbQ)
  /\ Goto(t, "length")
  /\ UNCHANGED <<poolQ, evPool, outQ, port, hand, context>>

\* Mutants: one header more, or one less, may wait.
OutputLimitThree == 3
OutputLimitOne == 1

\* Headers that wait for the reader before the callback displaces the oldest
OutputLimit == 2

\* "if(mmal_queue_length(OutputQueue)>=2)", read without the queue's lock
CheckLength(t) ==
  /\ At(t, "length")
  /\ Goto(t, IF Len(outQ) >= OutputLimit THEN "displace" ELSE "put")
  /\ UNCHANGED <<queues, port, cur, hand, context>>

\* Mutant: the recycling is outside the "if" on existing_buffer.
AfterMissRecycle == "enabled"

\* Where the callback goes when the reader has emptied OutputQueue meanwhile
AfterMiss == "put"

\* existing_buffer = mmal_queue_get(OutputQueue)
Displace(t) ==
  /\ At(t, "displace")
  /\ IF outQ = <<>>
     THEN Goto(t, AfterMiss) /\ UNCHANGED <<outQ, hand>>
     ELSE /\ hand' = [hand EXCEPT ![t] = Head(outQ)] /\ outQ' = Tail(outQ)
          /\ Goto(t, "release")
  /\ UNCHANGED <<poolQ, evPool, cbQ, port, cur, context>>

ReleaseExisting(t) ==
  /\ At(t, "release")
  /\ Release(hand[t])
  /\ hand' = [hand EXCEPT ![t] = None]
  /\ Goto(t, "enabled")
  /\ UNCHANGED <<cbQ, outQ, port, cur, context>>

\* Where a thread goes once its attempt to recycle a buffer is over: the
\* callback goes on to queue its own buffer, EndReadFrame returns.
Resume(t) == IF cur[t] # None THEN "put" ELSE "ready"

\* Mutant: the test is the wrong way round.
PortOpenInverted == ~enabled

PortOpen == enabled

\* "if (port->is_enabled)", read without the send lock
CheckEnabled(t) ==
  /\ At(t, "enabled")
  /\ Goto(t, IF PortOpen THEN "get" ELSE Resume(t))
  /\ UNCHANGED <<queues, port, cur, hand, context>>

\* new_buffer = mmal_queue_get(BufferPool->queue)
GetNew(t) ==
  /\ At(t, "get")
  /\ IF poolQ = <<>>
     THEN Goto(t, Resume(t)) /\ UNCHANGED <<poolQ, hand>>
     ELSE /\ hand' = [hand EXCEPT ![t] = Head(poolQ)] /\ poolQ' = Tail(poolQ)
          /\ Goto(t, "send")
  /\ UNCHANGED <<evPool, cbQ, outQ, port, cur, context>>

SendNew(t) ==
  /\ At(t, "send")
  /\ SendOK(hand[t]) \/ SendRefused(hand[t])
  /\ hand' = [hand EXCEPT ![t] = None]
  /\ Goto(t, Resume(t))
  /\ UNCHANGED <<queues, enabled, cur, numbers, crashed,
                 outQState, capturing, actLock, locked>>

\* Mutant: mmal_queue_put_back instead of mmal_queue_put.
QueuedInFront(q, b) == <<b>> \o q

Queued(q, b) == Append(q, b)

\* mmal_queue_put(OutputQueue, buffer), which ignores a NULL queue
PutOutput(t) ==
  /\ At(t, "put")
  /\ IF outQState = "null"
     THEN lost' = lost \cup {cur[t]} /\ UNCHANGED outQ
     ELSE outQ' = Queued(outQ, cur[t]) /\ UNCHANGED lost
  /\ Goto(t, "return")
  /\ UNCHANGED <<poolQ, evPool, cbQ, port, cur, hand, numbers, failures, crashed,
                 outQState, capturing, actLock, locked>>

\* Mutants: events are counted out too; the callbacks that mmal_port_disable
\* runs itself are not counted out.
CountedAlways(t) == TRUE
CountedOnAction(t) == t = "action" /\ cur[t] \in Frames

\* Whether the header whose callback returns was counted in when it was sent
Counted(t) == cur[t] \in Frames

\* mmal_port_buffer_header_callback counts the header out after the client's
\* callback; mmal_port_event_send does not count.
ReturnFromCallback(t) ==
  /\ At(t, "return")
  /\ transit' = IF Counted(t) THEN transit - 1 ELSE transit
  /\ cur' = [cur EXCEPT ![t] = None]
  /\ Goto(t, IF t = "app" THEN "drain" ELSE "loop")
  /\ UNCHANGED <<queues, gpu, enabled, hand, context>>

\* A callback that uses OutputQueue after mmal_queue_destroy may fault; if the
\* memory has not been reused it goes on as the actions above describe.
FaultOnFreedQueue(t) ==
  /\ \E label \in {"length", "displace", "put"} : At(t, label)
  /\ outQState = "freed"
  /\ crashed' = TRUE
  /\ UNCHANGED <<queues, port, threads, numbers, lost, failures,
                 outQState, capturing, actLock, locked>>

Callback(t) ==
  \/ CheckLength(t) \/ Displace(t) \/ ReleaseExisting(t)
  \/ CheckEnabled(t) \/ GetNew(t) \/ SendNew(t)
  \/ PutOutput(t) \/ ReturnFromCallback(t)
  \/ FaultOnFreedQueue(t)

-----------------------------------------------------------------------------
(* The action thread of the component: mmal_vc_do_callback_loop under       *)
(* action_mutex whenever it has been triggered.                             *)

ActionLock ==
  /\ At("action", "idle") /\ cbQ # <<>> /\ actLock = None
  /\ actLock' = "action" /\ Goto("action", "loop")
  /\ UNCHANGED <<queues, port, cur, hand, numbers, faults, outQState, capturing, locked>>

ActionTake == At("action", "loop") /\ TakeCallback("action")

ActionUnlock ==
  /\ At("action", "loop") /\ cbQ = <<>>
  /\ actLock' = None /\ Goto("action", "idle")
  /\ UNCHANGED <<queues, port, cur, hand, numbers, faults, outQState, capturing, locked>>

ActionThread == ActionLock \/ ActionTake \/ ActionUnlock \/ Callback("action")

-----------------------------------------------------------------------------
(* The application: the end of Init.                                        *)

\* The loop of EnablePortCallbackAndCreateBufferPool that sends every header;
\* a send that fails makes it destroy the pool.
FillPort ==
  /\ At("app", "fill")
  /\ poolQ # <<>> /\ poolQ' = Tail(poolQ)
  /\ \/ SendOK(Head(poolQ)) /\ UNCHANGED pc
     \/ SendRefused(Head(poolQ)) /\ Goto("app", "poolDestroy")
  /\ UNCHANGED <<evPool, cbQ, outQ, enabled, cur, hand, numbers, crashed,
                 outQState, capturing, actLock, locked>>

PortFilled ==
  /\ At("app", "fill") /\ poolQ = <<>>
  /\ Goto("app", "queue")
  /\ UNCHANGED <<queues, port, cur, hand, context>>

\* Init stores OutputQueue and the other members
CreateOutputQueue ==
  /\ At("app", "queue")
  /\ outQState' = "live" /\ Goto("app", "capture")
  /\ UNCHANGED <<queues, port, cur, hand, numbers, faults, capturing, actLock, locked>>

\* mmal_queue_create failed: the error path destroys the pool of
\* resizer->output[0], and faults when there is no resizer.
OutputQueueFails ==
  /\ At("app", "queue")
  /\ IF Resized THEN Goto("app", "poolDestroy") /\ UNCHANGED crashed
                ELSE crashed' = TRUE /\ UNCHANGED pc
  /\ UNCHANGED <<queues, port, cur, hand, numbers, lost, failures,
                 outQState, capturing, actLock, locked>>

StartCapture ==
  /\ At("app", "capture")
  /\ capturing' = TRUE /\ Goto("app", "ready")
  /\ UNCHANGED <<queues, port, cur, hand, numbers, faults, outQState, actLock, locked>>

-----------------------------------------------------------------------------
(* The application: reading.                                                *)

\* BeginReadFrame when OutputQueue has a header (otherwise it returns false
\* and changes nothing).  A header still locked is overwritten.
BeginReadFrame ==
  /\ At("app", "ready") /\ outQ # <<>>
  /\ Paired => locked = None
  /\ locked' = Head(outQ) /\ outQ' = Tail(outQ)
  /\ lost' = IF locked = None THEN lost ELSE lost \cup {locked}
  /\ lastRead' = stamp[Head(outQ)]
  /\ UNCHANGED <<poolQ, evPool, cbQ, port, threads, stamp, clock, failures, crashed,
                 outQState, capturing, actLock>>

\* Mutant: LockedBuffer is not reset.
UnlockNothing == UNCHANGED locked

Unlock == locked' = None

EndReadFrame ==
  /\ At("app", "ready") /\ locked # None
  /\ Release(locked) /\ Unlock
  /\ Goto("app", "enabled")
  /\ UNCHANGED <<cbQ, outQ, port, cur, hand, numbers, faults,
                 outQState, capturing, actLock>>

-----------------------------------------------------------------------------
(* The application: CCameraOutput::Release, from StopCamera.                *)

DestroyOutputQueue ==
  /\ At("app", "ready")
  /\ Paired => locked = None
  /\ outQState' = "freed" /\ Goto("app", "poolDestroy")
  /\ UNCHANGED <<queues, port, cur, hand, numbers, faults, capturing, actLock, locked>>

\* mmal_port_pool_destroy verifies that the port is disabled, and disables it.
PoolDestroy ==
  /\ At("app", "poolDestroy")
  /\ Goto("app", IF enabled THEN "disable" ELSE "poolFree")
  /\ UNCHANGED <<queues, port, cur, hand, context>>

\* mmal_port_disable_internal: is_enabled is cleared under the send lock
DisablePort ==
  /\ At("app", "disable")
  /\ enabled' = FALSE /\ Goto("app", "lock")
  /\ UNCHANGED <<queues, gpu, transit, cur, hand, context>>

LockAction ==
  /\ At("app", "lock") /\ actLock = None
  /\ actLock' = "app" /\ Goto("app", "disableVC")
  /\ UNCHANGED <<queues, port, cur, hand, numbers, faults, outQState, capturing, locked>>

\* The reply to the disable message comes after the last returned buffer.
VCDisabled ==
  /\ At("app", "disableVC") /\ gpu = {}
  /\ Goto("app", "drain")
  /\ UNCHANGED <<queues, port, cur, hand, context>>

\* mmal_vc_port_disable runs the callbacks that are still queued.
DrainTake == At("app", "drain") /\ TakeCallback("app")

\* Mutant: mmal_vc_port_disable leaves the queued callbacks alone.
DrainedAlways == TRUE

Drained == cbQ = <<>>

DrainDone ==
  /\ At("app", "drain") /\ Drained
  /\ actLock' = None /\ Goto("app", "wait")
  /\ UNCHANGED <<queues, port, cur, hand, numbers, faults, outQState, capturing, locked>>

\* IN_TRANSIT_WAIT
WaitTransit ==
  /\ At("app", "wait") /\ transit = 0
  /\ Goto("app", "poolFree")
  /\ UNCHANGED <<queues, port, cur, hand, context>>

\* mmal_pool_destroy: the headers and the pool queue are freed.
FreePool ==
  /\ At("app", "poolFree")
  /\ Goto("app", "closed")
  /\ UNCHANGED <<queues, port, cur, hand, context>>

AppCall ==
  \/ FillPort \/ PortFilled \/ CreateOutputQueue \/ OutputQueueFails \/ StartCapture
  \/ PoolDestroy \/ DisablePort \/ LockAction \/ VCDisabled
  \/ DrainTake \/ DrainDone \/ WaitTransit \/ FreePool
  \/ Callback("app")

App == AppCall \/ BeginReadFrame \/ EndReadFrame \/ DestroyOutputQueue

\* The process ends after StopCamera, or with the fault.
Ended == (crashed \/ pc["app"] = "closed") /\ UNCHANGED vars

Next ==
  \/ App
  \/ ActionThread
  \/ \E b \in Frames : DeliverFrame(b) \/ ReturnUnfilled(b)
  \/ \E e \in Events : DeliverEvent(e)
  \/ Ended

Spec == Init /\ [][Next]_vars

-----------------------------------------------------------------------------
(* Safety.                                                                  *)

\* The places that own buffer header b; a callback owns its header until it has
\* put it in a queue.
Whereabouts(b) ==
  {<<"poolQ", i>> : i \in {j \in DOMAIN poolQ : poolQ[j] = b}} \cup
  {<<"cbQ", i>>   : i \in {j \in DOMAIN cbQ   : cbQ[j] = b}} \cup
  {<<"outQ", i>>  : i \in {j \in DOMAIN outQ  : outQ[j] = b}} \cup
  {<<"cur", t>>   : t \in {u \in Threads : cur[u] = b /\ pc[u] # "return"}} \cup
  {<<"hand", t>>  : t \in {u \in Threads : hand[u] = b}} \cup
  {<<"gpu", x>> : x \in gpu \cap {b}} \cup {<<"evPool", x>> : x \in evPool \cap {b}} \cup
  {<<"locked", x>> : x \in {locked} \cap {b}} \cup {<<"lost", x>> : x \in lost \cap {b}}

\* Every header is in exactly one place, whatever the reader, the action thread
\* and VideoCore do at the same time: no interleaving of OnVideoBufferCallback,
\* EndReadFrame and Release sends, queues or hands out a header twice, and none
\* disappears without being accounted for in lost.
OneHolder == \A b \in Buffers : \E p \in Whereabouts(b) : Whereabouts(b) = {p}

\* OnVideoBufferCallback keeps at most two headers waiting for the reader,
\* although it tests the length before it takes the lock and the reader may
\* empty the queue in between.
OutputBound == Len(outQ) <= 2

\* A pool header is idle in the pool queue only while some thread is between
\* releasing a header and taking one out to send it: each of the two recycling
\* paths sends a header for every header it releases, so none is stranded.
NoneStranded ==
  enabled /\ capturing =>
    Len(poolQ) <= Cardinality({t \in Threads : pc[t] \in {"enabled", "get"}})

\* "Unable to return a buffer" is never printed for want of a pool header
\* when the component sends no events: both threads may be recycling at once
\* and each still finds one.
NoShortage ==
  Events = {} => \A t \in Threads : pc[t] = "get" => poolQ # <<>>

\* transit_buffer_headers counts exactly the headers that were sent and whose
\* callback has not returned, so IN_TRANSIT_WAIT waits for them and no longer.
TransitExact ==
  transit = Cardinality(gpu) + Cardinality({i \in DOMAIN cbQ : cbQ[i] \in Frames})
              + Cardinality({t \in Threads : cur[t] \in Frames})

\* When Release frees the pool, no thread, queue or device still uses one of
\* its headers or is about to.
PoolFreedQuiescent ==
  pc["app"] \in {"poolFree", "closed"} /\ ~crashed =>
    /\ gpu = {} /\ cbQ = <<>> /\ transit = 0
    /\ pc["action"] = "idle" /\ cur["action"] = None

\* BeginReadFrame never hands out a frame older than one it handed out before,
\* nor the same one again, however callbacks displace frames in between.
ReadsInOrder ==
  [][ locked' # None /\ locked' # locked =>
        lastRead' > lastRead \/ lastRead' = MaxStamp ]_vars

\* Release never leaves the memory of OutputQueue to a callback: a thread that
\* is about to use OutputQueue finds it alive.
QueueOutlivesCallbacks ==
  outQState = "freed" =>
    \A t \in Threads : pc[t] \notin {"length", "displace", "put"}

-----------------------------------------------------------------------------
(* The promise to the reader, as an abstract specification: while           *)
(* OutputQueue lives, the numbers of the headers in it are a mailbox of two *)
(* frames, whatever the callback and the reader do to it at the same time.  *)

Mailbox == INSTANCE FrameMailbox WITH
  Capacity <- 2,
  box   <- IF outQState = "live" THEN [i \in DOMAIN outQ |-> stamp[outQ[i]]] ELSE <<>>,
  last  <- lastRead,
  phase <- outQState

ImplementsMailbox == Mailbox!Spec

-----------------------------------------------------------------------------
(* The promise of the port, as an abstract specification: MMALPort keeps    *)
(* it, and the pipeline is written for it.                                  *)

\* The pool headers the port has, until their callbacks begin
Lent == gpu \cup (Range(cbQ) \cap Frames)

\* mmal_port_disable returns without the callback.
Calling == pc["app"] \notin {"poolFree", "closed"}

PortPromise == INSTANCE HeaderPort WITH
  Headers <- Frames, accepting <- enabled, calling <- Calling, lent <- Lent

\* What the pipeline asks of BufferPort is what HeaderPort promises: only headers of the
\* pool are sent, to an enabled port, none while the port still has it, and Release frees
\* the pool after the step in which the port, disabled and empty, drops the callback.
ImplementsPort == PortPromise!Spec

-----------------------------------------------------------------------------
(* Liveness.  Both threads run, VideoCore fills the buffers it has while it *)
(* captures and answers a disable; nothing obliges the application to read, *)
(* to stop or, in FairSpec, to finish a read.                               *)

Running == ~crashed /\ capturing /\ outQState = "live"

Fairness ==
  /\ WF_vars(AppCall) /\ WF_vars(ActionThread)
  /\ WF_vars(\E b \in Frames : DeliverFrame(b))
  /\ WF_vars(\E b \in Frames : ReturnUnfilled(b))

FairSpec == Spec /\ Fairness

\* The loop of main: it polls BeginReadFrame and ends each read.
Polling == WF_vars(BeginReadFrame) /\ WF_vars(EndReadFrame)

\* A reader that polls gets a frame: displacing the oldest frame never leaves
\* it polling an empty queue for ever.
ReaderServed == Polling => (Running /\ locked = None ~> locked # None \/ ~Running)

\* While no frame is locked and no send has been refused, VideoCore gets a buffer
\* back again and again, even when nobody reads: the callback recycles the frames
\* nobody wants.
CameraFed ==
  Running /\ locked = None /\ lost = {} ~> gpu # {} \/ locked # None \/ lost # {} \/ ~Running

\* Release comes to its end: neither the action lock, the drain nor the wait
\* for buffers in transit blocks it, unless the freed queue faults.
ReleaseEnds == pc["app"] = "poolDestroy" ~> pc["app"] = "closed" \/ crashed

=============================================================================
