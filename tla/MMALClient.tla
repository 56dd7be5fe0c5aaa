------------------------------ MODULE MMALClient ------------------------------
(***************************************************************************)
(* The client of VideoCore that a process has (mmal_vc_client.c): the      *)
(* threads that send messages, data in bulk transfers and requests to      *)
(* VideoCore, the pool of waiters on which they wait for replies, the      *)
(* reference count of the client and the use count of the service.         *)
(*                                                                         *)
(* The regions under client.lock are single steps: no thread waits inside  *)
(* one.  VCHIQ and VideoCore are external.                                 *)
(***************************************************************************)
EXTENDS Integers, Sequences, FiniteSets, Functions

CONSTANTS
  Callers,    \* the threads of the process, each with a component that has one port;
              \* the port's send_lock lets one send or flush in at a time
  Visitors,   \* callers with neither: each makes one request and leaves
  Waiters,    \* client.waitpool.waiters
  None,       \* no thread, no waiter, no message
  Contexts,   \* the size of a port's pool of client contexts
  Failing     \* the VCHIQ calls that may fail: "open", "use", "release", "queue", "bulk"

ASSUME SetAssumption ==
  /\ IsFiniteSet(Callers) /\ Visitors \subseteq Callers /\ IsFiniteSet(Waiters) /\ Waiters # {}
  /\ None \notin Callers \cup Waiters

ASSUME BoundAssumption ==
  Contexts \in Nat /\ Failing \subseteq {"open", "use", "release", "queue", "bulk"}

VARIABLES
  refcount, usecount, inited,  \* of the client
  open, inUse,  \* VCHIQ's service: whether it is open, and in use
  poolSem,      \* waitpool.sem
  waiterInUse,  \* the waiters with inuse set
  waiterSem,    \* the semaphore of each waiter
  bulkLock,     \* the holder of bulk_lock
  sentData,     \* the callers whose port has sent_data_on_port
  pc, call, waiter,  \* each thread: where it is, the message it sends, its waiter
  claimed,      \* the threads between a successful mmal_vc_use and its mmal_vc_release
  wire,         \* the messages VCHIQ has for VideoCore
  bulks,        \* the senders of the bulk transfers VCHIQ has for VideoCore
  receiving,    \* the messages whose bulk transfer VideoCore is ready to receive
  requests,     \* the messages VideoCore has to answer
  unused,       \* history: a vchiq_use_service has failed
  broken        \* history: a message went out and its bulk transfer did not

counts  == <<refcount, usecount, inited, open, inUse>>
pool    == <<poolSem, waiterInUse, waiterSem>>
locks   == <<bulkLock, sentData>>
threads == <<pc, call, waiter, claimed>>
vc      == <<wire, bulks, receiving, requests>>
vars    == <<counts, pool, locks, threads, vc, unused, broken>>

\* What a thread sends: data to its port, a flush of the port with or without a
\* dummy transfer, or another request.
Kinds    == {"data", "syncFlush", "flush", "request"}
Messages == [kind : Kinds, from : Callers, waiter : Waiters \cup {None}]
HasBulk(m) == m.kind \in {"data", "syncFlush"}
Waits(m)   == m.kind # "data"

Out     == {"out", "initRelease"}
Calling == {"lockBulk", "getWaiter", "scan", "use", "queue", "bulk", "wait", "release",
            "free", "post"}
Labels  == Out \cup Calling \cup {"claim", "idle", "deinit"}

TypeOK ==
  /\ refcount \in 0..Cardinality(Callers) /\ usecount \in Int /\ inited \in BOOLEAN
  /\ open \in BOOLEAN /\ inUse \in BOOLEAN
  /\ poolSem \in 0..Cardinality(Waiters) /\ waiterInUse \subseteq Waiters
  /\ waiterSem \in [Waiters -> Nat]
  /\ bulkLock \in Callers \cup {None} /\ sentData \subseteq Callers
  /\ pc \in [Callers -> Labels] /\ waiter \in [Callers -> Waiters \cup {None}]
  /\ call \in [Callers -> Messages \cup {None}] /\ claimed \subseteq Callers
  /\ wire \in Seq(Messages) /\ bulks \in Seq(Callers) /\ receiving \in Seq(Messages)
  /\ requests \subseteq Messages
  /\ unused \in BOOLEAN /\ broken \in BOOLEAN

Init ==
  /\ refcount = 0 /\ usecount = 0 /\ inited = FALSE /\ open = FALSE /\ inUse = FALSE
  /\ poolSem = 0 /\ waiterInUse = {} /\ waiterSem = [w \in Waiters |-> 0]
  /\ bulkLock = None /\ sentData = {}
  /\ pc = [t \in Callers |-> "out"] /\ call = [t \in Callers |-> None]
  /\ waiter = [t \in Callers |-> None] /\ claimed = {}
  /\ wire = <<>> /\ bulks = <<>> /\ receiving = <<>> /\ requests = {}
  /\ unused = FALSE /\ broken = FALSE

At(t, label)       == ~broken /\ pc[t] = label
Goto(t, label)     == pc' = [pc EXCEPT ![t] = label]
Step(t, from, to)  == At(t, from) /\ Goto(t, to)

-----------------------------------------------------------------------------
(* The life of the client: mmal_vc_init_fd, mmal_vc_use_internal,           *)
(* mmal_vc_release_internal and mmal_vc_deinit.                             *)

\* Mutant: the semaphore of the pool counts one waiter too many.
PoolSizeMore == Cardinality(Waiters) + 1

\* create_waitpool
PoolSize == Cardinality(Waiters)

\* The first mmal_vc_init opens the service, which is in use from then on.
VCInit(t) ==
  /\ refcount' = refcount + 1
  /\ IF refcount > 0
     THEN Step(t, "out", "claim") /\ UNCHANGED <<usecount, inited, open, inUse, pool>>
     ELSE /\ Step(t, "out", "initRelease")
          /\ usecount' = 1 /\ inited' = TRUE /\ open' = TRUE /\ inUse' = TRUE
          /\ poolSem' = PoolSize /\ waiterInUse' = {}
          /\ waiterSem' = [w \in Waiters |-> 0]
  /\ UNCHANGED <<locks, call, waiter, claimed, vc, unused, broken>>

\* A step of the first mmal_vc_init fails: the error path closes what was opened.
VCInitFails(t) ==
  /\ At(t, "out") /\ refcount = 0 /\ "open" \in Failing
  /\ usecount' \in {usecount, 0}
  /\ UNCHANGED <<refcount, inited, open, inUse, pool, locks, threads, vc, unused, broken>>

FirstUse == usecount = 0

\* mmal_vc_use_internal, which fails when vchiq_use_service does
Use ==
  \/ ~FirstUse /\ usecount' = usecount + 1 /\ UNCHANGED <<inUse, unused>>
  \/ FirstUse /\ usecount' = usecount + 1 /\ inUse' = TRUE /\ UNCHANGED unused
UseFails ==
  FirstUse /\ "use" \in Failing /\ unused' = TRUE /\ UNCHANGED <<usecount, inUse>>

LastUse == usecount = 1

\* mmal_vc_release_internal
Unuse ==
  \/ ~LastUse /\ usecount' = usecount - 1 /\ UNCHANGED inUse
  \/ LastUse /\ usecount' = usecount - 1 /\ inUse' = FALSE
  \/ LastUse /\ "release" \in Failing /\ UNCHANGED <<usecount, inUse>>

\* The first mmal_vc_init gives up the use of the open call, outside the lock.
InitRelease(t) ==
  /\ Step(t, "initRelease", "claim") /\ Unuse
  /\ UNCHANGED <<refcount, inited, open, pool, locks, call, waiter, claimed, vc, unused, broken>>

\* mmal_vc_component_create claims VideoCore for the component's life, and goes on
\* when it cannot.
ClaimVC(t) ==
  /\ t \notin Visitors /\ Step(t, "claim", "idle")
  /\ \/ Use /\ claimed' = claimed \cup {t}
     \/ UseFails /\ UNCHANGED claimed
  /\ UNCHANGED <<refcount, inited, open, pool, locks, call, waiter, vc, broken>>

\* The messages that VideoCore has not taken with their transfers, oldest first
Sent == receiving \o wire

\* The places of those that a thread sent
InFlight(t) == {i \in DOMAIN Sent : Sent[i].from = t}

\* mmal_vc_component_destroy, after the port was disabled, and a creation that
\* fails: mmal_vc_release, ...
UnclaimVC(t) ==
  /\ Step(t, "idle", "deinit")
  /\ InFlight(t) = {}
  /\ Unuse /\ claimed' = claimed \ {t} /\ sentData' = sentData \ {t}
  /\ UNCHANGED <<refcount, inited, open, pool, bulkLock, call, waiter, vc, unused, broken>>

\* Mutant: whoever leaves first closes the service.
LastReferenceAny == TRUE

LastReference == refcount = 1

\* ... then mmal_vc_deinit
VCDeinit(t) ==
  /\ Step(t, "deinit", "out")
  /\ refcount' = refcount - 1
  /\ IF LastReference
     THEN /\ inited' = FALSE /\ open' = FALSE /\ inUse' = FALSE
          /\ poolSem' = 0 /\ waiterInUse' = {} /\ waiterSem' = [w \in Waiters |-> 0]
     ELSE UNCHANGED <<inited, open, inUse, pool>>
  /\ UNCHANGED <<usecount, locks, call, waiter, claimed, vc, unused, broken>>

-----------------------------------------------------------------------------
(* mmal_vc_send_message and mmal_vc_sendwait_message                        *)

Begin(t, kind) ==
  /\ At(t, IF t \in Visitors THEN "claim" ELSE "idle")
  /\ call' = [call EXCEPT ![t] = [kind |-> kind, from |-> t, waiter |-> None]]
  /\ Goto(t, IF kind = "request" \/ kind = "flush" THEN "getWaiter" ELSE "lockBulk")
  /\ UNCHANGED <<counts, pool, bulkLock, waiter, claimed, vc, unused, broken>>

\* mmal_vc_port_send with a payload for a bulk transfer: a client context is
\* allocated and the port is marked before the message goes.
SendData(t) ==
  /\ t \notin Visitors /\ Cardinality(InFlight(t)) < Contexts
  /\ Begin(t, "data") /\ sentData' = sentData \cup {t}

\* Mutant: a flush never needs a dummy transfer.
FlushKindPlain(t) == "flush"

\* mmal_vc_port_flush
FlushKind(t) == IF t \in sentData THEN "syncFlush" ELSE "flush"

Flush(t)   == t \notin Visitors /\ Begin(t, FlushKind(t)) /\ UNCHANGED sentData
\* Any other request, among them those of mmal_vc_api_drm.c, which claim nothing
Request(t) == Begin(t, "request") /\ UNCHANGED sentData

BulkFree == bulkLock = None

LockBulk(t) ==
  /\ Step(t, "lockBulk", IF Waits(call[t]) THEN "getWaiter" ELSE "queue")
  /\ BulkFree /\ bulkLock' = t
  /\ UNCHANGED <<counts, pool, sentData, call, waiter, claimed, vc, unused, broken>>

\* get_waiter: the semaphore counts the free waiters, ...
GetWaiter(t) ==
  /\ Step(t, "getWaiter", "scan")
  /\ poolSem > 0 /\ poolSem' = poolSem - 1
  /\ UNCHANGED <<counts, waiterInUse, waiterSem, locks, call, waiter, claimed, vc, unused, broken>>

\* Mutant: the scan does not look at inuse.
FreeWaitersAll == Waiters

FreeWaiters == Waiters \ waiterInUse

\* ... and the scan for one takes the lock; vcos_verify says that there is one.
ScanWaiters(t) ==
  /\ Step(t, "scan", "use")
  /\ \E w \in FreeWaiters :
       /\ waiterInUse' = waiterInUse \cup {w}
       /\ waiter' = [waiter EXCEPT ![t] = w] /\ call' = [call EXCEPT ![t].waiter = w]
  /\ UNCHANGED <<counts, poolSem, waiterSem, locks, claimed, vc, unused, broken>>

\* sendwait ignores that mmal_vc_use_internal fails.
UseForCall(t) ==
  /\ Step(t, "use", "queue")
  /\ Use \/ UseFails
  /\ UNCHANGED <<refcount, inited, open, pool, locks, call, waiter, claimed, vc, broken>>

Returned(t) == IF t \in Visitors THEN "deinit" ELSE "idle"

\* Where the call goes once its message has gone, or has not
AfterSend(t) == IF Waits(call[t]) THEN "wait" ELSE Returned(t)
AfterFail(t) == IF Waits(call[t]) THEN "release" ELSE Returned(t)

\* Mutant: the lock is dropped between the message and its bulk transfer.
KeepBulkNot(t) == FALSE

\* Whether the lock is kept after the message
KeepBulk(t) == HasBulk(call[t])

\* vchiq_queue_message
QueueMessage(t) ==
  /\ At(t, "queue")
  /\ wire' = Append(wire, call[t])
  /\ Goto(t, IF HasBulk(call[t]) THEN "bulk" ELSE AfterSend(t))
  /\ bulkLock' = IF bulkLock = t /\ ~KeepBulk(t) THEN None ELSE bulkLock
  /\ UNCHANGED <<counts, pool, sentData, call, waiter, claimed, bulks, receiving, requests,
                 unused, broken>>

QueueFails(t) ==
  /\ "queue" \in Failing
  /\ Step(t, "queue", AfterFail(t))
  /\ bulkLock' = IF bulkLock = t THEN None ELSE bulkLock
  /\ UNCHANGED <<counts, pool, sentData, call, waiter, claimed, vc, unused, broken>>

\* vchiq_queue_bulk_transmit, then the lock is dropped.  It must not fail: the
\* message has gone already, and the code asserts that it stops here.
QueueBulk(t) ==
  /\ At(t, "bulk")
  /\ bulkLock' = None
  /\ \/ bulks' = Append(bulks, t) /\ Goto(t, AfterSend(t)) /\ UNCHANGED broken
     \/ "bulk" \in Failing /\ broken' = TRUE /\ Goto(t, AfterFail(t)) /\ UNCHANGED bulks
  /\ UNCHANGED <<counts, pool, sentData, call, waiter, claimed, wire, receiving, requests, unused>>

\* vcos_semaphore_wait(&waiter->sem)
WaitReply(t) ==
  /\ Step(t, "wait", "release")
  /\ waiterSem[waiter[t]] > 0
  /\ waiterSem' = [waiterSem EXCEPT ![waiter[t]] = @ - 1]
  /\ UNCHANGED <<counts, poolSem, waiterInUse, locks, call, waiter, claimed, vc, unused, broken>>

UnuseForCall(t) ==
  /\ Step(t, "release", "free") /\ Unuse
  /\ UNCHANGED <<refcount, inited, open, pool, locks, call, waiter, claimed, vc, unused, broken>>

\* release_waiter takes no lock: inuse is cleared, ...
FreeWaiter(t) ==
  /\ Step(t, "free", "post")
  /\ waiterInUse' = waiterInUse \ {waiter[t]}
  /\ waiter' = [waiter EXCEPT ![t] = None]
  /\ UNCHANGED <<counts, poolSem, waiterSem, locks, call, claimed, vc, unused, broken>>

\* ... and the semaphore posted.
PostWaiter(t) ==
  /\ Step(t, "post", Returned(t))
  /\ poolSem' = poolSem + 1
  /\ UNCHANGED <<counts, waiterInUse, waiterSem, locks, call, waiter, claimed, vc, unused, broken>>

-----------------------------------------------------------------------------
(* VideoCore takes the messages in order and the bulk transfers in order,   *)
(* matching one to the other, and answers a flush when it has taken it and  *)
(* its dummy transfer.                                                      *)

VCTake ==
  /\ ~broken /\ wire # <<>>
  /\ wire' = Tail(wire)
  /\ IF HasBulk(Head(wire))
     THEN receiving' = Append(receiving, Head(wire)) /\ UNCHANGED requests
     ELSE requests' = requests \cup {Head(wire)} /\ UNCHANGED receiving
  /\ UNCHANGED <<counts, pool, locks, threads, bulks, unused, broken>>

VCReceive ==
  /\ ~broken /\ receiving # <<>> /\ bulks # <<>>
  /\ receiving' = Tail(receiving) /\ bulks' = Tail(bulks)
  /\ requests' = IF Waits(Head(receiving)) THEN requests \cup {Head(receiving)} ELSE requests
  /\ UNCHANGED <<counts, pool, locks, threads, wire, unused, broken>>

\* The reply arrives: mmal_vc_vchiq_callback writes it where the waiter says and
\* posts the waiter's semaphore.
Reply(m) ==
  /\ ~broken /\ m \in requests
  /\ requests' = requests \ {m}
  /\ waiterSem' = [waiterSem EXCEPT ![m.waiter] = @ + 1]
  /\ UNCHANGED <<counts, poolSem, waiterInUse, locks, threads, wire, bulks, receiving,
                 unused, broken>>

-----------------------------------------------------------------------------

\* The assertion has failed.
Stopped == broken /\ UNCHANGED vars

\* The steps of a call that has begun
Continue(t) ==
  \/ LockBulk(t) \/ GetWaiter(t) \/ ScanWaiters(t) \/ UseForCall(t)
  \/ QueueMessage(t) \/ QueueFails(t) \/ QueueBulk(t) \/ WaitReply(t)
  \/ UnuseForCall(t) \/ FreeWaiter(t) \/ PostWaiter(t)

Next ==
  \/ \E t \in Callers :
       \/ VCInit(t) \/ VCInitFails(t) \/ InitRelease(t) \/ ClaimVC(t) \/ UnclaimVC(t) \/ VCDeinit(t)
       \/ SendData(t) \/ Flush(t) \/ Request(t) \/ Continue(t)
  \/ VCTake \/ VCReceive \/ \E m \in requests : Reply(m)
  \/ Stopped

Spec == Init /\ [][Next]_vars

-----------------------------------------------------------------------------
(* Properties                                                               *)

\* The requests on their way or being answered
Asked == {m \in Range(wire) \cup Range(receiving) : Waits(m)} \cup requests

\* A reply is written through its waiter only while the thread that sent the
\* request waits with that waiter: the destination is on that thread's stack, and
\* inuse is set (the assertion in the callback).  A thread that waits has one
\* request to be answered, or its semaphore has been posted.
OwnReply ==
  ~broken =>
    /\ \A m \in Asked : /\ m.waiter \in waiterInUse /\ waiter[m.from] = m.waiter
                         /\ pc[m.from] \in {"bulk", "wait"}
    /\ \A t \in Callers : pc[t] = "wait" =>
         Cardinality({m \in Asked : m.from = t}) + waiterSem[waiter[t]] = 1

\* get_waiter finds a free waiter once it has passed the semaphore (vcos_verify).
WaiterFound == \A t \in Callers : pc[t] = "scan" => FreeWaiters # {}

\* VideoCore reads the n-th bulk transfer for the n-th message that announced one.
Announcing(i) == {j \in 1..i : HasBulk(Sent[j])}
BulkPaired ==
  ~broken =>
    /\ Len(bulks) <= Cardinality(Announcing(Len(Sent)))
    /\ \A i \in DOMAIN Sent :
         LET n == Cardinality(Announcing(i))
         IN  HasBulk(Sent[i]) /\ n \in DOMAIN bulks => bulks[n] = Sent[i].from

\* A flush is not handled before the data that were sent to the port ahead of it
\* (the comment in mmal_vc_port_flush).
FlushAfterData ==
  ~broken =>
    \A m \in requests : m.kind \in {"flush", "syncFlush"} =>
      \A i \in DOMAIN receiving : receiving[i].from # m.from

\* The client is there for every thread that uses it, and VideoCore is in use for
\* every component that has claimed it and every call that waits.
InUse ==
  /\ \A t \in Callers : pc[t] # "out" => inited /\ open
  /\ (claimed # {} \/ \E t \in Callers : waiter[t] # None /\ pc[t] \in {"queue", "bulk", "wait"})
       => inUse \/ unused
=============================================================================
