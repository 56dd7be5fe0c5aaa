------------------------------ MODULE MMALQueue ------------------------------
(***************************************************************************)
(* An MMAL queue (mmal_queue.c): a linked list of buffer headers under a   *)
(* mutex, with a semaphore that counts the headers nobody has claimed.     *)
(* A getter claims on the semaphore before it takes the mutex;             *)
(* mmal_queue_length reads the length with neither.                        *)
(***************************************************************************)
EXTENDS Integers, Sequences, FiniteSets

CONSTANTS
  Getters,  \* the threads that get, and ask for the length
  Putters,  \* the threads that put
  Buffers,  \* the buffer headers
  None,     \* no buffer header, no thread; as a value of last: &queue->first
  Backs     \* the headers that callers may give to mmal_queue_put_back

ASSUME ThreadAssumption ==
  IsFiniteSet(Getters \cup Putters) /\ None \notin Getters \cup Putters

ASSUME HeaderAssumption == IsFiniteSet(Buffers) /\ None \notin Buffers /\ Backs \subseteq Buffers

Threads == Getters \cup Putters

VARIABLES
  lock,       \* the holder of queue->lock
  length,     \* queue->length
  first,      \* queue->first
  next,       \* the next field of each header
  last,       \* queue->last: the header whose next field ends the list
  semaphore,  \* queue->semaphore
  pc,         \* where each thread is
  buffer,     \* the header a thread's call is about
  got,        \* what a thread's last get returned
  seen,       \* what a thread's mmal_queue_length returned, until it gets
  free        \* the headers in the hands of the callers

links == <<first, next, last>>
vars  == <<lock, length, links, semaphore, pc, buffer, got, seen, free>>

\* The steps of a call that hold queue->lock, and the others
Putting == {"count", "append", "advance", "countBack", "prepend", "advanceBack", "post"}
Getting == {"take", "unhook", "uncount", "unlockGet"}
Holding == Putting \cup Getting \cup {"unlockPut"}
Steps   == Holding \cup {"idle", "putLock", "backLock", "wait", "getLock"}

TypeOK ==
  /\ lock \in Threads \cup {None}
  /\ length \in Nat /\ semaphore \in Nat
  /\ first \in Buffers \cup {None} /\ last \in Buffers \cup {None}
  /\ next \in [Buffers -> Buffers \cup {None}]
  /\ pc \in [Threads -> Steps]
  /\ buffer \in [Threads -> Buffers \cup {None}] /\ got \in [Threads -> Buffers \cup {None}]
  /\ seen \in [Getters -> Nat]
  /\ free \subseteq Buffers

\* mmal_queue_create
Init ==
  /\ lock = None /\ semaphore = 0
  /\ length = 0 /\ first = None /\ last = None
  /\ next = [b \in Buffers |-> None]
  /\ pc = [t \in Threads |-> "idle"]
  /\ buffer = [t \in Threads |-> None] /\ got = [t \in Threads |-> None]
  /\ seen = [t \in Getters |-> 0]
  /\ free = Buffers

Step(t, from, to) == pc[t] = from /\ pc' = [pc EXCEPT ![t] = to]

\* Mutant: the mutex does not exclude anybody.
NobodyIn == TRUE

NobodyInside == lock = None

\* vcos_mutex_lock and vcos_mutex_unlock
Lock(t, from, to) == Step(t, from, to) /\ NobodyInside /\ lock' = t

Unlock(t, from) == Step(t, from, "idle") /\ lock' = None

-----------------------------------------------------------------------------
(* mmal_queue_put and mmal_queue_put_back.  A caller puts a header that it  *)
(* holds.                                                                   *)

Put(t, b) ==
  /\ b \in free
  /\ Step(t, "idle", "putLock") \/ (b \in Backs /\ Step(t, "idle", "backLock"))
  /\ buffer' = [buffer EXCEPT ![t] = b] /\ free' = free \ {b}
  /\ UNCHANGED <<lock, length, links, semaphore, got, seen>>

LockPut(t) ==
  /\ Lock(t, "putLock", "count") \/ Lock(t, "backLock", "countBack")
  /\ UNCHANGED <<length, links, semaphore, buffer, got, seen, free>>

\* queue->length++
Count(t) ==
  /\ Step(t, "count", "append") \/ Step(t, "countBack", "prepend")
  /\ length' = length + 1
  /\ UNCHANGED <<lock, links, semaphore, buffer, got, seen, free>>

\* *queue->last = buffer, buffer->next = 0
LinkLast(t) ==
  /\ Step(t, "append", "advance")
  /\ first' = IF last = None THEN buffer[t] ELSE first
  /\ next' = [b \in Buffers |-> IF b = buffer[t] THEN None
                                ELSE IF b = last THEN buffer[t] ELSE next[b]]
  /\ UNCHANGED <<lock, length, last, semaphore, buffer, got, seen, free>>

\* queue->last = &buffer->next
AdvanceLast(t) ==
  /\ Step(t, "advance", "post")
  /\ last' = buffer[t]
  /\ UNCHANGED <<lock, length, first, next, semaphore, buffer, got, seen, free>>

\* buffer->next = queue->first, queue->first = buffer
LinkFirst(t) ==
  /\ Step(t, "prepend", "advanceBack")
  /\ next' = [next EXCEPT ![buffer[t]] = first] /\ first' = buffer[t]
  /\ UNCHANGED <<lock, length, last, semaphore, buffer, got, seen, free>>

\* "if(queue->last == &queue->first) queue->last = &buffer->next"
LastBack(b) == IF last = None THEN b ELSE last

AdvanceBack(t) ==
  /\ Step(t, "advanceBack", "post")
  /\ last' = LastBack(buffer[t])
  /\ UNCHANGED <<lock, length, first, next, semaphore, buffer, got, seen, free>>

\* Mutant: only the first header of a list is posted.
PostedOnce == IF length = 1 THEN semaphore + 1 ELSE semaphore

Posted == semaphore + 1

\* vcos_semaphore_post, still under the lock
Post(t) ==
  /\ Step(t, "post", "unlockPut")
  /\ semaphore' = Posted
  /\ UNCHANGED <<lock, length, links, buffer, got, seen, free>>

UnlockPut(t) ==
  /\ Unlock(t, "unlockPut")
  /\ buffer' = [buffer EXCEPT ![t] = None]
  /\ UNCHANGED <<length, links, semaphore, got, seen, free>>

-----------------------------------------------------------------------------
(* mmal_queue_get, mmal_queue_wait and mmal_queue_timedwait                 *)

\* Mutant: the semaphore is read and not taken.
ClaimedNot == semaphore

Claimed == semaphore - 1

Claim(t, from) ==
  /\ semaphore > 0 /\ semaphore' = Claimed
  /\ Step(t, from, "getLock")

\* vcos_semaphore_trywait: claim a header or return NULL.
Get(t) ==
  /\ pc[t] = "idle"
  /\ \/ Claim(t, "idle") /\ UNCHANGED got
     \/ semaphore = 0 /\ got' = [got EXCEPT ![t] = None] /\ UNCHANGED <<semaphore, pc>>
  /\ seen' = [seen EXCEPT ![t] = 0]
  /\ UNCHANGED <<lock, length, links, buffer, free>>

BeginWait(t) ==
  /\ Step(t, "idle", "wait")
  /\ seen' = [seen EXCEPT ![t] = 0]
  /\ UNCHANGED <<lock, length, links, semaphore, buffer, got, free>>

\* vcos_semaphore_wait, and vcos_semaphore_wait_timeout in time
WakeUp(t) ==
  /\ Claim(t, "wait")
  /\ UNCHANGED <<lock, length, links, buffer, got, seen, free>>

\* vcos_semaphore_wait_timeout: the semaphore stayed at zero.
TimeOut(t) ==
  /\ Step(t, "wait", "idle") /\ semaphore = 0
  /\ got' = [got EXCEPT ![t] = None]
  /\ UNCHANGED <<lock, length, links, semaphore, buffer, seen, free>>

LockGet(t) ==
  /\ Lock(t, "getLock", "take")
  /\ UNCHANGED <<length, links, semaphore, buffer, got, seen, free>>

\* buffer = queue->first, which must not be NULL
Take(t) ==
  /\ Step(t, "take", "unhook")
  /\ buffer' = [buffer EXCEPT ![t] = first]
  /\ UNCHANGED <<lock, length, links, semaphore, got, seen, free>>

\* Mutant: queue->last still points into the header that was taken.
LastAfterStale(b) == last

\* "if(!queue->first) queue->last = &queue->first"
LastAfter(b) == IF next[b] = None THEN None ELSE last

\* queue->first = buffer->next
Unhook(t) ==
  /\ Step(t, "unhook", "uncount")
  /\ buffer[t] # None
  /\ first' = next[buffer[t]] /\ last' = LastAfter(buffer[t])
  /\ UNCHANGED <<lock, length, next, semaphore, buffer, got, seen, free>>

\* queue->length--
Uncount(t) ==
  /\ Step(t, "uncount", "unlockGet")
  /\ length' = length - 1
  /\ UNCHANGED <<lock, links, semaphore, buffer, got, seen, free>>

\* The caller has the header.
UnlockGet(t) ==
  /\ Unlock(t, "unlockGet")
  /\ got' = [got EXCEPT ![t] = buffer[t]] /\ free' = free \cup {buffer[t]}
  /\ buffer' = [buffer EXCEPT ![t] = None]
  /\ UNCHANGED <<length, links, semaphore, seen>>

\* mmal_queue_length, without the lock
ReadLength(t) ==
  /\ pc[t] = "idle"
  /\ seen' = [seen EXCEPT ![t] = length]
  /\ UNCHANGED <<lock, length, links, semaphore, pc, buffer, got, free>>

-----------------------------------------------------------------------------

\* A step under the lock
Inside(t) ==
  \/ Count(t) \/ LinkLast(t) \/ AdvanceLast(t) \/ LinkFirst(t) \/ AdvanceBack(t)
  \/ Post(t) \/ UnlockPut(t)
  \/ Take(t) \/ Unhook(t) \/ Uncount(t) \/ UnlockGet(t)

Next ==
  \/ \E t \in Putters, b \in Buffers : Put(t, b)
  \/ \E t \in Getters : Get(t) \/ BeginWait(t) \/ WakeUp(t) \/ TimeOut(t) \/ ReadLength(t)
  \/ \E t \in Threads : LockPut(t) \/ LockGet(t) \/ Inside(t)

Spec == Init /\ [][Next]_vars

\* The threads run, and a free mutex is taken by one of the threads that want it,
\* never mind which.
FairSpec ==
  /\ Spec
  /\ \A t \in Threads : WF_vars(Inside(t))
  /\ \A t \in Getters : WF_vars(WakeUp(t))
  /\ WF_vars(\E t \in Threads : LockPut(t) \/ LockGet(t))

-----------------------------------------------------------------------------
(* Properties                                                               *)

\* s is the list that the pointers make, from first to a NULL
IsList(s) ==
  /\ first = IF s = <<>> THEN None ELSE s[1]
  /\ \A i \in DOMAIN s : next[s[i]] = IF i = Len(s) THEN None ELSE s[i + 1]
  /\ \A i, j \in DOMAIN s : s[i] = s[j] => i = j

\* mmal_queue_sanity_check, whatever callers interleave: when nobody holds the
\* lock the list has length headers, none twice, and last points to the end of
\* it, so that the next put finds it.
ListSound ==
  lock = None =>
    \E s \in [1..length -> Buffers] :
      /\ IsList(s)
      /\ last = IF s = <<>> THEN None ELSE s[Len(s)]

Claimants == {t \in Threads : pc[t] \in {"getLock", "take", "unhook", "uncount"}}
Unposted  == {t \in Threads : pc[t] \in {"append", "advance", "prepend", "advanceBack", "post"}}

\* The semaphore counts the headers in the list nobody has claimed, so a claim
\* always finds its header.
SemaphoreExact == semaphore + Cardinality(Claimants) + Cardinality(Unposted) = length

\* mmal_queue_get_core never finds the list empty (its assertion).
HeaderFound == \A t \in Threads : pc[t] = "unhook" => buffer[t] # None

Waiting == \E t \in Getters : pc[t] = "wait"

\* The list does not stay as it is for ever while a thread blocks in
\* mmal_queue_wait and there is a header: no wake-up is lost, neither to a thread
\* that timed out nor to a get that overtakes, and no unfair mutex keeps all out.
Delivered == []<>(first = None \/ ~Waiting \/ \E t \in Getters : pc[t] = "uncount")

\* The comment in mmal_queue_put: with one getter, "if (mmal_queue_length(q) > 0)
\* b = mmal_queue_get(q)" always succeeds.
LengthKept == \A t \in Getters : seen[t] > 0 /\ pc[t] = "idle" => semaphore > 0

-----------------------------------------------------------------------------
(* The queue implements BufferQueue.  A put takes effect with its post, a   *)
(* get is promised its header by the claim and has it when it unhooks it.   *)

\* What follows a header in the list
After(b) == IF b = None THEN None ELSE next[b]

\* The header of a call that is posting is at one end of the list.
InFront == \E t \in Unposted : first = buffer[t]
AtEnd   == ~InFront /\ \E t \in Unposted : pc[t] \in {"advance", "post"}

\* The headers one finds by following the pointers, without that one
Queued ==
  LET hop[i \in 1..Cardinality(Buffers)] == IF i = 1 THEN first ELSE After(hop[i - 1])
      n == Cardinality({i \in DOMAIN hop : hop[i] # None})
  IN  SubSeq(hop, IF InFront THEN 2 ELSE 1, IF AtEnd THEN n - 1 ELSE n)

Promises == {t \in Threads : pc[t] \in {"getLock", "take", "unhook"}}
Returned == [t \in Threads |-> IF pc[t] \in {"uncount", "unlockGet"} THEN buffer[t] ELSE got[t]]

Abstract == INSTANCE BufferQueue WITH list <- Queued, promised <- Promises, got <- Returned

ImplementsQueue == Abstract!Spec

=============================================================================
