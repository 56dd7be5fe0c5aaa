--------------------------- MODULE MMALQueueProofs ---------------------------
(***************************************************************************)
(* Theorems about MMALQueue for any finite set of callers and any set of   *)
(* headers: type correctness, what the semaphore counts, that the pointers *)
(* always make the list they should, and that it implements BufferQueue.   *)
(***************************************************************************)
EXTENDS MMALQueue, SequenceFacts

\* Only getters are inside a get; a call that puts or returns a header has one, and
\* only the headers of Backs are put back.
Callers ==
  \A t \in Threads :
    /\ pc[t] \in {"wait", "getLock"} \cup Getting => t \in Getters
    /\ pc[t] \in {"putLock", "backLock", "uncount", "unlockGet"} \cup Putting
         => buffer[t] \in Buffers
    /\ pc[t] \in {"backLock", "countBack", "prepend", "advanceBack"} => buffer[t] \in Backs

\* The steps between lock and unlock hold the lock.
Mutex == \A t \in Threads : pc[t] \in Holding => lock = t

CountInv == TypeOK /\ Callers /\ Mutex /\ SemaphoreExact

-----------------------------------------------------------------------------
(* Counting the threads in a part of their calls                            *)

LEMMA SubsetsFinite ==
  /\ IsFiniteSet(Claimants) /\ Cardinality(Claimants) \in Nat
  /\ IsFiniteSet(Unposted) /\ Cardinality(Unposted) \in Nat
<1>1. IsFiniteSet(Threads)
  BY ThreadAssumption DEF Threads
<1>2. Claimants \subseteq Threads /\ Unposted \subseteq Threads
  BY DEF Claimants, Unposted
<1> QED
  BY <1>1, <1>2, FS_Subset, FS_CardinalityType

\* Entering and leaving a set of threads
LEMMA Enter ==
  ASSUME NEW S, IsFiniteSet(S), NEW x, x \notin S
  PROVE  Cardinality(S \cup {x}) = Cardinality(S) + 1
BY FS_AddElement

LEMMA Leave ==
  ASSUME NEW S, IsFiniteSet(S), NEW x \in S
  PROVE  Cardinality(S \ {x}) = Cardinality(S) - 1 /\ Cardinality(S) > 0
<1>1. Cardinality(S) \in Nat /\ Cardinality(S \ {x}) = Cardinality(S) - 1
  BY FS_RemoveElement, FS_CardinalityType
<1>2. Cardinality(S \ {x}) \in Nat
  BY FS_RemoveElement, FS_CardinalityType
<1> QED
  BY <1>1, <1>2

\* A step that does not cross the border of Claimants or of Unposted
LEMMA Unmoved ==
  ASSUME CountInv, NEW t \in Threads, NEW from, NEW to \in Steps, Step(t, from, to),
         from \in {"getLock", "take", "unhook", "uncount"}
           <=> to \in {"getLock", "take", "unhook", "uncount"},
         from \in {"append", "advance", "prepend", "advanceBack", "post"}
           <=> to \in {"append", "advance", "prepend", "advanceBack", "post"},
         UNCHANGED <<semaphore, length>>
  PROVE  SemaphoreExact'
<1>1. Claimants' = Claimants /\ Unposted' = Unposted
  BY DEF CountInv, TypeOK, Claimants, Unposted, Step
<1> QED
  BY <1>1 DEF CountInv, SemaphoreExact

-----------------------------------------------------------------------------
(* The first invariant                                                      *)

LEMMA InitCountInv == Init => CountInv
<1> SUFFICES ASSUME Init PROVE CountInv
  OBVIOUS
<1>1. TypeOK /\ Callers /\ Mutex
  BY DEF Init, TypeOK, Callers, Mutex, Steps, Getting, Putting, Holding
<1>2. Claimants = {} /\ Unposted = {}
  BY DEF Init, Claimants, Unposted
<1>3. SemaphoreExact
  BY <1>2, FS_EmptySet DEF Init, SemaphoreExact
<1> QED
  BY <1>1, <1>3 DEF CountInv

LEMMA PutCount ==
  ASSUME CountInv, NEW t \in Putters, NEW b \in Buffers, Put(t, b) PROVE CountInv'
<1> USE DEF Put, links, Threads
<1>1. (TypeOK /\ Callers /\ Mutex)'
  BY DEF CountInv, TypeOK, Callers, Mutex, Step, Steps, Getting, Putting, Holding
<1>2. SemaphoreExact'
  BY Unmoved DEF Steps
<1> QED
  BY <1>1, <1>2 DEF CountInv

LEMMA LockCount ==
  ASSUME CountInv, NEW t \in Threads, LockPut(t) \/ LockGet(t) PROVE CountInv'
<1> USE DEF LockPut, LockGet, Lock, NobodyInside, links
<1>1. (TypeOK /\ Callers)'
  BY DEF CountInv, TypeOK, Callers, Step, Steps, Getting, Putting, Holding
<1>2. Mutex'
  BY ThreadAssumption DEF CountInv, TypeOK, Mutex, Step, Threads
<1>3. SemaphoreExact'
  BY Unmoved DEF Steps, Holding, Putting, Getting
<1> QED
  BY <1>1, <1>2, <1>3 DEF CountInv

LEMMA CountCount ==
  ASSUME CountInv, NEW t \in Threads, Count(t) PROVE CountInv'
<1> USE DEF Count, links
<1>1. (TypeOK /\ Callers /\ Mutex)'
  BY DEF CountInv, TypeOK, Callers, Mutex, Step, Steps, Getting, Putting, Holding
<1>2. t \notin Unposted /\ Unposted' = Unposted \cup {t} /\ Claimants' = Claimants
  BY DEF CountInv, TypeOK, Step, Claimants, Unposted
<1>3. Cardinality(Unposted') = Cardinality(Unposted) + 1
  BY <1>2, Enter, SubsetsFinite
<1>4. SemaphoreExact'
  BY <1>2, <1>3, SubsetsFinite DEF CountInv, TypeOK, SemaphoreExact
<1> QED
  BY <1>1, <1>4 DEF CountInv

LEMMA LinkCount ==
  ASSUME CountInv, NEW t \in Threads,
         LinkLast(t) \/ AdvanceLast(t) \/ LinkFirst(t) \/ AdvanceBack(t)
  PROVE  CountInv'
<1> USE DEF LinkLast, AdvanceLast, LinkFirst, AdvanceBack, LastBack
<1>1. (Callers /\ Mutex)'
  BY DEF CountInv, TypeOK, Callers, Mutex, Step, Getting, Putting, Holding
<1>2. TypeOK'
  BY DEF CountInv, TypeOK, Callers, Step, Steps, Putting, Holding
<1>3. SemaphoreExact'
  BY Unmoved DEF Steps, Holding, Putting
<1> QED
  BY <1>1, <1>2, <1>3 DEF CountInv

LEMMA PostCount ==
  ASSUME CountInv, NEW t \in Threads, Post(t) PROVE CountInv'
<1> USE DEF Post, Posted, links
<1>1. (TypeOK /\ Callers /\ Mutex)'
  BY DEF CountInv, TypeOK, Callers, Mutex, Step, Steps, Getting, Putting, Holding
<1>2. t \in Unposted /\ Unposted' = Unposted \ {t} /\ Claimants' = Claimants
  BY DEF CountInv, TypeOK, Step, Claimants, Unposted
<1>3. Cardinality(Unposted') = Cardinality(Unposted) - 1
  BY <1>2, Leave, SubsetsFinite
<1>4. SemaphoreExact'
  BY <1>2, <1>3, SubsetsFinite DEF CountInv, TypeOK, SemaphoreExact
<1> QED
  BY <1>1, <1>4 DEF CountInv

LEMMA UnlockCount ==
  ASSUME CountInv, NEW t \in Threads, UnlockPut(t) \/ UnlockGet(t) PROVE CountInv'
<1> USE DEF UnlockPut, UnlockGet, Unlock, links
<1>1. (Callers /\ Mutex)'
  BY DEF CountInv, TypeOK, Callers, Mutex, Step, Getting, Putting, Holding
<1>2. TypeOK'
  BY DEF CountInv, TypeOK, Callers, Step, Steps
<1>3. SemaphoreExact'
  BY Unmoved DEF Steps
<1> QED
  BY <1>1, <1>2, <1>3 DEF CountInv

LEMMA ClaimCount ==
  ASSUME CountInv, NEW t \in Getters, NEW from \in {"idle", "wait"}, Claim(t, from),
         UNCHANGED <<lock, length, links, buffer, free>>,
         got' \in [Threads -> Buffers \cup {None}], seen' \in [Getters -> Nat]
  PROVE  CountInv'
<1> USE DEF Claim, Claimed, links, Threads
<1>1. (TypeOK /\ Callers /\ Mutex)'
  BY DEF CountInv, TypeOK, Callers, Mutex, Step, Steps, Getting, Putting, Holding
<1>2. t \notin Claimants /\ Claimants' = Claimants \cup {t} /\ Unposted' = Unposted
  BY DEF CountInv, TypeOK, Step, Claimants, Unposted
<1>3. Cardinality(Claimants') = Cardinality(Claimants) + 1
  BY <1>2, Enter, SubsetsFinite
<1>4. SemaphoreExact'
  BY <1>2, <1>3, SubsetsFinite DEF CountInv, TypeOK, SemaphoreExact
<1> QED
  BY <1>1, <1>4 DEF CountInv

LEMMA GetCount ==
  ASSUME CountInv, NEW t \in Getters, Get(t) \/ WakeUp(t) PROVE CountInv'
<1>1. CASE Get(t) /\ Claim(t, "idle")
  BY <1>1, ClaimCount DEF Get, CountInv, TypeOK, Claim, Claimed
<1>2. CASE Get(t) /\ ~Claim(t, "idle")
  <2>1. UNCHANGED <<lock, length, first, next, last, semaphore, pc, buffer, free>>
    BY <1>2 DEF Get, links
  <2>2. got' = [got EXCEPT ![t] = None] /\ seen' = [seen EXCEPT ![t] = 0]
    BY <1>2 DEF Get
  <2> QED
    BY <2>1, <2>2
    DEF CountInv, TypeOK, Callers, Mutex, SemaphoreExact, Claimants, Unposted
<1>3. CASE WakeUp(t)
  BY <1>3, ClaimCount DEF WakeUp, CountInv, TypeOK
<1> QED
  BY <1>1, <1>2, <1>3

LEMMA WaitCount ==
  ASSUME CountInv, NEW t \in Getters, BeginWait(t) \/ TimeOut(t) \/ ReadLength(t)
  PROVE  CountInv'
<1> USE DEF BeginWait, TimeOut, ReadLength, links, Threads
<1>1. (TypeOK /\ Callers /\ Mutex)'
  BY DEF CountInv, TypeOK, Callers, Mutex, Step, Steps, Getting, Putting, Holding
<1>2. SemaphoreExact'
  <2>1. CASE BeginWait(t) \/ TimeOut(t)
    BY <2>1, Unmoved DEF Steps
  <2>2. CASE ReadLength(t)
    BY <2>2 DEF CountInv, SemaphoreExact, Claimants, Unposted
  <2> QED
    BY <2>1, <2>2
<1> QED
  BY <1>1, <1>2 DEF CountInv

LEMMA TakeCount ==
  ASSUME CountInv, NEW t \in Threads, Take(t) \/ Unhook(t) PROVE CountInv'
<1> USE DEF Take, Unhook, LastAfter, links
<1>1. TypeOK'
  BY DEF CountInv, TypeOK, Step, Steps, Getting, Holding
<1>2. (Callers /\ Mutex)'
  BY DEF CountInv, TypeOK, Callers, Mutex, Step, Getting, Putting, Holding
<1>3. SemaphoreExact'
  BY Unmoved DEF Steps, Holding, Getting
<1> QED
  BY <1>1, <1>2, <1>3 DEF CountInv

LEMMA UncountCount ==
  ASSUME CountInv, NEW t \in Threads, Uncount(t) PROVE CountInv'
<1> USE DEF Uncount, links
<1>1. t \in Claimants /\ Claimants' = Claimants \ {t} /\ Unposted' = Unposted
  BY DEF CountInv, TypeOK, Step, Claimants, Unposted
<1>2. Cardinality(Claimants') = Cardinality(Claimants) - 1 /\ Cardinality(Claimants) > 0
  BY <1>1, Leave, SubsetsFinite
<1>3. SemaphoreExact' /\ length' \in Nat
  BY <1>1, <1>2, SubsetsFinite DEF CountInv, TypeOK, SemaphoreExact
<1>4. (TypeOK /\ Callers /\ Mutex)'
  BY <1>3 DEF CountInv, TypeOK, Callers, Mutex, Step, Steps, Getting, Putting, Holding
<1> QED
  BY <1>3, <1>4 DEF CountInv

LEMMA NextCountInv == CountInv /\ [Next]_vars => CountInv'
<1> SUFFICES ASSUME CountInv, [Next]_vars PROVE CountInv'
  OBVIOUS
<1>1. CASE \E t \in Putters, b \in Buffers : Put(t, b)
  BY <1>1, PutCount
<1>2. CASE \E t \in Getters :
             Get(t) \/ BeginWait(t) \/ WakeUp(t) \/ TimeOut(t) \/ ReadLength(t)
  BY <1>2, GetCount, WaitCount
<1>3. CASE \E t \in Threads : LockPut(t) \/ LockGet(t) \/ Inside(t)
  BY <1>3, LockCount, CountCount, LinkCount, PostCount, UnlockCount, TakeCount,
     UncountCount
     DEF Inside
<1>4. CASE UNCHANGED vars
  BY <1>4 DEF vars, links, CountInv, TypeOK, Callers, Mutex, SemaphoreExact, Claimants,
              Unposted
<1> QED
  BY <1>1, <1>2, <1>3, <1>4 DEF Next

LEMMA CountInvariant == Spec => []CountInv
BY InitCountInv, NextCountInv, PTL DEF Spec

\* The fields of a queue keep their types for any number of callers; length, an
\* unsigned int, never goes below zero.
THEOREM QueueTypeCorrect == Spec => []TypeOK
<1>1. CountInv => TypeOK
  BY DEF CountInv
<1> QED
  BY CountInvariant, <1>1, PTL

\* For any number of callers the semaphore counts exactly the headers nobody has
\* claimed: mmal_queue_get never claims a header that is not in the list.
THEOREM SemaphoreCounts == Spec => []SemaphoreExact
<1>1. CountInv => SemaphoreExact
  BY DEF CountInv
<1> QED
  BY CountInvariant, <1>1, PTL

-----------------------------------------------------------------------------
(* The second invariant: the pointers make some list s, except that last    *)
(* and length may be one step behind while a thread holds the lock, and a   *)
(* header in it is nowhere else.                                            *)

\* A thread at one of these steps has a header that is not in the list.
Apart == {"putLock", "backLock", "count", "countBack", "append", "prepend",
          "uncount", "unlockGet"}

Lagging == {t \in Threads : pc[t] \in {"append", "prepend", "uncount"}}
Advancing == {t \in Threads : pc[t] \in {"advance", "advanceBack"}}

LinkedAs(s) ==
  /\ IsList(s)
  /\ length = IF Lagging = {} THEN Len(s) ELSE Len(s) + 1
  /\ Advancing = {} => last = IF s = <<>> THEN None ELSE s[Len(s)]

HalfWay(s) ==
  \A t \in Threads :
    /\ pc[t] = "advance" => s # <<>> /\ s[Len(s)] = buffer[t]
    /\ pc[t] = "advanceBack" =>
         /\ s # <<>> /\ s[1] = buffer[t]
         /\ last = IF Len(s) = 1 THEN None ELSE s[Len(s)]
    /\ pc[t] = "post" =>
         /\ s # <<>>
         /\ s[Len(s)] = buffer[t] \/ (buffer[t] \in Backs /\ s[1] = buffer[t])
    /\ pc[t] = "unhook" => s # <<>> /\ s[1] = buffer[t]

Separate(s) ==
  /\ \A i \in DOMAIN s : s[i] \notin free
  /\ \A t \in Threads : pc[t] \in Apart =>
       /\ buffer[t] \notin free
       /\ \A i \in DOMAIN s : s[i] # buffer[t]
       /\ \A u \in Threads \ {t} : pc[u] \in Apart => buffer[u] # buffer[t]

Good(s) == LinkedAs(s) /\ HalfWay(s) /\ Separate(s)

ListInv == \E s \in Seq(Buffers) : Good(s)

-----------------------------------------------------------------------------

\* Only one thread is inside.
LEMMA Alone ==
  ASSUME CountInv, NEW t \in Threads, pc[t] \in Holding, NEW u \in Threads, u # t
  PROVE  pc[u] \notin Holding
BY DEF CountInv, Mutex

LEMMA InitListInv == Init => ListInv
<1> SUFFICES ASSUME Init PROVE Good(<<>>)
  <2> <<>> \in Seq(Buffers)
    OBVIOUS
  <2> QED
    BY DEF ListInv
<1>1. Lagging = {} /\ first = None /\ last = None /\ length = 0
  BY DEF Init, Lagging
<1>2. LinkedAs(<<>>)
  BY <1>1 DEF LinkedAs, IsList
<1>3. HalfWay(<<>>) /\ Separate(<<>>)
  BY DEF Init, HalfWay, Separate, Apart
<1> QED
  BY <1>2, <1>3 DEF Good

\* A step that leaves the pointers and the length alone, and takes no header that
\* is in the list or apart
LEMMA PutList ==
  ASSUME CountInv, NEW s \in Seq(Buffers), Good(s),
         NEW t \in Putters, NEW b \in Buffers, Put(t, b)
  PROVE  Good(s)'
<1> USE DEF Put, links, Threads, Good
<1>1. Lagging' = Lagging /\ Advancing' = Advancing
  BY DEF CountInv, TypeOK, Step, Lagging, Advancing
<1>2. LinkedAs(s)'
  BY <1>1 DEF LinkedAs, IsList
<1>3. HalfWay(s)'
  BY DEF CountInv, TypeOK, Step, HalfWay
<1>4. Separate(s)'
  BY DEF CountInv, TypeOK, Step, Separate, Apart
<1> QED
  BY <1>2, <1>3, <1>4

LEMMA LockList ==
  ASSUME CountInv, NEW s \in Seq(Buffers), Good(s), NEW t \in Threads,
         LockPut(t) \/ LockGet(t)
  PROVE  Good(s)'
<1> USE DEF LockPut, LockGet, Lock, links, Good
<1>1. Lagging' = Lagging /\ Advancing' = Advancing
  BY DEF CountInv, TypeOK, Step, Lagging, Advancing
<1>2. LinkedAs(s)'
  BY <1>1 DEF LinkedAs, IsList
<1>3. HalfWay(s)' /\ Separate(s)'
  BY DEF CountInv, TypeOK, Step, HalfWay, Separate, Apart
<1> QED
  BY <1>2, <1>3

LEMMA CountList ==
  ASSUME CountInv, NEW s \in Seq(Buffers), Good(s), NEW t \in Threads, Count(t)
  PROVE  Good(s)'
<1> USE DEF Count, links, Good
<1>1. Lagging = {} /\ t \in Lagging' /\ Advancing' = Advancing
  BY Alone DEF CountInv, TypeOK, Step, Lagging, Advancing, Holding, Putting, Getting
<1>2. LinkedAs(s)'
  BY <1>1 DEF LinkedAs, IsList
<1>3. HalfWay(s)' /\ Separate(s)'
  BY DEF CountInv, TypeOK, Step, HalfWay, Separate, Apart
<1> QED
  BY <1>2, <1>3

LEMMA LinkLastList ==
  ASSUME CountInv, NEW s \in Seq(Buffers), Good(s), NEW t \in Threads, LinkLast(t),
         NEW b, b = buffer[t], NEW r, r = Append(s, b)
  PROVE  r \in Seq(Buffers) /\ Good(r)'
<1> USE DEF LinkLast, links, Good
<1>1. b \in Buffers /\ \A i \in DOMAIN s : s[i] # b
  BY DEF CountInv, TypeOK, Callers, Step, Separate, Apart, Putting
<1>2. /\ r \in Seq(Buffers) /\ Len(r) = Len(s) + 1 /\ r # <<>>
      /\ r[Len(r)] = b /\ \A i \in DOMAIN s : r[i] = s[i]
      /\ DOMAIN r = DOMAIN s \cup {Len(s) + 1}
  BY <1>1
<1>3. /\ t \in Lagging /\ Lagging' = {} /\ Advancing = {} /\ t \in Advancing'
      /\ \A u \in Threads \ {t} : pc'[u] = pc[u] /\ pc[u] \notin Holding
  BY Alone DEF CountInv, TypeOK, Step, Lagging, Advancing, Holding, Putting, Getting
<1>4. last = IF s = <<>> THEN None ELSE s[Len(s)]
  BY <1>3 DEF LinkedAs
<1>5. IsList(r)'
  <2>1. \A i, j \in DOMAIN r : r[i] = r[j] => i = j
    BY <1>1, <1>2 DEF LinkedAs, IsList
  <2>2. first' = r[1]
    BY <1>1, <1>2, <1>4, HeaderAssumption DEF LinkedAs, IsList
  <2>3. ASSUME NEW i \in DOMAIN r
        PROVE  next'[r[i]] = IF i = Len(r) THEN None ELSE r[i + 1]
    <3>1. CASE i = Len(r)
      BY <1>1, <1>2, <3>1
    <3>2. CASE i = Len(s) /\ s # <<>>
      <4>1. r[i] = last /\ r[i] # b /\ r[i] \in Buffers
        BY <1>1, <1>2, <1>4, <3>2
      <4> QED
        BY <1>2, <3>2, <4>1
    <3>3. CASE i < Len(s)
      <4>1. i \in DOMAIN s /\ i + 1 \in DOMAIN s /\ s[i] \in Buffers
        BY <1>2, <3>3
      <4>2. s[i] # last /\ s[i] # b
        BY <1>1, <1>4, <3>3, <4>1 DEF LinkedAs, IsList
      <4>3. next[s[i]] = s[i + 1]
        BY <3>3, <4>1 DEF LinkedAs, IsList
      <4> QED
        BY <1>2, <3>3, <4>1, <4>2, <4>3
    <3> QED
      BY <1>2, <3>1, <3>2, <3>3
  <2> QED
    BY <1>2, <2>1, <2>2, <2>3 DEF IsList
<1>6. LinkedAs(r)'
  BY <1>2, <1>3, <1>5 DEF LinkedAs
<1>7. HalfWay(r)'
  BY <1>2, <1>3 DEF CountInv, TypeOK, Step, HalfWay, Holding, Putting, Getting
<1>8. Separate(r)'
  <2>1. \A u \in Threads : pc'[u] \in Apart => u # t /\ pc[u] \in Apart
    BY <1>3 DEF CountInv, TypeOK, Step, Apart
  <2>2. pc[t] \in Apart
    BY DEF Step, Apart
  <2>3. \A i \in DOMAIN r : r[i] = b \/ \E j \in DOMAIN s : r[i] = s[j]
    BY <1>2
  <2> QED
    BY <1>2, <2>1, <2>2, <2>3 DEF Separate
<1> QED
  BY <1>2, <1>6, <1>7, <1>8

LEMMA AdvanceList ==
  ASSUME CountInv, NEW s \in Seq(Buffers), Good(s), NEW t \in Threads,
         AdvanceLast(t) \/ AdvanceBack(t)
  PROVE  Good(s)'
<1> USE DEF AdvanceLast, AdvanceBack, LastBack, Good
<1>1. /\ Lagging = {} /\ Lagging' = {} /\ Advancing' = {}
      /\ \A u \in Threads \ {t} : pc'[u] = pc[u] /\ pc[u] \notin Holding
  BY Alone DEF CountInv, TypeOK, Step, Lagging, Advancing, Holding, Putting, Getting
<1>2. last' = IF s = <<>> THEN None ELSE s[Len(s)]
  BY HeaderAssumption DEF Step, HalfWay
<1>3. LinkedAs(s)'
  BY <1>1, <1>2 DEF LinkedAs, IsList
<1>4. HalfWay(s)'
  <2>1. /\ pc' = [pc EXCEPT ![t] = "post"] /\ buffer' = buffer /\ pc \in [Threads -> Steps]
        /\ pc[t] = "advance" \/ (pc[t] = "advanceBack" /\ buffer[t] \in Backs)
    BY DEF Step, CountInv, Callers, TypeOK
  <2>2. s # <<>> /\ (s[Len(s)] = buffer[t] \/ (buffer[t] \in Backs /\ s[1] = buffer[t]))
    BY <2>1 DEF HalfWay
  <2> QED
    BY <1>1, <2>1, <2>2 DEF HalfWay, Holding, Putting, Getting
<1>5. Separate(s)'
  BY <1>1 DEF CountInv, TypeOK, Step, Separate, Apart
<1> QED
  BY <1>3, <1>4, <1>5

LEMMA LinkFirstList ==
  ASSUME CountInv, NEW s \in Seq(Buffers), Good(s), NEW t \in Threads, LinkFirst(t),
         NEW b, b = buffer[t], NEW r, r = <<b>> \o s
  PROVE  r \in Seq(Buffers) /\ Good(r)'
<1> USE DEF LinkFirst, Good
<1>1. b \in Buffers /\ \A i \in DOMAIN s : s[i] # b
  BY DEF CountInv, TypeOK, Callers, Step, Separate, Apart, Putting
<1>2. /\ r \in Seq(Buffers) /\ Len(r) = Len(s) + 1 /\ r # <<>> /\ r[1] = b
      /\ \A i \in DOMAIN r : i # 1 => i - 1 \in DOMAIN s /\ r[i] = s[i - 1]
      /\ \A i \in DOMAIN s : i + 1 \in DOMAIN r /\ r[i + 1] = s[i]
  BY <1>1
<1>3. /\ t \in Lagging /\ Lagging' = {} /\ Advancing = {} /\ t \in Advancing'
      /\ \A u \in Threads \ {t} : pc'[u] = pc[u] /\ pc[u] \notin Holding
  BY Alone DEF CountInv, TypeOK, Step, Lagging, Advancing, Holding, Putting, Getting
<1>4. last' = IF Len(r) = 1 THEN None ELSE r[Len(r)]
  BY <1>2, <1>3 DEF LinkedAs
<1>5. IsList(r)'
  <2>1. \A i, j \in DOMAIN r : r[i] = r[j] => i = j
    BY <1>1, <1>2 DEF LinkedAs, IsList
  <2>2. first' = r[1]
    BY <1>2
  <2>3. ASSUME NEW i \in DOMAIN r
        PROVE  next'[r[i]] = IF i = Len(r) THEN None ELSE r[i + 1]
    <3>1. CASE i = 1
      <4>1. next'[b] = first
        BY <1>1 DEF CountInv, TypeOK
      <4>2. first = IF s = <<>> THEN None ELSE s[1]
        BY DEF LinkedAs, IsList
      <4> QED
        BY <1>2, <3>1, <4>1, <4>2
    <3>2. CASE i # 1
      <4>1. i - 1 \in DOMAIN s /\ r[i] = s[i - 1] /\ r[i] # b /\ r[i] \in Buffers
        BY <1>1, <1>2, <3>2
      <4>2. next'[r[i]] = next[s[i - 1]]
        BY <4>1 DEF CountInv, TypeOK
      <4>3. next[s[i - 1]] = IF i - 1 = Len(s) THEN None ELSE s[i - 1 + 1]
        BY <4>1 DEF LinkedAs, IsList
      <4>4. i # Len(r) => r[i + 1] = s[i]
        BY <1>2, <4>1
      <4> QED
        BY <1>2, <4>1, <4>2, <4>3, <4>4
    <3> QED
      BY <3>1, <3>2
  <2> QED
    BY <1>2, <2>1, <2>2, <2>3 DEF IsList
<1>6. LinkedAs(r)'
  BY <1>2, <1>3, <1>5 DEF LinkedAs
<1>7. HalfWay(r)'
  BY <1>2, <1>3, <1>4 DEF CountInv, TypeOK, Step, HalfWay, Holding, Putting, Getting
<1>8. Separate(r)'
  <2>1. \A u \in Threads : pc'[u] \in Apart => u # t /\ pc[u] \in Apart
    BY <1>3 DEF CountInv, TypeOK, Step, Apart
  <2>2. pc[t] \in Apart
    BY DEF Step, Apart
  <2>3. \A i \in DOMAIN r : r[i] = b \/ \E j \in DOMAIN s : r[i] = s[j]
    BY <1>2
  <2> QED
    BY <1>2, <2>1, <2>2, <2>3 DEF Separate
<1> QED
  BY <1>2, <1>6, <1>7, <1>8

LEMMA PostList ==
  ASSUME CountInv, NEW s \in Seq(Buffers), Good(s), NEW t \in Threads,
         Post(t) \/ UnlockPut(t)
  PROVE  Good(s)'
<1> USE DEF Post, UnlockPut, Unlock, links, Good
<1>1. Lagging' = Lagging /\ Advancing' = Advancing
  BY DEF CountInv, TypeOK, Step, Lagging, Advancing
<1>2. LinkedAs(s)'
  BY <1>1 DEF LinkedAs, IsList
<1>3. /\ pc'[t] \in {"unlockPut", "idle"}
      /\ \A u \in Threads \ {t} : pc'[u] = pc[u] /\ buffer'[u] = buffer[u]
      /\ pc[t] \notin Apart /\ UNCHANGED <<last, free>>
  BY DEF CountInv, TypeOK, Step, Apart
<1>4. HalfWay(s)'
  BY <1>3 DEF HalfWay
<1>5. Separate(s)'
  BY <1>3 DEF Separate, Apart
<1> QED
  BY <1>2, <1>4, <1>5

\* A thread that may take finds a header: it is among the claimants, and while it
\* holds the lock nobody is half way through a put.
LEMMA ClaimFinds ==
  ASSUME CountInv, NEW s \in Seq(Buffers), Good(s), NEW t \in Threads, pc[t] = "take"
  PROVE  s # <<>> /\ first = s[1]
<1>1. Lagging = {}
  BY Alone DEF Lagging, Holding, Putting, Getting
<1>2. Len(s) = length
  BY <1>1 DEF Good, LinkedAs
<1>3. Cardinality(Claimants) > 0
  BY Leave, SubsetsFinite DEF Claimants
<1>4. length > 0
  BY <1>3, SubsetsFinite DEF CountInv, TypeOK, SemaphoreExact
<1> QED
  BY <1>2, <1>4 DEF Good, LinkedAs, IsList

LEMMA TakeList ==
  ASSUME CountInv, NEW s \in Seq(Buffers), Good(s), NEW t \in Threads, Take(t)
  PROVE  Good(s)'
<1> USE DEF Take, links, Good
<1>1. Lagging' = Lagging /\ Advancing' = Advancing
  BY DEF CountInv, TypeOK, Step, Lagging, Advancing
<1>2. LinkedAs(s)'
  BY <1>1 DEF LinkedAs, IsList
<1>3. s # <<>> /\ first = s[1]
  BY ClaimFinds DEF Step
<1>4. HalfWay(s)'
  BY <1>3 DEF CountInv, TypeOK, Step, HalfWay
<1>5. Separate(s)'
  BY DEF CountInv, TypeOK, Step, Separate, Apart
<1> QED
  BY <1>2, <1>4, <1>5

LEMMA UnhookList ==
  ASSUME CountInv, NEW s \in Seq(Buffers), Good(s), NEW t \in Threads, Unhook(t),
         NEW b, b = buffer[t], NEW r, r = Tail(s)
  PROVE  r \in Seq(Buffers) /\ Good(r)'
<1> USE DEF Unhook, LastAfter, links, Good
<1>1. s # <<>> /\ s[1] = b
  BY DEF Step, HalfWay
<1>2. /\ r \in Seq(Buffers) /\ Len(r) = Len(s) - 1 /\ Len(s) > 0
      /\ \A i \in DOMAIN r : i + 1 \in DOMAIN s /\ r[i] = s[i + 1]
  BY <1>1
<1>3. /\ Lagging = {} /\ t \in Lagging' /\ Advancing = {} /\ Advancing' = {}
      /\ \A u \in Threads \ {t} : pc'[u] = pc[u] /\ pc[u] \notin Holding
  BY Alone DEF CountInv, TypeOK, Step, Lagging, Advancing, Holding, Putting, Getting
<1>4. next[b] = IF Len(s) = 1 THEN None ELSE s[2]
  BY <1>1, <1>2 DEF LinkedAs, IsList
<1>5. IsList(r)'
  <2>1. \A i, j \in DOMAIN r : r[i] = r[j] => i = j
    BY <1>2 DEF LinkedAs, IsList
  <2>2. first' = IF r = <<>> THEN None ELSE r[1]
    <3>1. CASE Len(s) = 1
      BY <1>2, <1>4, <3>1
    <3>2. CASE Len(s) # 1
      <4>1. 1 \in DOMAIN r /\ r # <<>>
        BY <1>2, <3>2
      <4> QED
        BY <1>2, <1>4, <3>2, <4>1
    <3> QED
      BY <3>1, <3>2
  <2>3. \A i \in DOMAIN r : next'[r[i]] = IF i = Len(r) THEN None ELSE r[i + 1]
    BY <1>2 DEF LinkedAs, IsList
  <2> QED
    BY <2>1, <2>2, <2>3 DEF IsList
<1>6. last' = IF r = <<>> THEN None ELSE r[Len(r)]
  <2>1. last = s[Len(s)]
    BY <1>1, <1>3 DEF LinkedAs
  <2>2. CASE Len(s) = 1
    BY <1>2, <1>4, <2>2
  <2>3. CASE Len(s) # 1
    <3>1. s[2] \in Buffers /\ Len(r) \in DOMAIN r /\ r # <<>>
      <4>1. Len(s) \in Nat /\ Len(s) >= 2 /\ 2 \in DOMAIN s
        BY <1>2, <2>3
      <4>2. s[2] \in Buffers
        BY <4>1
      <4> QED
        BY <1>2, <4>1, <4>2
    <3>2. r[Len(r)] = s[Len(s)]
      BY <1>2, <3>1
    <3>3. last' = last
      BY <1>4, <2>3, <3>1, HeaderAssumption
    <3> QED
      BY <2>1, <3>1, <3>2, <3>3
  <2> QED
    BY <2>2, <2>3
<1>7. LinkedAs(r)'
  BY <1>2, <1>3, <1>5, <1>6 DEF LinkedAs
<1>8. HalfWay(r)'
  BY <1>3 DEF CountInv, TypeOK, Step, HalfWay, Holding, Putting, Getting
<1>9. Separate(r)'
  <2>1. \A u \in Threads \ {t} : pc'[u] = pc[u]
    BY <1>3
  <2>2. b \notin free /\ \A u \in Threads : pc[u] \in Apart => buffer[u] # b
    BY <1>1, <1>2 DEF Separate
  <2>3. \A i \in DOMAIN r : r[i] # b
    BY <1>1, <1>2 DEF LinkedAs, IsList
  <2>4. \A i \in DOMAIN r :
        r[i] \notin free /\ \A u \in Threads : pc[u] \in Apart => r[i] # buffer[u]
    BY <1>2 DEF Separate
  <2> QED
    BY <2>1, <2>2, <2>3, <2>4 DEF Separate
<1> QED
  BY <1>2, <1>7, <1>8, <1>9

LEMMA UncountList ==
  ASSUME CountInv, NEW s \in Seq(Buffers), Good(s), NEW t \in Threads, Uncount(t)
  PROVE  Good(s)'
<1> USE DEF Uncount, links, Good
<1>1. t \in Lagging /\ Lagging' = {} /\ Advancing' = Advancing
  BY Alone DEF CountInv, TypeOK, Step, Lagging, Advancing, Holding, Putting, Getting
<1>2. LinkedAs(s)'
  BY <1>1 DEF LinkedAs, IsList
<1>3. HalfWay(s)' /\ Separate(s)'
  BY DEF CountInv, TypeOK, Step, HalfWay, Separate, Apart
<1> QED
  BY <1>2, <1>3

LEMMA UnlockGetList ==
  ASSUME CountInv, NEW s \in Seq(Buffers), Good(s), NEW t \in Threads, UnlockGet(t)
  PROVE  Good(s)'
<1> USE DEF UnlockGet, Unlock, links, Good
<1>1. Lagging' = Lagging /\ Advancing' = Advancing
  BY DEF CountInv, TypeOK, Step, Lagging, Advancing
<1>2. LinkedAs(s)'
  BY <1>1 DEF LinkedAs, IsList
<1>3. HalfWay(s)'
  BY DEF CountInv, TypeOK, Step, HalfWay
<1>4. Separate(s)'
  BY DEF CountInv, TypeOK, Step, Separate, Apart
<1> QED
  BY <1>2, <1>3, <1>4

LEMMA WaitList ==
  ASSUME CountInv, NEW s \in Seq(Buffers), Good(s), NEW t \in Getters,
         Get(t) \/ BeginWait(t) \/ WakeUp(t) \/ TimeOut(t) \/ ReadLength(t)
  PROVE  Good(s)'
<1> USE DEF Good, Threads
<1>1. UNCHANGED <<length, first, next, last, buffer, free>>
  BY DEF Get, BeginWait, WakeUp, TimeOut, ReadLength, links
<1>2. \/ UNCHANGED pc
      \/ /\ pc' = [pc EXCEPT ![t] = pc'[t]]
         /\ pc[t] \in {"idle", "wait"} /\ pc'[t] \in {"idle", "wait", "getLock"}
  BY DEF Get, BeginWait, WakeUp, TimeOut, ReadLength, Claim, Step, CountInv, TypeOK
<1>3. Lagging' = Lagging /\ Advancing' = Advancing
  BY <1>2 DEF CountInv, TypeOK, Lagging, Advancing
<1>4. LinkedAs(s)'
  BY <1>1, <1>3 DEF LinkedAs, IsList
<1>5. HalfWay(s)' /\ Separate(s)'
  BY <1>1, <1>2 DEF CountInv, TypeOK, HalfWay, Separate, Apart
<1> QED
  BY <1>4, <1>5

LEMMA NextListInv == CountInv /\ ListInv /\ [Next]_vars => ListInv'
<1> SUFFICES ASSUME CountInv, ListInv, [Next]_vars PROVE ListInv'
  OBVIOUS
<1>1. PICK s \in Seq(Buffers) : Good(s)
  BY DEF ListInv
<1>2. SUFFICES \E r \in Seq(Buffers) : Good(r)'
  BY DEF ListInv
<1>3. CASE \E t \in Putters, b \in Buffers : Put(t, b)
  BY <1>1, <1>3, PutList
<1>4. CASE \E t \in Getters :
             Get(t) \/ BeginWait(t) \/ WakeUp(t) \/ TimeOut(t) \/ ReadLength(t)
  BY <1>1, <1>4, WaitList
<1>5. CASE \E t \in Threads : LockPut(t) \/ LockGet(t) \/ Inside(t)
  <2>1. PICK t \in Threads : LockPut(t) \/ LockGet(t) \/ Inside(t)
    BY <1>5
  <2>2. CASE LinkLast(t)
    BY <1>1, <2>2, LinkLastList
  <2>3. CASE LinkFirst(t)
    BY <1>1, <2>3, LinkFirstList
  <2>4. CASE Unhook(t)
    BY <1>1, <2>4, UnhookList
  <2>5. CASE LockPut(t) \/ LockGet(t) \/ Count(t) \/ AdvanceLast(t) \/ AdvanceBack(t)
             \/ Post(t) \/ UnlockPut(t) \/ Take(t) \/ Uncount(t) \/ UnlockGet(t)
    BY <1>1, <2>5, LockList, CountList, AdvanceList, PostList, TakeList, UncountList,
       UnlockGetList
  <2> QED
    BY <2>1, <2>2, <2>3, <2>4, <2>5 DEF Inside
<1>6. CASE UNCHANGED vars
  BY <1>1, <1>6
     DEF vars, links, Good, LinkedAs, IsList, HalfWay, Separate, Lagging, Advancing
<1> QED
  BY <1>3, <1>4, <1>5, <1>6 DEF Next

LEMMA ListInvariant == Spec => []ListInv
BY CountInvariant, InitListInv, NextListInv, PTL DEF Spec

\* For any number of callers and headers, whenever the lock is free the pointers
\* make a list of length headers, none twice, and last is at its end.
THEOREM ListIsSound == Spec => []ListSound
<1>1. CountInv /\ ListInv => ListSound
  <2> SUFFICES ASSUME CountInv, ListInv, lock = None PROVE ListSound
    BY DEF ListSound
  <2>1. PICK s \in Seq(Buffers) : Good(s)
    BY DEF ListInv
  <2>2. Lagging = {} /\ Advancing = {}
    BY ThreadAssumption
       DEF CountInv, Mutex, Lagging, Advancing, Holding, Putting, Getting, Threads
  <2>3. s \in [1..length -> Buffers]
    BY <2>1, <2>2 DEF Good, LinkedAs
  <2> QED
    BY <2>1, <2>2, <2>3 DEF Good, LinkedAs, ListSound
<1> QED
  BY CountInvariant, ListInvariant, <1>1, PTL

\* For any number of callers and headers, mmal_queue_get_core finds a header: its
\* assertion holds and it never follows NULL.
THEOREM GetFindsHeader == Spec => []HeaderFound
<1>1. CountInv /\ ListInv => HeaderFound
  <2> SUFFICES ASSUME CountInv, ListInv, NEW t \in Threads, pc[t] = "unhook"
               PROVE  buffer[t] # None
    BY DEF HeaderFound
  <2>1. PICK s \in Seq(Buffers) : Good(s)
    BY DEF ListInv
  <2>2. s # <<>> /\ s[1] = buffer[t] /\ s[1] \in Buffers
    BY <2>1 DEF Good, HalfWay
  <2> QED
    BY <2>2, HeaderAssumption
<1> QED
  BY CountInvariant, ListInvariant, <1>1, PTL

-----------------------------------------------------------------------------
(* The refinement: the pointers make one list only, and every step of the   *)
(* queue is a step of BufferQueue or changes nothing of it.                 *)

\* s is the list from f by the links in n.
ListOf(s, f, n) ==
  /\ f = IF s = <<>> THEN None ELSE s[1]
  /\ \A i \in DOMAIN s : n[s[i]] = IF i = Len(s) THEN None ELSE s[i + 1]
  /\ \A i, j \in DOMAIN s : s[i] = s[j] => i = j

\* What one finds in i hops
HopsOf(f, n) ==
  CHOOSE hop : hop = [i \in 1..Cardinality(Buffers) |->
                        IF i = 1 THEN f
                        ELSE IF hop[i - 1] = None THEN None ELSE n[hop[i - 1]]]

LEMMA ListFits ==
  ASSUME NEW s \in Seq(Buffers), NEW f, NEW n, ListOf(s, f, n)
  PROVE  Cardinality(Buffers) \in Nat /\ Len(s) \in Nat /\ Len(s) <= Cardinality(Buffers)
<1>1. OnceIn(s, Buffers)
  BY DEF ListOf, OnceIn
<1>2. Cardinality(Range(s)) = Len(s) /\ Range(s) \subseteq Buffers /\ Len(s) \in Nat
  BY <1>1, OnceCardinality, SeqDomain
<1>3. Cardinality(Buffers) \in Nat /\ Cardinality(Range(s)) <= Cardinality(Buffers)
  BY <1>2, HeaderAssumption, FS_Subset, FS_CardinalityType
<1> QED
  BY <1>2, <1>3

\* The hops go through the list and then stay at NULL, by induction on their number.
LEMMA HopsAre ==
  ASSUME NEW s \in Seq(Buffers), NEW f, NEW n, ListOf(s, f, n)
  PROVE  HopsOf(f, n) = [i \in 1..Cardinality(Buffers) |-> IF i <= Len(s) THEN s[i] ELSE None]
<1> DEFINE N == Cardinality(Buffers)
           Hop(h) == h = [i \in 1..N |-> IF i = 1 THEN f
                                         ELSE IF h[i - 1] = None THEN None ELSE n[h[i - 1]]]
           g == [i \in 1..N |-> IF i <= Len(s) THEN s[i] ELSE None]
<1>1. N \in Nat /\ Len(s) \in Nat /\ Len(s) <= N /\ DOMAIN s = 1..Len(s)
  BY ListFits
<1> HIDE DEF N
<1>2. \A i \in DOMAIN s : s[i] \in Buffers /\ s[i] # None
  BY HeaderAssumption
<1>3. /\ g[1] = f \/ N = 0
      /\ \A i \in 1..N : i # 1 => g[i] = IF g[i - 1] = None THEN None ELSE n[g[i - 1]]
  <2>1. N # 0 => g[1] = f
    <3>1. s = <<>> <=> Len(s) = 0
      OBVIOUS
    <3> QED
      BY <1>1, <3>1 DEF ListOf
  <2>2. ASSUME NEW i \in 1..N, i # 1
        PROVE  g[i] = IF g[i - 1] = None THEN None ELSE n[g[i - 1]]
    <3>1. i - 1 \in 1..N /\ i \in Nat
      BY <1>1, <2>2
    <3>2. CASE i - 1 > Len(s)
      BY <1>1, <3>1, <3>2
    <3>3. CASE i - 1 <= Len(s)
      <4>1. i - 1 \in DOMAIN s /\ g[i - 1] = s[i - 1] /\ g[i - 1] # None
        BY <1>1, <1>2, <3>1, <3>3
      <4>2. n[s[i - 1]] = IF i - 1 = Len(s) THEN None ELSE s[i - 1 + 1]
        BY <4>1 DEF ListOf
      <4>3. g[i] = IF i - 1 = Len(s) THEN None ELSE s[i]
        BY <1>1, <3>1, <3>3
      <4> QED
        BY <3>1, <4>1, <4>2, <4>3
    <3> QED
      BY <1>1, <3>1, <3>2, <3>3
  <2> QED
    BY <2>1, <2>2
<1>4. Hop(g)
  <2>1. \A i \in 1..N : g[i] = IF i = 1 THEN f ELSE IF g[i - 1] = None THEN None ELSE n[g[i - 1]]
    BY <1>1, <1>3
  <2> QED
    BY <2>1
<1>5. ASSUME NEW h, Hop(h) PROVE h = g
  <2> DEFINE S == {i \in Nat : i + 1 \in 1..N => h[i + 1] = g[i + 1]}
  <2>1. h = [i \in 1..N |-> h[i]] /\ DOMAIN h = 1..N
    BY <1>5
  <2>2. 0 \in S
    BY <1>1, <1>3, <1>5
  <2>3. ASSUME NEW i \in Nat, i \in S PROVE i + 1 \in S
    <3> SUFFICES ASSUME i + 1 + 1 \in 1..N PROVE h[i + 1 + 1] = g[i + 1 + 1]
      OBVIOUS
    <3>1. i + 1 \in 1..N /\ i + 1 + 1 # 1 /\ i + 1 + 1 - 1 = i + 1
      BY <1>1
    <3>2. h[i + 1] = g[i + 1]
      BY <2>3, <3>1
    <3>3. h[i + 1 + 1] = IF h[i + 1] = None THEN None ELSE n[h[i + 1]]
      BY <1>5, <3>1
    <3>4. g[i + 1 + 1] = IF g[i + 1] = None THEN None ELSE n[g[i + 1]]
      BY <1>3, <3>1
    <3> QED
      BY <3>2, <3>3, <3>4
  <2> HIDE DEF S
  <2>4. Nat \subseteq S
    BY <2>2, <2>3, SetInduction
  <2>5. ASSUME NEW i \in 1..N PROVE h[i] = g[i]
    <3>1. i - 1 \in Nat /\ i - 1 + 1 = i
      BY <1>1
    <3> QED
      BY <2>4, <3>1 DEF S
  <2> QED
    BY <2>1, <2>5
<1>6. HopsOf(f, n) = CHOOSE h : Hop(h)
  BY DEF HopsOf, N
<1>7. (CHOOSE h : Hop(h)) = g
  <2> HIDE DEF Hop, g
  <2>1. Hop(CHOOSE h : Hop(h))
    BY <1>4
  <2> QED
    BY <1>5, <2>1
<1> QED
  BY <1>6, <1>7 DEF N

LEMMA HopsFound ==
  ASSUME NEW s \in Seq(Buffers), NEW f, NEW n, ListOf(s, f, n)
  PROVE  /\ Cardinality({k \in DOMAIN HopsOf(f, n) : HopsOf(f, n)[k] # None}) = Len(s)
         /\ Len(s) \in Nat
<1>1. PICK hop : hop = HopsOf(f, n)
  OBVIOUS
<1>2. hop = [k \in 1..Cardinality(Buffers) |-> IF k <= Len(s) THEN s[k] ELSE None]
  BY <1>1, HopsAre
<1>3. /\ Cardinality(Buffers) \in Nat /\ Len(s) \in Nat /\ Len(s) <= Cardinality(Buffers)
      /\ DOMAIN s = 1..Len(s) /\ \A k \in DOMAIN s : s[k] # None
  BY ListFits, HeaderAssumption
<1>4. {k \in DOMAIN hop : hop[k] # None} = 1..Len(s)
  BY <1>2, <1>3
<1>5. Cardinality(1..Len(s)) = Len(s)
  <2>1. 1 \in Int /\ Len(s) \in Int
    BY <1>3
  <2>2. Cardinality(1..Len(s)) = IF 1 > Len(s) THEN 0 ELSE Len(s) - 1 + 1
    BY <2>1, FS_Interval
  <2> QED
    BY <1>3, <2>2
<1> QED
  BY <1>1, <1>3, <1>4, <1>5

\* The hops from the i-th to z before the last that finds a header
CutOf(hop, i, z) == SubSeq(hop, i, Cardinality({k \in DOMAIN hop : hop[k] # None}) - z)

LEMMA CutAs ==
  ASSUME NEW s \in Seq(Buffers), NEW f, NEW n, ListOf(s, f, n), NEW i \in {1, 2}, NEW z \in {0, 1}
  PROVE  CutOf(HopsOf(f, n), i, z) = SubSeq(s, i, Len(s) - z)
<1>1. PICK hop : hop = HopsOf(f, n)
  OBVIOUS
<1>2. hop = [k \in 1..Cardinality(Buffers) |-> IF k <= Len(s) THEN s[k] ELSE None]
  BY <1>1, HopsAre
<1>3. /\ Cardinality(Buffers) \in Nat /\ Len(s) \in Nat /\ Len(s) <= Cardinality(Buffers)
      /\ DOMAIN s = 1..Len(s)
  BY ListFits
<1>4. CutOf(hop, i, z) = SubSeq(hop, i, Len(s) - z)
  BY <1>1, HopsFound DEF CutOf
<1>5. SubSeq(hop, i, Len(s) - z) = SubSeq(s, i, Len(s) - z)
  BY <1>2, <1>3
<1> QED
  BY <1>1, <1>4, <1>5

\* What BufferQueue sees of the list, now and after a step
LEMMA QueuedAs ==
  ASSUME NEW s \in Seq(Buffers), IsList(s)
  PROVE  Queued = SubSeq(s, IF InFront THEN 2 ELSE 1, Len(s) - (IF AtEnd THEN 1 ELSE 0))
<1>1. ListOf(s, first, next)
  BY DEF IsList, ListOf
<1> DEFINE i == IF InFront THEN 2 ELSE 1
           z == IF AtEnd THEN 1 ELSE 0
           hop == HopsOf(first, next)
<1>2. i \in {1, 2} /\ z \in {0, 1}
  OBVIOUS
<1>3. Queued = LET n == Cardinality({k \in DOMAIN hop : hop[k] # None})
               IN  SubSeq(hop, i, IF AtEnd THEN n - 1 ELSE n)
  BY DEF Queued, HopsOf, After
<1>4. CutOf(hop, i, z) = SubSeq(s, i, Len(s) - z)
  <2> HIDE DEF i, z
  <2> QED
    BY <1>1, <1>2, CutAs
<1>5. Queued = CutOf(hop, i, z)
  <2>1. PICK n : n = Cardinality({k \in DOMAIN hop : hop[k] # None})
    OBVIOUS
  <2>2. n \in Nat
    BY <1>1, <2>1, HopsFound
  <2>3. Queued = SubSeq(hop, i, IF AtEnd THEN n - 1 ELSE n)
    BY <1>3, <2>1
  <2>4. CutOf(hop, i, z) = SubSeq(hop, i, n - z)
    BY <2>1 DEF CutOf
  <2>5. (IF AtEnd THEN n - 1 ELSE n) = n - z
    BY <2>2
  <2> HIDE DEF hop, i, z
  <2> QED
    BY <2>3, <2>4, <2>5
<1> QED
  BY <1>4, <1>5

LEMMA QueuedNext ==
  ASSUME NEW s \in Seq(Buffers), IsList(s)'
  PROVE  Queued' = SubSeq(s, IF InFront' THEN 2 ELSE 1, Len(s) - (IF AtEnd' THEN 1 ELSE 0))
<1>1. ListOf(s, first', next')
  BY DEF IsList, ListOf
<1> DEFINE i == IF InFront' THEN 2 ELSE 1
           z == IF AtEnd' THEN 1 ELSE 0
           hop == HopsOf(first', next')
<1>2. i \in {1, 2} /\ z \in {0, 1}
  OBVIOUS
<1>3. Queued' = LET n == Cardinality({k \in DOMAIN hop : hop[k] # None})
               IN  SubSeq(hop, i, IF AtEnd' THEN n - 1 ELSE n)
  BY DEF Queued, HopsOf, After
<1>4. CutOf(hop, i, z) = SubSeq(s, i, Len(s) - z)
  <2> HIDE DEF i, z
  <2> QED
    BY <1>1, <1>2, CutAs
<1>5. Queued' = CutOf(hop, i, z)
  <2>1. PICK n : n = Cardinality({k \in DOMAIN hop : hop[k] # None})
    OBVIOUS
  <2>2. n \in Nat
    BY <1>1, <2>1, HopsFound
  <2>3. Queued' = SubSeq(hop, i, IF AtEnd' THEN n - 1 ELSE n)
    BY <1>3, <2>1
  <2>4. CutOf(hop, i, z) = SubSeq(hop, i, n - z)
    BY <2>1 DEF CutOf
  <2>5. (IF AtEnd' THEN n - 1 ELSE n) = n - z
    BY <2>2
  <2> HIDE DEF hop, i, z
  <2> QED
    BY <2>3, <2>4, <2>5
<1> QED
  BY <1>4, <1>5

LEMMA Cuts ==
  ASSUME NEW s \in Seq(Buffers)
  PROVE  /\ SubSeq(s, 1, Len(s)) = s
         /\ s # <<>> => /\ SubSeq(s, 2, Len(s)) = Tail(s)
                        /\ s = <<s[1]>> \o Tail(s)
                        /\ SubSeq(s, 1, Len(s) - 1) \in Seq(Buffers)
                        /\ Len(SubSeq(s, 1, Len(s) - 1)) = Len(s) - 1
                        /\ s = Append(SubSeq(s, 1, Len(s) - 1), s[Len(s)])
<1>1. Len(s) \in Nat /\ DOMAIN s = 1..Len(s) /\ (s # <<>> => Len(s) >= 1)
  BY SeqDomain
<1>2. SubSeq(s, 1, Len(s)) = s
  OBVIOUS
<1>3. ASSUME s # <<>> PROVE SubSeq(s, 2, Len(s)) = Tail(s) /\ s = <<s[1]>> \o Tail(s)
  BY <1>1, <1>3
<1>4. ASSUME s # <<>>, NEW r, r = SubSeq(s, 1, Len(s) - 1)
      PROVE  r \in Seq(Buffers) /\ Len(r) = Len(s) - 1 /\ s = Append(r, s[Len(s)])
  <2>1. r \in Seq(Buffers) /\ Len(r) = Len(s) - 1 /\ \A i \in 1..(Len(s) - 1) : r[i] = s[i]
    BY <1>1, <1>4
  <2>2. s[Len(s)] \in Buffers
    BY <1>1, <1>4
  <2>3. Append(r, s[Len(s)]) \in Seq(Buffers) /\ Len(Append(r, s[Len(s)])) = Len(s)
    <3>1. Append(r, s[Len(s)]) \in Seq(Buffers) /\ Len(Append(r, s[Len(s)])) = Len(r) + 1
      BY <2>1, <2>2, AppendParts
    <3> QED
      BY <1>1, <2>1, <3>1
  <2>4. \A i \in DOMAIN s : s[i] = Append(r, s[Len(s)])[i]
    BY <1>1, <2>1, <2>2
  <2> QED
    BY <2>1, <2>3, <2>4, SameSequence
<1> QED
  BY <1>2, <1>3, <1>4

LEMMA QueuedCases ==
  ASSUME NEW s \in Seq(Buffers), IsList(s)
  PROVE  /\ ~InFront /\ ~AtEnd => Queued = s
         /\ InFront /\ s # <<>> => Queued = Tail(s)
         /\ AtEnd => Queued = SubSeq(s, 1, Len(s) - 1)
<1>1. AtEnd => ~InFront
  BY DEF AtEnd
<1>2. Queued = SubSeq(s, IF InFront THEN 2 ELSE 1, Len(s) - (IF AtEnd THEN 1 ELSE 0))
  BY QueuedAs
<1>3. Len(s) - 0 = Len(s)
  BY SeqDomain
<1> QED
  BY <1>1, <1>2, <1>3, Cuts

LEMMA QueuedCasesNext ==
  ASSUME NEW s \in Seq(Buffers), IsList(s)'
  PROVE  /\ ~InFront' /\ ~AtEnd' => Queued' = s
         /\ InFront' /\ s # <<>> => Queued' = Tail(s)
         /\ AtEnd' => Queued' = SubSeq(s, 1, Len(s) - 1)
<1>1. AtEnd' => ~InFront'
  BY DEF AtEnd
<1>2. Queued' = SubSeq(s, IF InFront' THEN 2 ELSE 1, Len(s) - (IF AtEnd' THEN 1 ELSE 0))
  BY QueuedNext
<1>3. Len(s) - 0 = Len(s)
  BY SeqDomain
<1> QED
  BY <1>1, <1>2, <1>3, Cuts

LEMMA QueuedSame ==
  ASSUME NEW s \in Seq(Buffers), IsList(s), IsList(s)', InFront' <=> InFront, AtEnd' <=> AtEnd
  PROVE  Queued' = Queued
<1>1. Queued = SubSeq(s, IF InFront THEN 2 ELSE 1, Len(s) - (IF AtEnd THEN 1 ELSE 0))
  BY QueuedAs
<1>2. Queued' = SubSeq(s, IF InFront' THEN 2 ELSE 1, Len(s) - (IF AtEnd' THEN 1 ELSE 0))
  BY QueuedNext
<1> QED
  BY <1>1, <1>2

\* While no call posts, BufferQueue sees the whole list.
LEMMA NobodyPosting ==
  ASSUME NEW s \in Seq(Buffers), IsList(s), Unposted = {}
  PROVE  ~InFront /\ ~AtEnd /\ Queued = s
<1>1. ~InFront /\ ~AtEnd
  BY DEF InFront, AtEnd
<1> QED
  BY <1>1, QueuedCases

\* The thread inside decides what is posted.
LEMMA EndsOf ==
  ASSUME CountInv, NEW t \in Threads, pc[t] \in Holding
  PROVE  /\ Unposted = IF t \in Unposted THEN {t} ELSE {}
         /\ InFront <=> t \in Unposted /\ first = buffer[t]
         /\ AtEnd <=> ~InFront /\ pc[t] \in {"advance", "post"}
<1>1. \A u \in Threads \ {t} : u \notin Unposted
  BY Alone DEF Unposted, Holding, Putting, Getting
<1>2. Unposted = IF t \in Unposted THEN {t} ELSE {}
  BY <1>1 DEF Unposted
<1>3. InFront <=> t \in Unposted /\ first = buffer[t]
  BY <1>2 DEF InFront
<1>4. AtEnd <=> ~InFront /\ t \in Unposted /\ pc[t] \in {"advance", "post"}
  BY <1>2 DEF AtEnd
<1>5. pc[t] \in {"advance", "post"} => t \in Unposted
  BY DEF Unposted
<1> QED
  BY <1>2, <1>3, <1>4, <1>5

\* The same after a step of that thread
LEMMA EndsNext ==
  ASSUME CountInv, NEW t \in Threads, pc[t] \in Holding,
         \A u \in Threads \ {t} : pc'[u] = pc[u]
  PROVE  /\ InFront' <=> t \in Unposted' /\ first' = buffer'[t]
         /\ AtEnd' <=> ~InFront' /\ t \in Unposted' /\ pc'[t] \in {"advance", "post"}
<1>1. \A u \in Threads \ {t} : u \notin Unposted'
  BY Alone DEF Unposted, Holding, Putting, Getting
<1>2. Unposted' = IF t \in Unposted' THEN {t} ELSE {}
  BY <1>1 DEF Unposted
<1>3. InFront' <=> t \in Unposted' /\ first' = buffer'[t]
  BY <1>2 DEF InFront
<1>4. AtEnd' <=> ~InFront' /\ t \in Unposted' /\ pc'[t] \in {"advance", "post"}
  BY <1>2 DEF AtEnd
<1> QED
  BY <1>3, <1>4

\* The claims that have not been served and the semaphore make up the list.
LEMMA PromisesExact ==
  ASSUME CountInv, NEW s \in Seq(Buffers), Good(s)
  PROVE  /\ IsFiniteSet(Promises) /\ Cardinality(Promises) \in Nat
         /\ Queued \in Seq(Buffers) /\ semaphore + Cardinality(Promises) = Len(Queued)
<1> DEFINE Un == {u \in Threads : pc[u] = "uncount"}
<1>1. IsList(s) /\ Len(s) \in Nat /\ semaphore \in Nat
  BY SeqDomain DEF Good, LinkedAs, CountInv, TypeOK
<1>2. /\ Claimants = Promises \cup Un /\ Promises \cap Un = {} /\ Promises \subseteq Claimants
      /\ Claimants \in SUBSET Threads
  BY DEF Claimants, Promises
<1>3. IsFiniteSet(Promises) /\ Cardinality(Promises) \in Nat
  BY <1>2, SubsetsFinite, FS_Subset, FS_CardinalityType
<1>4. semaphore + Cardinality(Claimants) + Cardinality(Unposted) = length
  BY DEF CountInv, SemaphoreExact
<1>5. CASE Unposted = {} /\ Un = {}
  <2>1. Lagging = {} /\ Claimants = Promises /\ Cardinality(Unposted) = 0
    BY <1>2, <1>5, FS_EmptySet DEF Lagging, Unposted
  <2>2. length = Len(s) /\ Queued = s
    BY <1>1, <1>5, <2>1, NobodyPosting DEF Good, LinkedAs
  <2> QED
    BY <1>1, <1>3, <1>4, <2>1, <2>2
<1>6. ASSUME NEW t \in Un
      PROVE  Queued \in Seq(Buffers) /\ semaphore + Cardinality(Promises) = Len(Queued)
  <2>1. pc[t] \in Holding /\ t \in Threads /\ t \notin Unposted
    BY <1>6 DEF Holding, Getting, Unposted
  <2>2. Unposted = {} /\ \A u \in Threads \ {t} : pc[u] \notin Holding
    BY <2>1, EndsOf, Alone
  <2>3. Un = {t} /\ Lagging # {}
    BY <1>6, <2>2 DEF Holding, Getting, Lagging
  <2>4. Claimants = Promises \cup {t} /\ t \notin Promises
    BY <1>2, <2>3
  <2>5. Cardinality(Claimants) = Cardinality(Promises) + 1 /\ Cardinality(Unposted) = 0
    BY <1>3, <2>2, <2>4, Enter, FS_EmptySet
  <2>6. length = Len(s) + 1 /\ Queued = s
    BY <1>1, <2>2, <2>3, NobodyPosting DEF Good, LinkedAs
  <2> QED
    BY <1>1, <1>3, <1>4, <2>5, <2>6
<1>7. ASSUME NEW t \in Unposted
      PROVE  Queued \in Seq(Buffers) /\ semaphore + Cardinality(Promises) = Len(Queued)
  <2>1. /\ pc[t] \in Holding /\ t \in Threads
        /\ pc[t] \in {"append", "advance", "prepend", "advanceBack", "post"}
    BY <1>7 DEF Holding, Putting, Unposted
  <2>2. Unposted = {t} /\ \A u \in Threads \ {t} : pc[u] \notin Holding
    BY <1>7, <2>1, EndsOf, Alone
  <2>3. Un = {}
    BY <2>1, <2>2 DEF Holding, Getting
  <2>4. Claimants = Promises /\ Cardinality(Unposted) = 1
    BY <1>2, <2>2, <2>3, FS_Singleton
  <2>5. CASE pc[t] \in {"append", "prepend"}
    <3>1. Lagging # {}
      BY <2>1, <2>5 DEF Lagging
    <3>2. length = Len(s) + 1
      BY <3>1 DEF Good, LinkedAs
    <3>3. buffer[t] \in Buffers /\ \A i \in DOMAIN s : s[i] # buffer[t]
      BY <2>1, <2>5 DEF CountInv, Callers, Putting, Good, Separate, Apart
    <3>4. first # buffer[t]
      BY <1>1, <3>3, HeaderAssumption, SeqDomain DEF IsList
    <3>5. Queued = s
      BY <1>1, <2>1, <2>5, <3>4, EndsOf, QueuedCases
    <3> QED
      BY <1>1, <1>3, <1>4, <2>4, <3>2, <3>5
  <2>6. CASE pc[t] \in {"advance", "advanceBack", "post"}
    <3>1. Lagging = {}
      BY <2>2, <2>6 DEF Lagging, Holding, Putting, Getting
    <3>2. length = Len(s)
      BY <3>1 DEF Good, LinkedAs
    <3>3. s # <<>> /\ (pc[t] = "advanceBack" => s[1] = buffer[t])
      BY <2>1, <2>6 DEF Good, HalfWay
    <3>4. first = s[1]
      BY <1>1, <3>3 DEF IsList
    <3>5. InFront \/ AtEnd
      BY <1>7, <2>1, <2>6, <3>3, <3>4, EndsOf
    <3>6. Queued \in {Tail(s), SubSeq(s, 1, Len(s) - 1)}
      BY <1>1, <3>3, <3>5, QueuedCases
    <3>7. Queued \in Seq(Buffers) /\ Len(Queued) = Len(s) - 1
      BY <3>3, <3>6, Cuts, TailParts
    <3> QED
      BY <1>1, <1>3, <1>4, <2>4, <3>2, <3>7
  <2> QED
    BY <2>1, <2>5, <2>6
<1> QED
  BY <1>3, <1>5, <1>6, <1>7

-----------------------------------------------------------------------------

\* What each step of BufferQueue says of the queue
LEMMA AbstractSteps ==
  /\ Abstract!Init <=> Queued = <<>> /\ Promises = {} /\ Returned = [t \in Threads |-> None]
  /\ UNCHANGED <<Queued, Promises, Returned>> => UNCHANGED Abstract!vars
  /\ \A b \in Buffers :
       /\ \A i \in DOMAIN Queued : Queued[i] # b
       /\ Queued' = Append(Queued, b) \/ (b \in Backs /\ Queued' = <<b>> \o Queued)
       /\ UNCHANGED <<Promises, Returned>>
       => Abstract!Next
  /\ \A t \in Threads :
       /\ t \notin Promises /\ Cardinality(Promises) < Len(Queued)
       /\ Promises' = Promises \cup {t} /\ UNCHANGED <<Queued, Returned>>
       => Abstract!Next
  /\ \A t \in Threads :
       /\ t \in Promises /\ Promises' = Promises \ {t}
       /\ Queued' = Tail(Queued) /\ Returned' = [Returned EXCEPT ![t] = Head(Queued)]
       => Abstract!Next
  /\ \A t \in Threads :
       /\ t \notin Promises /\ Cardinality(Promises) = Len(Queued)
       /\ Returned' = [Returned EXCEPT ![t] = None] /\ UNCHANGED <<Queued, Promises>>
       => Abstract!Next
<1> \A S : Abstract!Cardinality(S) = Cardinality(S)
  BY DEF Abstract!Cardinality, Cardinality
<1>1. Abstract!Init <=> Queued = <<>> /\ Promises = {} /\ Returned = [t \in Threads |-> None]
  BY DEF Abstract!Init
<1>2. UNCHANGED <<Queued, Promises, Returned>> => UNCHANGED Abstract!vars
  BY DEF Abstract!vars
<1>3. ASSUME NEW b \in Buffers, \A i \in DOMAIN Queued : Queued[i] # b,
             Queued' = Append(Queued, b) \/ (b \in Backs /\ Queued' = <<b>> \o Queued),
             UNCHANGED <<Promises, Returned>>
      PROVE  Abstract!Next
  BY <1>3 DEF Abstract!Next, Abstract!Put
<1>4. ASSUME NEW t \in Threads, t \notin Promises, Cardinality(Promises) < Len(Queued),
             Promises' = Promises \cup {t}, UNCHANGED <<Queued, Returned>>
      PROVE  Abstract!Next
  BY <1>4 DEF Abstract!Next, Abstract!Promise
<1>5. ASSUME NEW t \in Threads, t \in Promises, Promises' = Promises \ {t},
             Queued' = Tail(Queued), Returned' = [Returned EXCEPT ![t] = Head(Queued)]
      PROVE  Abstract!Next
  BY <1>5 DEF Abstract!Next, Abstract!Take
<1>6. ASSUME NEW t \in Threads, t \notin Promises, Cardinality(Promises) = Len(Queued),
             Returned' = [Returned EXCEPT ![t] = None], UNCHANGED <<Queued, Promises>>
      PROVE  Abstract!Next
  BY <1>6 DEF Abstract!Next, Abstract!Fail
<1> QED
  BY <1>1, <1>2, <1>3, <1>4, <1>5, <1>6

LEMMA InitAbstract == Init => Abstract!Init
<1> SUFFICES ASSUME Init PROVE Abstract!Init
  OBVIOUS
<1>1. <<>> \in Seq(Buffers) /\ IsList(<<>>) /\ Unposted = {} /\ Promises = {}
  BY DEF Init, IsList, Unposted, Promises
<1>2. Queued = <<>>
  BY <1>1, NobodyPosting
<1>3. Returned = [t \in Threads |-> None]
  BY DEF Init, Returned
<1> QED
  BY <1>1, <1>2, <1>3, AbstractSteps

\* A step of t that does not move it in or out of a post, a claim or a return
LEMMA Quiet ==
  ASSUME CountInv, NEW t \in Threads,
         \A u \in Threads \ {t} : pc'[u] = pc[u] /\ buffer'[u] = buffer[u] /\ got'[u] = got[u],
         pc[t] \in {"getLock", "take", "unhook"} <=> pc'[t] \in {"getLock", "take", "unhook"},
         (IF pc[t] \in {"uncount", "unlockGet"} THEN buffer[t] ELSE got[t])
           = (IF pc'[t] \in {"uncount", "unlockGet"} THEN buffer'[t] ELSE got'[t])
  PROVE  UNCHANGED <<Promises, Returned>>
<1>1. Promises' = Promises
  BY DEF Promises
<1>2. \A u \in Threads :
        (IF pc'[u] \in {"uncount", "unlockGet"} THEN buffer'[u] ELSE got'[u])
          = (IF pc[u] \in {"uncount", "unlockGet"} THEN buffer[u] ELSE got[u])
  OBVIOUS
<1>3. Returned' = Returned
  BY <1>2 DEF Returned
<1> QED
  BY <1>1, <1>3

\* A step of t outside the lock that is not about a call that posts
LEMMA OutsideEnds ==
  ASSUME CountInv, NEW t \in Threads, t \notin Unposted, t \notin Unposted',
         \A u \in Threads \ {t} : pc'[u] = pc[u] /\ buffer'[u] = buffer[u],
         first' = first
  PROVE  (InFront' <=> InFront) /\ (AtEnd' <=> AtEnd)
<1>1. Unposted' = Unposted /\ \A u \in Unposted : buffer'[u] = buffer[u] /\ pc'[u] = pc[u]
  BY DEF Unposted
<1> QED
  BY <1>1 DEF InFront, AtEnd

LEMMA QuietSteps ==
  ASSUME CountInv, NEW s \in Seq(Buffers), Good(s), Good(s)', NEW t \in Threads,
         \/ \E b \in Buffers : Put(t, b)
         \/ LockPut(t) \/ LockGet(t) \/ UnlockPut(t) \/ Take(t) \/ Uncount(t) \/ UnlockGet(t)
         \/ BeginWait(t) \/ ReadLength(t)
  PROVE  UNCHANGED <<Queued, Promises, Returned>>
<1> USE DEF Put, LockPut, LockGet, UnlockPut, Take, Uncount, UnlockGet, BeginWait, ReadLength,
            Lock, Unlock, Step, links
<1>1. /\ \A u \in Threads \ {t} : pc'[u] = pc[u] /\ buffer'[u] = buffer[u] /\ got'[u] = got[u]
      /\ first' = first
  BY DEF CountInv, TypeOK
<1>2. pc[t] \in {"getLock", "take", "unhook"} <=> pc'[t] \in {"getLock", "take", "unhook"}
  BY DEF CountInv, TypeOK
<1>3. (IF pc[t] \in {"uncount", "unlockGet"} THEN buffer[t] ELSE got[t])
        = (IF pc'[t] \in {"uncount", "unlockGet"} THEN buffer'[t] ELSE got'[t])
  BY DEF CountInv, TypeOK
<1>4. t \notin Unposted /\ t \notin Unposted'
  BY DEF CountInv, TypeOK, Unposted
<1>5. UNCHANGED <<Promises, Returned>>
  BY <1>1, <1>2, <1>3, Quiet
<1>6. (InFront' <=> InFront) /\ (AtEnd' <=> AtEnd)
  BY <1>1, <1>4, OutsideEnds
<1>7. Queued' = Queued
  BY <1>6, QueuedSame DEF Good, LinkedAs
<1> QED
  BY <1>5, <1>7

\* A step of t inside a put changes neither the claims nor what a get returned.
LEMMA PutIsQuiet ==
  ASSUME CountInv, NEW t \in Threads,
         \/ Count(t) \/ LinkLast(t) \/ LinkFirst(t) \/ AdvanceLast(t) \/ AdvanceBack(t) \/ Post(t)
  PROVE  /\ UNCHANGED <<Promises, Returned>> /\ pc[t] \in Holding
         /\ \A u \in Threads \ {t} : pc'[u] = pc[u]
         /\ buffer' = buffer /\ buffer[t] \in Buffers
<1> USE DEF Count, LinkLast, LinkFirst, AdvanceLast, AdvanceBack, Post, Step, links
<1>1. /\ \A u \in Threads \ {t} : pc'[u] = pc[u]
      /\ buffer' = buffer /\ got' = got
      /\ pc[t] \in Putting /\ pc'[t] \in Putting \cup {"unlockPut"}
  BY DEF CountInv, TypeOK, Putting
<1>2. UNCHANGED <<Promises, Returned>>
  BY <1>1, Quiet DEF Putting
<1>3. buffer[t] \in Buffers
  BY <1>1 DEF CountInv, Callers
<1> QED
  BY <1>1, <1>2, <1>3 DEF Holding

\* The header of a put is not seen while it is linked.
LEMMA LinkSteps ==
  ASSUME CountInv, NEW s \in Seq(Buffers), Good(s), NEW t \in Threads,
         LinkLast(t) \/ LinkFirst(t)
  PROVE  UNCHANGED <<Queued, Promises, Returned>>
<1>1. /\ UNCHANGED <<Promises, Returned>> /\ pc[t] \in Holding
      /\ \A u \in Threads \ {t} : pc'[u] = pc[u]
      /\ buffer' = buffer /\ buffer[t] \in Buffers
  BY PutIsQuiet
<1>2. /\ pc[t] \in {"append", "prepend"} /\ pc'[t] \in {"advance", "advanceBack"}
      /\ t \in Unposted /\ t \in Unposted'
  BY DEF LinkLast, LinkFirst, Step, CountInv, TypeOK, Unposted
<1>3. PICK b : b = buffer[t]
  OBVIOUS
<1>4. IsList(s) /\ \A i \in DOMAIN s : s[i] # b
  BY <1>2, <1>3 DEF Good, LinkedAs, Separate, Apart
<1>5. first # b
  BY <1>1, <1>3, <1>4, HeaderAssumption, SeqDomain DEF IsList
<1>6. Queued = s
  BY <1>1, <1>2, <1>3, <1>4, <1>5, EndsOf, QueuedCases
<1>7. CASE LinkLast(t)
  <2>1. PICK r : r = Append(s, b)
    OBVIOUS
  <2>2. r \in Seq(Buffers) /\ IsList(r)'
    BY <1>3, <1>7, <2>1, LinkLastList DEF Good, LinkedAs
  <2>3. r # <<>> /\ Len(r) = Len(s) + 1 /\ r[Len(r)] = b /\ first' = r[1]
        /\ SubSeq(r, 1, Len(r) - 1) = s
    <3>1. r # <<>> /\ Len(r) = Len(s) + 1 /\ r[Len(r)] = b
      BY <1>1, <1>3, <2>1
    <3>2. first' = r[1]
      BY <2>2, <3>1 DEF IsList
    <3>3. PICK q : q = SubSeq(r, 1, Len(r) - 1)
      OBVIOUS
    <3>4. q \in Seq(Buffers) /\ Len(q) = Len(s) /\ \A i \in DOMAIN s : q[i] = s[i]
      BY <1>1, <1>3, <2>1, <3>1, <3>3
    <3>5. q = s
      BY <3>4, SameSequence
    <3> QED
      BY <3>1, <3>2, <3>3, <3>5
  <2>4. pc'[t] = "advance"
    BY <1>7 DEF LinkLast, Step, CountInv, TypeOK
  <2>5. CASE s = <<>>
    <3>1. r[1] = b /\ Tail(r) = s
      BY <1>1, <1>3, <2>1, <2>5
    <3>2. InFront'
      BY <1>1, <1>2, <1>3, <2>3, <3>1, EndsNext
    <3> QED
      BY <1>1, <1>6, <2>2, <2>3, <3>1, <3>2, QueuedCasesNext
  <2>6. CASE s # <<>>
    <3>1. r[1] = s[1] /\ s[1] # b
      BY <1>1, <1>3, <1>4, <2>1, <2>6
    <3>2. AtEnd'
      BY <1>1, <1>2, <1>3, <2>3, <2>4, <3>1, EndsNext
    <3> QED
      BY <1>1, <1>6, <2>2, <2>3, <3>2, QueuedCasesNext
  <2> QED
    BY <2>5, <2>6
<1>8. CASE LinkFirst(t)
  <2>1. PICK r : r = <<b>> \o s
    OBVIOUS
  <2>2. r \in Seq(Buffers) /\ IsList(r)'
    BY <1>3, <1>8, <2>1, LinkFirstList DEF Good, LinkedAs
  <2>3. r # <<>> /\ r[1] = b /\ Tail(r) = s
    <3>1. r # <<>> /\ r[1] = b /\ Len(r) = Len(s) + 1
      BY <1>1, <1>3, <2>1
    <3>2. PICK q : q = Tail(r)
      OBVIOUS
    <3>3. q \in Seq(Buffers) /\ Len(q) = Len(s) /\ \A i \in DOMAIN s : q[i] = s[i]
      BY <1>1, <1>3, <2>1, <3>1, <3>2
    <3>4. q = s
      BY <3>3, SameSequence
    <3> QED
      BY <3>1, <3>2, <3>4
  <2>4. first' = b
    BY <2>2, <2>3 DEF IsList
  <2>5. InFront'
    BY <1>1, <1>2, <1>3, <2>4, EndsNext
  <2> QED
    BY <1>1, <1>6, <2>2, <2>3, <2>5, QueuedCasesNext
<1> QED
  BY <1>7, <1>8

LEMMA CountSteps ==
  ASSUME CountInv, NEW s \in Seq(Buffers), Good(s), Good(s)', NEW t \in Threads,
         Count(t) \/ AdvanceLast(t) \/ AdvanceBack(t)
  PROVE  UNCHANGED <<Queued, Promises, Returned>>
<1>1. /\ UNCHANGED <<Promises, Returned>> /\ pc[t] \in Holding
      /\ \A u \in Threads \ {t} : pc'[u] = pc[u]
      /\ buffer' = buffer /\ buffer[t] \in Buffers
  BY PutIsQuiet
<1>2. first' = first /\ IsList(s) /\ IsList(s)'
  BY DEF Count, AdvanceLast, AdvanceBack, links, Good, LinkedAs
<1>3. (InFront' <=> InFront) /\ (AtEnd' <=> AtEnd)
  <2>1. CASE Count(t)
    <3>1. /\ pc[t] \in {"count", "countBack"} /\ pc'[t] \in {"append", "prepend"}
          /\ t \notin Unposted
      BY <2>1 DEF Count, Step, CountInv, TypeOK, Unposted
    <3>2. \A i \in DOMAIN s : s[i] # buffer[t]
      BY <3>1 DEF Good, Separate, Apart
    <3>3. first # buffer[t]
      BY <1>1, <1>2, <3>2, HeaderAssumption, SeqDomain DEF IsList
    <3> QED
      BY <1>1, <1>2, <3>1, <3>3, EndsOf, EndsNext
  <2>2. CASE AdvanceLast(t)
    <3>1. pc[t] = "advance" /\ pc'[t] = "post" /\ t \in Unposted /\ t \in Unposted'
      BY <2>2 DEF AdvanceLast, Step, CountInv, TypeOK, Unposted
    <3> QED
      BY <1>1, <1>2, <3>1, EndsOf, EndsNext
  <2>3. CASE AdvanceBack(t)
    <3>1. pc[t] = "advanceBack" /\ t \in Unposted /\ t \in Unposted'
      BY <2>3 DEF AdvanceBack, Step, CountInv, TypeOK, Unposted
    <3>2. first = buffer[t]
      BY <1>2, <3>1 DEF Good, HalfWay, IsList
    <3> QED
      BY <1>1, <1>2, <3>1, <3>2, EndsOf, EndsNext
  <2> QED
    BY <2>1, <2>2, <2>3
<1> QED
  BY <1>1, <1>2, <1>3, QueuedSame

\* The post shows the header, at the end of the list or, if it was put back, in front.
LEMMA PostStep ==
  ASSUME CountInv, NEW s \in Seq(Buffers), Good(s), Good(s)', NEW t \in Threads, Post(t)
  PROVE  Abstract!Next
<1>1. /\ UNCHANGED <<Promises, Returned>> /\ pc[t] \in Holding
      /\ \A u \in Threads \ {t} : pc'[u] = pc[u]
      /\ buffer' = buffer /\ buffer[t] \in Buffers
  BY PutIsQuiet
<1>2. pc[t] = "post" /\ t \in Unposted /\ t \notin Unposted' /\ first' = first
  BY DEF Post, Step, CountInv, TypeOK, Unposted, links
<1>3. PICK b \in Buffers : b = buffer[t]
  BY <1>1
<1>4. /\ IsList(s) /\ IsList(s)' /\ s # <<>> /\ first = s[1]
      /\ s[Len(s)] = b \/ (b \in Backs /\ s[1] = b)
  BY <1>2, <1>3 DEF Good, LinkedAs, HalfWay, IsList
<1>5. ~InFront' /\ ~AtEnd'
  BY <1>1, <1>2, EndsNext
<1>6. Queued' = s
  BY <1>4, <1>5, QueuedCasesNext
<1>7. /\ Len(s) \in Nat /\ Len(s) >= 1 /\ DOMAIN s = 1..Len(s)
      /\ \A i, j \in DOMAIN s : s[i] = s[j] => i = j
  BY <1>4, SeqDomain DEF IsList
<1>8. CASE s[1] = b
  <2>1. InFront
    BY <1>1, <1>2, <1>3, <1>4, <1>8, EndsOf
  <2>2. Queued = Tail(s)
    BY <1>4, <2>1, QueuedCases
  <2>3. \A i \in DOMAIN Queued : Queued[i] # b
    <3>1. \A i \in DOMAIN Tail(s) : Tail(s)[i] = s[i + 1] /\ i + 1 \in DOMAIN s /\ i + 1 # 1
      BY <1>4, TailParts
    <3> QED
      BY <1>7, <1>8, <2>2, <3>1
  <2>4. Queued' = <<b>> \o Queued
    BY <1>4, <1>6, <1>8, <2>2, Cuts
  <2>5. CASE Len(s) = 1
    <3>1. Queued = <<>> /\ Queued' = Append(Queued, b)
      BY <1>3, <1>4, <1>6, <1>7, <2>2, <2>4, <2>5
    <3> QED
      BY <1>1, <2>3, <3>1, AbstractSteps
  <2>6. CASE Len(s) # 1
    <3>1. s[Len(s)] # b
      BY <1>7, <1>8, <2>6
    <3> QED
      BY <1>1, <1>4, <2>3, <2>4, <3>1, AbstractSteps
  <2> QED
    BY <2>5, <2>6
<1>9. CASE s[1] # b
  <2>1. AtEnd
    BY <1>1, <1>2, <1>3, <1>4, <1>9, EndsOf
  <2>2. PICK q : q = SubSeq(s, 1, Len(s) - 1)
    OBVIOUS
  <2>3. Queued = q /\ q \in Seq(Buffers) /\ Len(q) = Len(s) - 1 /\ s = Append(q, b)
    BY <1>4, <1>9, <2>1, <2>2, Cuts, QueuedCases
  <2>4. \A i \in DOMAIN q : q[i] # b
    <3>1. \A i \in DOMAIN q : i \in DOMAIN s /\ i # Len(s) /\ q[i] = s[i]
      BY <1>7, <2>3, AppendParts
    <3>2. s[Len(s)] = b /\ Len(s) \in DOMAIN s
      BY <1>4, <1>7, <1>9
    <3> QED
      BY <1>7, <3>1, <3>2
  <2> QED
    BY <1>1, <1>6, <2>3, <2>4, AbstractSteps
<1> QED
  BY <1>8, <1>9

\* Unhooking the first header is the get of BufferQueue.
LEMMA UnhookStep ==
  ASSUME CountInv, NEW s \in Seq(Buffers), Good(s), NEW t \in Threads, Unhook(t)
  PROVE  Abstract!Next
<1>1. /\ pc[t] = "unhook" /\ pc[t] \in Holding /\ t \in Promises
      /\ pc' = [pc EXCEPT ![t] = "uncount"] /\ pc \in [Threads -> Steps]
      /\ UNCHANGED <<buffer, got>> /\ t \notin Unposted /\ t \notin Unposted'
  BY DEF Unhook, Step, Holding, Getting, Promises, CountInv, TypeOK, Unposted
<1>2. IsList(s) /\ s # <<>> /\ s[1] = buffer[t] /\ Head(s) = s[1]
  BY <1>1, TailParts DEF Good, LinkedAs, HalfWay
<1>3. Queued = s
  BY <1>1, <1>2, EndsOf, QueuedCases
<1>4. PICK b : b = buffer[t]
  OBVIOUS
<1>5. PICK r : r = Tail(s)
  OBVIOUS
<1>6. r \in Seq(Buffers) /\ IsList(r)'
  BY <1>4, <1>5, UnhookList DEF Good, LinkedAs
<1>7. \A u \in Threads \ {t} : pc'[u] = pc[u]
  BY <1>1
<1>8. ~InFront' /\ ~AtEnd'
  BY <1>1, <1>7, EndsNext
<1>9. Queued' = Tail(Queued)
  BY <1>3, <1>5, <1>6, <1>8, QueuedCasesNext
<1>10. Promises' = Promises \ {t}
  BY <1>1 DEF Promises
<1>11. Returned' = [Returned EXCEPT ![t] = Head(Queued)]
  BY <1>1, <1>2, <1>3 DEF Returned
<1> QED
  BY <1>1, <1>9, <1>10, <1>11, AbstractSteps

\* A claim on the semaphore is a promise, a get that finds it at zero a failure.
LEMMA ClaimSteps ==
  ASSUME CountInv, NEW s \in Seq(Buffers), Good(s), Good(s)', NEW t \in Getters,
         Get(t) \/ WakeUp(t) \/ TimeOut(t)
  PROVE  Abstract!Next
<1> USE DEF Get, WakeUp, TimeOut, Claim, Step, links, Threads
<1>1. /\ pc[t] \in {"idle", "wait"} /\ pc'[t] \in {"idle", "getLock"} /\ t \in Threads
      /\ \A u \in Threads \ {t} : pc'[u] = pc[u]
      /\ UNCHANGED <<buffer, first>> /\ semaphore \in Nat
  BY DEF CountInv, TypeOK
<1>2. t \notin Unposted /\ t \notin Unposted' /\ t \notin Promises
  BY <1>1 DEF Unposted, Promises
<1>3. Queued' = Queued
  BY <1>1, <1>2, OutsideEnds, QueuedSame DEF Good, LinkedAs
<1>4. Cardinality(Promises) \in Nat /\ semaphore + Cardinality(Promises) = Len(Queued)
  BY PromisesExact
<1>5. CASE semaphore > 0
  <2>1. pc'[t] = "getLock" /\ UNCHANGED got
    BY <1>5 DEF CountInv, TypeOK
  <2>2. Promises' = Promises \cup {t}
    BY <1>1, <2>1 DEF Promises
  <2>3. Returned' = Returned
    BY <1>1, <2>1 DEF Returned
  <2>4. Cardinality(Promises) < Len(Queued)
    BY <1>1, <1>4, <1>5
  <2> QED
    BY <1>1, <1>2, <1>3, <2>2, <2>3, <2>4, AbstractSteps
<1>6. CASE ~(semaphore > 0)
  <2>1. semaphore = 0 /\ pc'[t] = "idle" /\ got' = [got EXCEPT ![t] = None]
    BY <1>6 DEF CountInv, TypeOK
  <2>2. Promises' = Promises
    BY <1>1, <2>1 DEF Promises
  <2>3. Returned' = [Returned EXCEPT ![t] = None]
    BY <1>1, <2>1 DEF Returned, CountInv, TypeOK
  <2>4. Cardinality(Promises) = Len(Queued)
    BY <1>4, <2>1
  <2> QED
    BY <1>1, <1>2, <1>3, <2>2, <2>3, <2>4, AbstractSteps
<1> QED
  BY <1>5, <1>6

LEMMA AbstractNext ==
  ASSUME CountInv, ListInv, [Next]_vars
  PROVE  Abstract!Next \/ UNCHANGED Abstract!vars
<1>1. PICK s \in Seq(Buffers) : Good(s)
  BY DEF ListInv
<1>2. CASE \E t \in Putters, b \in Buffers : Put(t, b)
  BY <1>1, <1>2, PutList, QuietSteps, AbstractSteps DEF Threads
<1>3. CASE \E t \in Getters :
             Get(t) \/ BeginWait(t) \/ WakeUp(t) \/ TimeOut(t) \/ ReadLength(t)
  BY <1>1, <1>3, WaitList, QuietSteps, ClaimSteps, AbstractSteps DEF Threads
<1>4. ASSUME NEW t \in Threads, LockPut(t) \/ LockGet(t) \/ Inside(t)
      PROVE  Abstract!Next \/ UNCHANGED Abstract!vars
  <2>1. CASE LockPut(t) \/ LockGet(t) \/ UnlockPut(t) \/ Take(t) \/ Uncount(t) \/ UnlockGet(t)
    <3>1. Good(s)'
      BY <1>1, <2>1, LockList, PostList, TakeList, UncountList, UnlockGetList
    <3>2. UNCHANGED <<Queued, Promises, Returned>>
      BY <1>1, <2>1, <3>1, QuietSteps
    <3> QED
      BY <3>2, AbstractSteps
  <2>2. CASE Count(t) \/ AdvanceLast(t) \/ AdvanceBack(t)
    <3>1. Good(s)'
      BY <1>1, <2>2, CountList, AdvanceList
    <3>2. UNCHANGED <<Queued, Promises, Returned>>
      BY <1>1, <2>2, <3>1, CountSteps
    <3> QED
      BY <3>2, AbstractSteps
  <2>3. CASE LinkLast(t) \/ LinkFirst(t)
    <3>1. UNCHANGED <<Queued, Promises, Returned>>
      BY <1>1, <2>3, LinkSteps
    <3> QED
      BY <3>1, AbstractSteps
  <2>4. CASE Post(t)
    BY <1>1, <2>4, PostList, PostStep
  <2>5. CASE Unhook(t)
    BY <1>1, <2>5, UnhookStep
  <2> QED
    BY <1>4, <2>1, <2>2, <2>3, <2>4, <2>5 DEF Inside
<1>5. CASE UNCHANGED vars
  <2>1. IsList(s) /\ IsList(s)'
    BY <1>1, <1>5 DEF Good, LinkedAs, IsList, vars, links
  <2>2. /\ Unposted' = Unposted /\ UNCHANGED <<first, buffer, pc>>
        /\ UNCHANGED <<Promises, Returned>>
    BY <1>5 DEF vars, links, Unposted, Promises, Returned
  <2>3. (InFront' <=> InFront) /\ (AtEnd' <=> AtEnd)
    BY <2>2 DEF InFront, AtEnd
  <2>4. UNCHANGED Queued
    BY <2>1, <2>3, QueuedSame
  <2> QED
    BY <2>2, <2>4, AbstractSteps
<1> QED
  BY <1>2, <1>3, <1>4, <1>5 DEF Next

\* mmal_queue_put, put_back, get, wait and timedwait implement the queue they promise,
\* for any number of callers and headers: whatever the callers interleave, headers
\* leave in the order of the list, each put comes out once, and a get comes back with
\* nothing only when every header in the list is promised to another caller.
THEOREM QueueImplemented == Spec => ImplementsQueue
<1>1. CountInv /\ ListInv /\ [Next]_vars => [Abstract!Next]_Abstract!vars
  BY AbstractNext
<1> QED
  BY <1>1, InitAbstract, CountInvariant, ListInvariant, PTL
     DEF Spec, ImplementsQueue, Abstract!Spec

=============================================================================
