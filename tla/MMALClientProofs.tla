-------------------------- MODULE MMALClientProofs --------------------------
(***************************************************************************)
(* Proofs about MMALClient, for any threads, visitors, waiters, contexts   *)
(* and failures.                                                           *)
(***************************************************************************)
EXTENDS MMALClient, SequenceFacts

\* The threads that the counts are about: those that need the client, those that
\* hold the use of the open call, those a waiter short or a waiter behind, and
\* those whose request needs VideoCore.
Inside   == {t \in Callers : pc[t] # "out"}
Entering == {t \in Callers : pc[t] = "initRelease"}
Between  == {t \in Callers : pc[t] \in {"scan", "post"}}
Using    == {t \in Callers : pc[t] \in {"queue", "bulk", "wait", "release"} /\ waiter[t] # None}

\* TypeOK but for the upper bounds, which follow from the counts.
Flags ==
  /\ inited \in BOOLEAN /\ open \in BOOLEAN /\ inUse \in BOOLEAN
  /\ unused \in BOOLEAN /\ broken \in BOOLEAN

Numbers ==
  /\ refcount \in Nat /\ usecount \in Int /\ poolSem \in Nat
  /\ waiterInUse \subseteq Waiters /\ waiterSem \in [Waiters -> Nat]

Places ==
  /\ bulkLock \in Callers \cup {None} /\ sentData \subseteq Callers
  /\ pc \in [Callers -> Labels] /\ waiter \in [Callers -> Waiters \cup {None}]
  /\ call \in [Callers -> Messages \cup {None}] /\ claimed \subseteq Callers

Wires ==
  /\ wire \in Seq(Messages) /\ bulks \in Seq(Callers) /\ receiving \in Seq(Messages)
  /\ requests \subseteq Messages

Types == Flags /\ Numbers /\ Places /\ Wires

\* What a call has: its message, and a waiter from the scan until it is freed if it
\* waits for a reply.
CallInv ==
  \A t \in Callers :
    /\ pc[t] \in Calling => call[t] \in Messages
    /\ pc[t] \in {"getWaiter", "scan", "use"} => Waits(call[t])
    /\ pc[t] \in {"use", "wait", "release", "free"} => waiter[t] # None
    /\ pc[t] \in {"queue", "bulk"} => (Waits(call[t]) <=> waiter[t] # None)
    /\ waiter[t] # None => /\ pc[t] \in {"use", "queue", "bulk", "wait", "release", "free"}
                           /\ waiter[t] \in waiterInUse

\* No waiter is given to two threads.
Distinct ==
  \A t, u \in Callers : waiter[t] # None /\ waiter[t] = waiter[u] => t = u

\* The reference count, and the client that is there as long as it is not zero
RefInv ==
  /\ refcount = Cardinality(Inside)
  /\ inited <=> refcount > 0
  /\ open <=> inited

\* The semaphore of the pool is behind the free waiters by the threads between it
\* and the scan, or between a waiter's release and the post.
PoolInv ==
  /\ inited => Cardinality(FreeWaiters) = poolSem + Cardinality(Between)
  /\ ~inited => poolSem = 0

\* Who has claimed VideoCore
ClaimInv ==
  \A t \in Callers :
    /\ t \in claimed => t \notin Visitors /\ pc[t] \in {"idle"} \cup Calling
    /\ pc[t] = "idle" => t \notin Visitors
    /\ ~unused /\ t \notin Visitors /\ pc[t] \in {"idle"} \cup Calling => t \in claimed

\* The use count is never short, as long as no vchiq_use_service has failed.
UseInv ==
  inited /\ ~unused =>
    /\ usecount >= Cardinality(Entering) + Cardinality(claimed) + Cardinality(Using)
    /\ usecount > 0 => inUse

StageInv == Types /\ CallInv /\ ClaimInv
IInv     == StageInv /\ Distinct /\ RefInv /\ PoolInv /\ UseInv

-----------------------------------------------------------------------------
(* Counting                                                                 *)

\* A step of thread t leaves the others alone.
Frame(t) ==
  /\ \A u \in Callers \ {t} : pc'[u] = pc[u] /\ waiter'[u] = waiter[u] /\ call'[u] = call[u]
  /\ claimed' \ {t} = claimed \ {t}

LEMMA Finite ==
  ASSUME Types
  PROVE  /\ \A S \in {Inside, Entering, Between, Using, claimed} :
               IsFiniteSet(S) /\ Cardinality(S) \in Nat
         /\ IsFiniteSet(FreeWaiters) /\ Cardinality(FreeWaiters) \in Nat
<1> USE SetAssumption
<1>1. \A S \in SUBSET Callers : IsFiniteSet(S) /\ Cardinality(S) \in Nat
      BY FS_Subset, FS_CardinalityType
<1>2. FreeWaiters \subseteq Waiters  BY DEF FreeWaiters
<1>3. IsFiniteSet(FreeWaiters) /\ Cardinality(FreeWaiters) \in Nat
      BY <1>2, FS_Subset, FS_CardinalityType
<1>4. \A S \in {Inside, Entering, Between, Using, claimed} : S \in SUBSET Callers
      BY DEF Inside, Entering, Between, Using, Types, Places
<1> QED  BY <1>1, <1>3, <1>4

LEMMA Recount ==
  ASSUME Types, NEW t \in Callers, Frame(t)
  PROVE  /\ Cardinality(Inside') = Cardinality(Inside) + One(t \in Inside') - One(t \in Inside)
         /\ Cardinality(Entering') = Cardinality(Entering) + One(t \in Entering') - One(t \in Entering)
         /\ Cardinality(Between') = Cardinality(Between) + One(t \in Between') - One(t \in Between)
         /\ Cardinality(Using') = Cardinality(Using) + One(t \in Using') - One(t \in Using)
         /\ Cardinality(claimed') = Cardinality(claimed) + One(t \in claimed') - One(t \in claimed)
<1>1. /\ Inside' \ {t} = Inside \ {t} /\ Entering' \ {t} = Entering \ {t}
      /\ Between' \ {t} = Between \ {t} /\ claimed' \ {t} = claimed \ {t}
      BY DEF Frame, Inside, Entering, Between
<1>2. Using' \ {t} = Using \ {t}  BY DEF Frame, Using
<1>3. /\ IsFiniteSet(Inside) /\ IsFiniteSet(Entering) /\ IsFiniteSet(Between)
      /\ IsFiniteSet(Using) /\ IsFiniteSet(claimed)
      BY Finite
<1> QED  BY <1>1, <1>2, <1>3, DifferInOne

-----------------------------------------------------------------------------
(* The initial states                                                       *)

LEMMA IInvInit == Init => IInv
<1> SUFFICES ASSUME Init PROVE IInv  OBVIOUS
<1> USE SetAssumption
<1>1. Types
  <2>1. Flags  BY DEF Init, Flags
  <2>2. Numbers  BY DEF Init, Numbers
  <2>3. Places  BY DEF Init, Places, Labels, Out
  <2>4. Wires  BY DEF Init, Wires
  <2> QED  BY <2>1, <2>2, <2>3, <2>4 DEF Types
<1>2. CallInv /\ ClaimInv /\ Distinct  BY DEF Init, CallInv, ClaimInv, Distinct, Calling
<1>3. Inside = {}  BY DEF Init, Inside
<1>4. RefInv  BY <1>3, FS_EmptySet DEF Init, RefInv
<1>5. PoolInv /\ UseInv  BY DEF Init, PoolInv, UseInv
<1> QED  BY <1>1, <1>2, <1>4, <1>5 DEF IInv, StageInv

-----------------------------------------------------------------------------
(* Types, and where a call has what                                         *)

USE DEF Step, At, Goto

\* Every step of a thread is one of these.
ThreadStep(t) ==
  \/ VCInit(t) \/ VCInitFails(t) \/ InitRelease(t) \/ ClaimVC(t) \/ UnclaimVC(t) \/ VCDeinit(t)
  \/ SendData(t) \/ Flush(t) \/ Request(t) \/ Continue(t)

LEMMA MessageType ==
  ASSUME NEW t \in Callers, NEW kind \in Kinds, NEW w \in Waiters \cup {None},
         NEW m \in Messages
  PROVE  /\ [kind |-> kind, from |-> t, waiter |-> None] \in Messages
         /\ [m EXCEPT !.waiter = w] \in Messages
         /\ [m EXCEPT !.waiter = w].kind = m.kind
BY DEF Messages

LEMMA LifeStage ==
  ASSUME StageInv, RefInv, NEW t \in Callers,
         VCInit(t) \/ VCInitFails(t) \/ InitRelease(t) \/ ClaimVC(t) \/ UnclaimVC(t) \/ VCDeinit(t)
  PROVE  StageInv' /\ Frame(t)
<1> USE SetAssumption
<1>0. Types /\ Flags /\ Numbers /\ Places /\ Wires /\ CallInv /\ ClaimInv
      BY DEF StageInv, Types
<1>1. CASE VCInit(t)
  <2> USE <1>1 DEF VCInit, vc, pool, locks
  <2>1. Flags'  BY <1>0 DEF Flags
  <2>2. Cardinality(Waiters) \in Nat  BY FS_CardinalityType
  <2>3. Numbers'  BY <1>0, <2>2 DEF Numbers, PoolSize
  <2>4. Places' /\ Frame(t)  BY <1>0 DEF Places, Labels, Out, Frame
  <2>5. Wires'  BY <1>0 DEF Wires
  <2>6. CallInv'
    <3>1. CASE refcount > 0
      BY <1>0, <3>1 DEF CallInv, Places, Calling
    <3>2. CASE ~(refcount > 0)
      <4>1. Cardinality(Inside) = 0  BY <1>0, <3>2 DEF RefInv, Numbers
      <4>2. Inside = {}  BY <1>0, <4>1, Finite, FS_EmptySet
      <4>3. \A u \in Callers : waiter[u] = None  BY <1>0, <4>2 DEF Inside, CallInv
      <4>4. waiter' = waiter /\ \A u \in Callers : pc'[u] \in Out
            BY <1>0, <3>2, <4>2 DEF Inside, Places, Out
      <4> QED  BY <4>3, <4>4 DEF CallInv, Calling, Out
    <3> QED  BY <3>1, <3>2
  <2>7. ClaimInv'  BY <1>0 DEF ClaimInv, Places, Calling
  <2> QED  BY <2>1, <2>3, <2>4, <2>5, <2>6, <2>7 DEF StageInv, Types
<1>2. CASE VCInitFails(t)
  <2> USE <1>2 DEF VCInitFails, vc, pool, locks, threads
  <2>1. Flags' /\ Wires'  BY <1>0 DEF Flags, Wires
  <2>2. Numbers'  BY <1>0 DEF Numbers
  <2>3. Places' /\ Frame(t)  BY <1>0 DEF Places, Frame
  <2>4. CallInv' /\ ClaimInv'  BY <1>0 DEF CallInv, ClaimInv
  <2> QED  BY <2>1, <2>2, <2>3, <2>4 DEF StageInv, Types
<1>3. CASE InitRelease(t)
  <2> USE <1>3 DEF InitRelease, vc, pool, locks
  <2>1. Flags' /\ Wires'  BY <1>0 DEF Flags, Wires, Unuse
  <2>2. Numbers'  BY <1>0 DEF Numbers, Unuse
  <2>3. Places' /\ Frame(t)  BY <1>0 DEF Places, Frame, Labels
  <2>4. CallInv'  BY <1>0 DEF CallInv, Places, Calling
  <2>5. ClaimInv'  BY <1>0 DEF ClaimInv, Places, Calling
  <2> QED  BY <2>1, <2>2, <2>3, <2>4, <2>5 DEF StageInv, Types
<1>4. CASE ClaimVC(t)
  <2> USE <1>4 DEF ClaimVC, vc, pool, locks
  <2>1. Flags' /\ Wires'  BY <1>0 DEF Flags, Wires, Use, UseFails
  <2>2. Numbers'  BY <1>0 DEF Numbers, Use, UseFails
  <2>3. Places' /\ Frame(t)  BY <1>0 DEF Places, Frame, Labels
  <2>4. CallInv'  BY <1>0 DEF CallInv, Places, Calling
  <2>5. ClaimInv'  BY <1>0 DEF ClaimInv, Places, Calling, Use, UseFails
  <2> QED  BY <2>1, <2>2, <2>3, <2>4, <2>5 DEF StageInv, Types
<1>5. CASE UnclaimVC(t)
  <2> USE <1>5 DEF UnclaimVC, vc, pool, locks
  <2>1. Flags' /\ Wires'  BY <1>0 DEF Flags, Wires, Unuse
  <2>2. Numbers'  BY <1>0 DEF Numbers, Unuse
  <2>3. Places' /\ Frame(t)  BY <1>0 DEF Places, Frame, Labels
  <2>4. CallInv'  BY <1>0 DEF CallInv, Places, Calling
  <2>5. ClaimInv'  BY <1>0 DEF ClaimInv, Places, Calling
  <2> QED  BY <2>1, <2>2, <2>3, <2>4, <2>5 DEF StageInv, Types
<1>6. CASE VCDeinit(t)
  <2> USE <1>6 DEF VCDeinit, vc, pool, locks
  <2>1. /\ IsFiniteSet(Inside) /\ t \in Inside
        /\ Cardinality(Inside \ {t}) = Cardinality(Inside) - 1
        BY <1>0, Finite, FS_RemoveElement DEF Inside
  <2>2. IsFiniteSet(Inside \ {t}) /\ Cardinality(Inside \ {t}) \in Nat
        BY <2>1, FS_Subset, FS_CardinalityType
  <2>3. refcount - 1 \in Nat
        BY <1>0, <2>1, <2>2 DEF RefInv, Numbers
  <2>4. Flags' /\ Wires'  BY <1>0 DEF Flags, Wires
  <2>5. Numbers'  BY <1>0, <2>3 DEF Numbers
  <2>6. Places' /\ Frame(t)  BY <1>0 DEF Places, Frame, Labels, Out
  <2>7. waiter[t] = None  BY <1>0 DEF CallInv
  <2>8. LastReference => \A u \in Callers \ {t} : pc[u] = "out"
    <3>1. LastReference => Cardinality(Inside \ {t}) = 0
          BY <1>0, <2>1 DEF RefInv, LastReference, Numbers
    <3>2. LastReference => Inside \ {t} = {}  BY <2>2, <3>1, FS_EmptySet
    <3> QED  BY <3>2 DEF Inside
  <2>9. CallInv'
    <3>1. CASE LastReference
      <4>1. \A u \in Callers : waiter[u] = None  BY <1>0, <2>7, <2>8, <3>1 DEF CallInv
      <4>2. \A u \in Callers : pc'[u] = "out"  BY <1>0, <2>8, <3>1 DEF Places
      <4> QED  BY <4>1, <4>2 DEF CallInv, Calling
    <3>2. CASE ~LastReference
      BY <1>0, <2>7, <3>2 DEF Places, CallInv, Calling
    <3> QED  BY <3>1, <3>2
  <2>10. ClaimInv'  BY <1>0 DEF Places, ClaimInv, Calling
  <2> QED  BY <2>4, <2>5, <2>6, <2>9, <2>10 DEF StageInv, Types
<1> QED  BY <1>1, <1>2, <1>3, <1>4, <1>5, <1>6
-----------------------------------------------------------------------------
(* A call                                                                   *)

LEMMA BeginStage ==
  ASSUME StageInv, NEW t \in Callers, SendData(t) \/ Flush(t) \/ Request(t)
  PROVE  StageInv' /\ Frame(t)
<1> USE SetAssumption
<1>0. Types /\ Flags /\ Numbers /\ Places /\ Wires /\ CallInv /\ ClaimInv
      BY DEF StageInv, Types
<1>1. PICK kind \in Kinds : Begin(t, kind)
      BY DEF SendData, Flush, Request, FlushKind, Kinds
<1>2. sentData' \subseteq Callers  BY <1>0 DEF SendData, Flush, Request, Places
<1> DEFINE m == [kind |-> kind, from |-> t, waiter |-> None]
<1>4. m \in Messages /\ m.kind = kind  BY DEF Messages
<1> HIDE DEF m
<1>5. call' = [call EXCEPT ![t] = m]  BY <1>1 DEF Begin, m
<1>6. waiter[t] = None  BY <1>0, <1>1 DEF Begin, CallInv
<1> USE <1>1, <1>2, <1>4, <1>5, <1>6 DEF Begin, counts, pool, vc
<1>7. Flags' /\ Wires'  BY <1>0 DEF Flags, Wires
<1>8. Numbers'  BY <1>0 DEF Numbers
<1>9. Places' /\ Frame(t)  BY <1>0 DEF Places, Frame, Labels, Calling
<1>10. CallInv'  BY <1>0 DEF CallInv, Places, Calling, Waits, Kinds
<1>11. ClaimInv'  BY <1>0 DEF ClaimInv, Places, Calling, Out, Labels
<1> QED  BY <1>7, <1>8, <1>9, <1>10, <1>11 DEF StageInv, Types

LEMMA CallStage ==
  ASSUME StageInv, Distinct, NEW t \in Callers, Continue(t)
  PROVE  StageInv' /\ Frame(t)
<1> USE SetAssumption
<1>0. Types /\ Flags /\ Numbers /\ Places /\ Wires /\ CallInv /\ ClaimInv
      BY DEF StageInv, Types
<1>1. CASE LockBulk(t)
  <2> USE <1>1 DEF LockBulk, counts, vc, pool, locks
  <2>1. Flags' /\ Wires'  BY <1>0 DEF Flags, Wires
  <2>2. Numbers'  BY <1>0 DEF Numbers
  <2>3. Places' /\ Frame(t)  BY <1>0 DEF Places, Frame, Labels, Calling
  <2>4. CallInv'  BY <1>0 DEF CallInv, Places, Calling
  <2>5. ClaimInv'  BY <1>0 DEF ClaimInv, Places, Calling
  <2> QED  BY <2>1, <2>2, <2>3, <2>4, <2>5 DEF StageInv, Types
<1>2. CASE GetWaiter(t)
  <2> USE <1>2 DEF GetWaiter, counts, vc, pool, locks
  <2>1. Flags' /\ Wires'  BY <1>0 DEF Flags, Wires
  <2>2. Numbers'  BY <1>0 DEF Numbers
  <2>3. Places' /\ Frame(t)  BY <1>0 DEF Places, Frame, Labels, Calling
  <2>4. CallInv'  BY <1>0 DEF CallInv, Places, Calling
  <2>5. ClaimInv'  BY <1>0 DEF ClaimInv, Places, Calling
  <2> QED  BY <2>1, <2>2, <2>3, <2>4, <2>5 DEF StageInv, Types
<1>3. CASE ScanWaiters(t)
  <2> USE <1>3 DEF ScanWaiters, counts, vc, locks
  <2>1. PICK w \in FreeWaiters : /\ waiterInUse' = waiterInUse \cup {w}
                                 /\ waiter' = [waiter EXCEPT ![t] = w]
                                 /\ call' = [call EXCEPT ![t].waiter = w]
        OBVIOUS
  <2>2. w \in Waiters /\ w # None  BY <2>1 DEF FreeWaiters
  <2>3. call[t] \in Messages /\ Waits(call[t])  BY <1>0 DEF CallInv, Calling
  <2> DEFINE m == [call[t] EXCEPT !.waiter = w]
  <2>5. m \in Messages /\ m.kind = call[t].kind  BY <2>2, <2>3, MessageType DEF Messages
  <2>6. call' = [call EXCEPT ![t] = m]  BY <2>1
  <2> HIDE DEF m
  <2>7. Waits(m)  BY <2>3, <2>5 DEF Waits
  <2>8. Flags' /\ Wires'  BY <1>0 DEF Flags, Wires
  <2>9. Numbers'  BY <1>0, <2>1, <2>2 DEF Numbers
  <2>10. Places' /\ Frame(t)
         BY <1>0, <2>1, <2>2, <2>5, <2>6 DEF Places, Frame, Labels, Calling
  <2>11. CallInv'  BY <1>0, <2>1, <2>2, <2>5, <2>6, <2>7 DEF CallInv, Places, Calling
  <2>12. ClaimInv'  BY <1>0 DEF ClaimInv, Places, Calling
  <2> QED  BY <2>8, <2>9, <2>10, <2>11, <2>12 DEF StageInv, Types
<1>4. CASE UseForCall(t)
  <2> USE <1>4 DEF UseForCall, counts, vc, pool, locks
  <2>1. Flags' /\ Wires'  BY <1>0 DEF Flags, Wires, Use, UseFails
  <2>2. Numbers'  BY <1>0 DEF Numbers, Use, UseFails
  <2>3. Places' /\ Frame(t)  BY <1>0 DEF Places, Frame, Labels, Calling
  <2>4. CallInv'  BY <1>0 DEF CallInv, Places, Calling
  <2>5. ClaimInv'  BY <1>0 DEF ClaimInv, Places, Calling, Use, UseFails
  <2> QED  BY <2>1, <2>2, <2>3, <2>4, <2>5 DEF StageInv, Types
<1>5. CASE QueueMessage(t)
  <2> USE <1>5 DEF QueueMessage, counts, pool
  <2>1. call[t] \in Messages  BY <1>0 DEF CallInv, Calling
  <2>2. Flags'  BY <1>0 DEF Flags
  <2>3. Wires'  BY <1>0, <2>1 DEF Wires
  <2>4. Numbers'  BY <1>0 DEF Numbers
  <2>5. Places' /\ Frame(t)
        BY <1>0 DEF Places, Frame, Labels, Calling, AfterSend, Returned
  <2>6. CallInv'
        BY <1>0 DEF CallInv, Places, Calling, AfterSend, Returned
  <2>7. ClaimInv'  BY <1>0 DEF ClaimInv, Places, Calling, AfterSend, Returned
  <2> QED  BY <2>2, <2>3, <2>4, <2>5, <2>6, <2>7 DEF StageInv, Types
<1>6. CASE QueueFails(t)
  <2> USE <1>6 DEF QueueFails, counts, vc, pool, locks
  <2>1. Flags' /\ Wires'  BY <1>0 DEF Flags, Wires
  <2>2. Numbers'  BY <1>0 DEF Numbers
  <2>3. Places' /\ Frame(t)  BY <1>0 DEF Places, Frame, Labels, Calling, AfterFail, Returned
  <2>4. CallInv'  BY <1>0 DEF CallInv, Places, Calling, AfterFail, Returned
  <2>5. ClaimInv'  BY <1>0 DEF ClaimInv, Places, Calling, AfterFail, Returned
  <2> QED  BY <2>1, <2>2, <2>3, <2>4, <2>5 DEF StageInv, Types
<1>7. CASE QueueBulk(t)
  <2> USE <1>7 DEF QueueBulk, counts, pool
  <2>1. Flags'  BY <1>0 DEF Flags
  <2>2. Wires'
    <3>1. bulks \in Seq(Callers) /\ (bulks' = bulks \/ bulks' = Append(bulks, t))
      BY <1>0 DEF Wires
    <3>2. bulks' \in Seq(Callers)
      BY <3>1
    <3> QED
      BY <1>0, <3>2 DEF Wires
  <2>3. Numbers'  BY <1>0 DEF Numbers
  <2>4. Places' /\ Frame(t)
        BY <1>0 DEF Places, Frame, Labels, Calling, AfterSend, AfterFail, Returned
  <2>5. CallInv'
        BY <1>0 DEF CallInv, Places, Calling, AfterSend, AfterFail, Returned
  <2>6. ClaimInv'  BY <1>0 DEF ClaimInv, Places, Calling, AfterSend, AfterFail, Returned
  <2> QED  BY <2>1, <2>2, <2>3, <2>4, <2>5, <2>6 DEF StageInv, Types
<1>8. CASE WaitReply(t)
  <2> USE <1>8 DEF WaitReply, counts, vc, locks
  <2>1. Flags' /\ Wires'  BY <1>0 DEF Flags, Wires
  <2>2. waiter[t] \in Waiters  BY <1>0 DEF CallInv, Places
  <2>3. waiterSem[waiter[t]] - 1 \in Nat  BY <1>0, <2>2 DEF Numbers
  <2>4. Numbers'  BY <1>0, <2>2, <2>3 DEF Numbers
  <2>5. Places' /\ Frame(t)  BY <1>0 DEF Places, Frame, Labels, Calling
  <2>6. CallInv'  BY <1>0 DEF CallInv, Places, Calling
  <2>7. ClaimInv'  BY <1>0 DEF ClaimInv, Places, Calling
  <2> QED  BY <2>1, <2>4, <2>5, <2>6, <2>7 DEF StageInv, Types
<1>9. CASE UnuseForCall(t)
  <2> USE <1>9 DEF UnuseForCall, counts, vc, pool, locks
  <2>1. Flags' /\ Wires'  BY <1>0 DEF Flags, Wires, Unuse
  <2>2. Numbers'  BY <1>0 DEF Numbers, Unuse
  <2>3. Places' /\ Frame(t)  BY <1>0 DEF Places, Frame, Labels, Calling
  <2>4. CallInv'  BY <1>0 DEF CallInv, Places, Calling
  <2>5. ClaimInv'  BY <1>0 DEF ClaimInv, Places, Calling
  <2> QED  BY <2>1, <2>2, <2>3, <2>4, <2>5 DEF StageInv, Types
<1>10. CASE FreeWaiter(t)
  <2> USE <1>10 DEF FreeWaiter, counts, vc, locks
  <2>1. Flags' /\ Wires'  BY <1>0 DEF Flags, Wires
  <2>2. Numbers'  BY <1>0 DEF Numbers
  <2>3. Places' /\ Frame(t)  BY <1>0 DEF Places, Frame, Labels, Calling
  <2>4. \A u \in Callers \ {t} : waiter[u] # None => waiter[u] # waiter[t]  BY DEF Distinct
  <2>5. CallInv'  BY <1>0, <2>4 DEF CallInv, Places, Calling
  <2>6. ClaimInv'  BY <1>0 DEF ClaimInv, Places, Calling
  <2> QED  BY <2>1, <2>2, <2>3, <2>5, <2>6 DEF StageInv, Types
<1>11. CASE PostWaiter(t)
  <2> USE <1>11 DEF PostWaiter, counts, vc, pool, locks
  <2>1. Flags' /\ Wires'  BY <1>0 DEF Flags, Wires
  <2>2. Numbers'  BY <1>0 DEF Numbers
  <2>3. Places' /\ Frame(t)  BY <1>0 DEF Places, Frame, Labels, Calling, Returned
  <2>4. CallInv'  BY <1>0 DEF CallInv, Places, Calling, Returned
  <2>5. ClaimInv'  BY <1>0 DEF ClaimInv, Places, Calling, Returned
  <2> QED  BY <2>1, <2>2, <2>3, <2>4, <2>5 DEF StageInv, Types
<1> QED  BY <1>1, <1>2, <1>3, <1>4, <1>5, <1>6, <1>7, <1>8, <1>9, <1>10, <1>11 DEF Continue

LEMMA ThreadStage ==
  ASSUME StageInv, Distinct, RefInv, NEW t \in Callers, ThreadStep(t)
  PROVE  StageInv' /\ Frame(t)
BY LifeStage, BeginStage, CallStage DEF ThreadStep

\* The steps of VideoCore leave the threads and the counts alone.
LEMMA VCStage ==
  ASSUME StageInv, VCTake \/ VCReceive \/ (\E m \in requests : Reply(m)) \/ UNCHANGED vars
  PROVE  StageInv' /\ UNCHANGED <<counts, poolSem, waiterInUse, threads, unused, broken>>
<1> USE DEF counts, pool, locks, threads, vc
<1>0. Types /\ Flags /\ Numbers /\ Places /\ Wires /\ CallInv /\ ClaimInv
      BY DEF StageInv, Types
<1>1. CASE VCTake
  <2> USE <1>1 DEF VCTake
  <2>1. Head(wire) \in Messages /\ Tail(wire) \in Seq(Messages)  BY <1>0 DEF Wires
  <2>2. receiving' \in Seq(Messages)
    <3>1. CASE HasBulk(Head(wire))
      <4>1. receiving' = Append(receiving, Head(wire))  BY <3>1
      <4>2. receiving \in Seq(Messages)  BY <1>0 DEF Wires
      <4> HIDE <1>1
      <4> QED  BY <2>1, <4>1, <4>2
    <3>2. CASE ~HasBulk(Head(wire))
      BY <1>0, <3>2 DEF Wires
    <3> QED  BY <3>1, <3>2
  <2>3. requests' \subseteq Messages  BY <1>0, <2>1 DEF Wires
  <2>4. Wires'  BY <1>0, <2>1, <2>2, <2>3 DEF Wires
  <2>5. Flags' /\ Numbers'  BY <1>0 DEF Flags, Numbers
  <2>6. Places' /\ CallInv' /\ ClaimInv'  BY <1>0 DEF Places, CallInv, ClaimInv
  <2> QED  BY <2>4, <2>5, <2>6 DEF StageInv, Types
<1>2. CASE VCReceive
  <2> USE <1>2 DEF VCReceive
  <2>1. Head(receiving) \in Messages /\ Tail(receiving) \in Seq(Messages)  BY <1>0 DEF Wires
  <2>2. Tail(bulks) \in Seq(Callers)  BY <1>0 DEF Wires
  <2>3. Wires'  BY <1>0, <2>1, <2>2 DEF Wires
  <2>4. Flags' /\ Numbers'  BY <1>0 DEF Flags, Numbers
  <2>5. Places' /\ CallInv' /\ ClaimInv'  BY <1>0 DEF Places, CallInv, ClaimInv
  <2> QED  BY <2>3, <2>4, <2>5 DEF StageInv, Types
<1>3. CASE \E m \in requests : Reply(m)
  <2>1. PICK m \in requests : Reply(m)  BY <1>3
  <2> USE <2>1 DEF Reply
  <2>2. Flags' /\ Wires'  BY <1>0 DEF Flags, Wires
  <2>3. waiterSem' \in [Waiters -> Nat]
    <3>1. waiterSem' = [w \in Waiters |-> IF w = m.waiter THEN waiterSem[w] + 1 ELSE waiterSem[w]]
          BY <1>0 DEF Numbers
    <3>2. \A w \in Waiters : waiterSem[w] \in Nat /\ waiterSem[w] + 1 \in Nat
          BY <1>0 DEF Numbers
    <3> QED  BY <3>1, <3>2
  <2>4. Numbers'  BY <1>0, <2>3 DEF Numbers
  <2>5. Places' /\ CallInv' /\ ClaimInv'  BY <1>0 DEF Places, CallInv, ClaimInv
  <2> QED  BY <2>2, <2>4, <2>5 DEF StageInv, Types
<1>4. CASE UNCHANGED vars
  <2> USE <1>4 DEF vars
  <2>1. Flags' /\ Wires' /\ Numbers'  BY <1>0 DEF Flags, Wires, Numbers
  <2>2. Places' /\ CallInv' /\ ClaimInv'  BY <1>0 DEF Places, CallInv, ClaimInv
  <2> QED  BY <2>1, <2>2 DEF StageInv, Types
<1> QED  BY <1>1, <1>2, <1>3, <1>4

-----------------------------------------------------------------------------
(* The counts                                                               *)

\* A waiter is handed out that no thread has, and otherwise only given up.
LEMMA DistinctStep ==
  ASSUME StageInv, Distinct, NEW t \in Callers, ThreadStep(t), Frame(t)
  PROVE  Distinct'
<1>0. Places /\ CallInv  BY DEF StageInv, Types
<1>1. CASE ScanWaiters(t)
  <2>1. PICK w \in FreeWaiters : waiter' = [waiter EXCEPT ![t] = w]  BY <1>1 DEF ScanWaiters
  <2>2. \A u \in Callers : waiter[u] # w \/ waiter[u] = None
        BY <1>0, <2>1 DEF FreeWaiters, CallInv
  <2> QED  BY <1>0, <2>1, <2>2 DEF Distinct, Places
<1>2. CASE FreeWaiter(t)
  BY <1>0, <1>2 DEF FreeWaiter, Distinct, Places
<1>3. CASE ~ScanWaiters(t) /\ ~FreeWaiter(t)
  <2>1. waiter' = waiter
        BY <1>3 DEF ThreadStep, Continue, VCInit, VCInitFails, InitRelease, ClaimVC,
          UnclaimVC, VCDeinit, SendData, Flush, Request, Begin, LockBulk, GetWaiter,
          ScanWaiters, UseForCall, QueueMessage, QueueFails, QueueBulk, WaitReply,
          UnuseForCall, FreeWaiter, PostWaiter, threads
  <2> QED  BY <2>1 DEF Distinct
<1> QED  BY <1>1, <1>2, <1>3

\* Only the steps into and out of the client change its reference count.
LEMMA RefStep ==
  ASSUME StageInv, RefInv, NEW t \in Callers, ThreadStep(t), Frame(t), StageInv'
  PROVE  RefInv'
<1>0. Types /\ Numbers /\ Places /\ Flags /\ CallInv  BY DEF StageInv, Types
<1>1. /\ Cardinality(Inside') = Cardinality(Inside) + One(t \in Inside') - One(t \in Inside)
      /\ Cardinality(Inside) \in Nat
      BY <1>0, Recount, Finite
<1>2. CASE VCInit(t)
  <2>1. t \notin Inside /\ t \in Inside'  BY <1>0, <1>2 DEF VCInit, Inside, Places
  <2> QED  BY <1>0, <1>1, <1>2, <2>1 DEF VCInit, RefInv, One, Numbers
<1>3. CASE VCDeinit(t)
  <2>1. t \in Inside /\ t \notin Inside'  BY <1>0, <1>3 DEF VCDeinit, Inside, Places
  <2>2. refcount' \in Nat  BY DEF StageInv, Types, Numbers
  <2> QED  BY <1>0, <1>1, <1>3, <2>1, <2>2 DEF VCDeinit, RefInv, One, Numbers, LastReference
<1>4. CASE ~VCInit(t) /\ ~VCDeinit(t)
  <2>1. UNCHANGED <<refcount, inited, open>>
        BY <1>4 DEF ThreadStep, Continue, VCInit, VCInitFails, InitRelease, ClaimVC,
          UnclaimVC, VCDeinit, SendData, Flush, Request, Begin, LockBulk, GetWaiter,
          ScanWaiters, UseForCall, QueueMessage, QueueFails, QueueBulk, WaitReply,
          UnuseForCall, FreeWaiter, PostWaiter, counts
  <2>2. (t \in Inside) <=> (t \in Inside')
        BY <1>0, <1>4 DEF ThreadStep, Continue, VCInit, VCInitFails, InitRelease,
          ClaimVC, UnclaimVC, VCDeinit, SendData, Flush, Request, Begin, LockBulk,
          GetWaiter, ScanWaiters, UseForCall, QueueMessage, QueueFails, QueueBulk,
          WaitReply, UnuseForCall, FreeWaiter, PostWaiter, threads, Inside, Places,
          Returned, AfterSend, AfterFail
  <2>3. Cardinality(Inside') = Cardinality(Inside)  BY <1>1, <2>2 DEF One
  <2> QED  BY <2>1, <2>3 DEF RefInv
<1> QED  BY <1>2, <1>3, <1>4

\* The pool: every waiter missing from the semaphore is in use or between two steps.
LEMMA PoolStep ==
  ASSUME StageInv, Distinct, RefInv, PoolInv, NEW t \in Callers, ThreadStep(t), Frame(t),
         StageInv', RefInv'
  PROVE  PoolInv'
<1> USE SetAssumption
<1>0. Types /\ Numbers /\ Places /\ Flags /\ CallInv /\ Types' /\ Numbers'
      BY DEF StageInv, Types
<1>1. /\ Cardinality(Between') = Cardinality(Between) + One(t \in Between') - One(t \in Between)
      /\ Cardinality(Between) \in Nat /\ Cardinality(Between') \in Nat
      /\ IsFiniteSet(FreeWaiters) /\ Cardinality(FreeWaiters) \in Nat
  <2>1. Cardinality(Between') = Cardinality(Between) + One(t \in Between') - One(t \in Between)
        BY <1>0, Recount
  <2>2. Cardinality(Between) \in Nat /\ IsFiniteSet(FreeWaiters) /\ Cardinality(FreeWaiters)
    \in Nat
        BY <1>0, Finite
  <2>3. One(t \in Between') \in 0..1 /\ One(t \in Between) \in 0..1
        /\ (t \in Between => Cardinality(Between) # 0)
    <3>1. IsFiniteSet(Between)  BY <1>0, Finite
    <3>2. t \in Between => Between # {}  OBVIOUS
    <3> QED  BY <3>1, <3>2, FS_EmptySet DEF One
  <2> QED  BY <2>1, <2>2, <2>3 DEF One
<1>2. pc[t] # "out" => inited
  <2>1. IsFiniteSet(Inside) /\ Cardinality(Inside) \in Nat  BY <1>0, Finite
  <2>2. pc[t] # "out" => Cardinality(Inside) # 0  BY <2>1, FS_EmptySet DEF Inside
  <2> QED  BY <1>0, <2>1, <2>2 DEF RefInv, Numbers
<1>3. CASE VCInit(t)
  <2>1. t \notin Between /\ t \notin Between'  BY <1>0, <1>3 DEF VCInit, Between, Places
  <2>2. Cardinality(Between') = Cardinality(Between)  BY <1>1, <2>1 DEF One
  <2>3. CASE refcount > 0
    BY <1>3, <2>2, <2>3 DEF VCInit, PoolInv, FreeWaiters, pool
  <2>4. CASE ~(refcount > 0)
    <3>1. Cardinality(Inside) = 0  BY <1>0, <2>4 DEF RefInv, Numbers
    <3>2. Inside = {}  BY <1>0, <3>1, Finite, FS_EmptySet
    <3>3. Between = {}  BY <3>2 DEF Inside, Between
    <3>4. Cardinality(Between) = 0  BY <3>3, FS_EmptySet
    <3>5. inited' /\ poolSem' = Cardinality(Waiters) /\ FreeWaiters' = Waiters
          BY <1>3, <2>4 DEF VCInit, PoolSize, FreeWaiters
    <3>6. Cardinality(Waiters) \in Nat  BY FS_CardinalityType
    <3> QED  BY <2>2, <3>4, <3>5, <3>6 DEF PoolInv
  <2> QED  BY <2>3, <2>4
<1>4. CASE VCDeinit(t)
  <2>1. t \notin Between /\ t \notin Between'  BY <1>0, <1>4 DEF VCDeinit, Between, Places
  <2>2. Cardinality(Between') = Cardinality(Between)  BY <1>1, <2>1 DEF One
  <2>3. CASE LastReference
    BY <1>4, <2>3 DEF VCDeinit, PoolInv
  <2>4. CASE ~LastReference
    BY <1>4, <2>2, <2>4 DEF VCDeinit, PoolInv, FreeWaiters, pool
  <2> QED  BY <2>3, <2>4
<1>5. CASE GetWaiter(t)
  <2>1. t \notin Between /\ t \in Between'  BY <1>0, <1>5 DEF GetWaiter, Between, Places
  <2>2. Cardinality(Between') = Cardinality(Between) + 1  BY <1>1, <2>1 DEF One
  <2>3. poolSem' = poolSem - 1 /\ UNCHANGED <<inited, waiterInUse>> /\ inited
        BY <1>2, <1>5 DEF GetWaiter, counts
  <2> QED  BY <1>0, <1>1, <2>2, <2>3 DEF PoolInv, FreeWaiters, Numbers
<1>6. CASE ScanWaiters(t)
  <2>1. t \in Between /\ t \notin Between'  BY <1>0, <1>6 DEF ScanWaiters, Between, Places
  <2>2. Cardinality(Between') = Cardinality(Between) - 1  BY <1>1, <2>1 DEF One
  <2>3. UNCHANGED <<inited, poolSem>> /\ inited  BY <1>2, <1>6 DEF ScanWaiters, counts
  <2>4. PICK w \in FreeWaiters : waiterInUse' = waiterInUse \cup {w}  BY <1>6 DEF ScanWaiters
  <2>5. FreeWaiters' = FreeWaiters \ {w}  BY <2>4 DEF FreeWaiters
  <2>6. Cardinality(FreeWaiters') = Cardinality(FreeWaiters) - 1
        BY <1>1, <2>5, FS_RemoveElement
  <2> QED  BY <1>0, <1>1, <2>2, <2>3, <2>6 DEF PoolInv, Numbers
<1>7. CASE FreeWaiter(t)
  <2>1. t \notin Between /\ t \in Between'  BY <1>0, <1>7 DEF FreeWaiter, Between, Places
  <2>2. Cardinality(Between') = Cardinality(Between) + 1  BY <1>1, <2>1 DEF One
  <2>3. UNCHANGED <<inited, poolSem>> /\ inited  BY <1>2, <1>7 DEF FreeWaiter, counts
  <2>4. waiter[t] \in waiterInUse /\ waiter[t] \in Waiters
        BY <1>0, <1>7 DEF FreeWaiter, CallInv, Places
  <2>5. FreeWaiters' = FreeWaiters \cup {waiter[t]} /\ waiter[t] \notin FreeWaiters
        BY <1>7, <2>4 DEF FreeWaiter, FreeWaiters
  <2>6. Cardinality(FreeWaiters') = Cardinality(FreeWaiters) + 1
        BY <1>1, <2>5, FS_AddElement
  <2> QED  BY <1>0, <1>1, <2>2, <2>3, <2>6 DEF PoolInv, Numbers
<1>8. CASE PostWaiter(t)
  <2>1. t \in Between /\ t \notin Between'
        BY <1>0, <1>8 DEF PostWaiter, Between, Places, Returned
  <2>2. Cardinality(Between') = Cardinality(Between) - 1  BY <1>1, <2>1 DEF One
  <2>3. poolSem' = poolSem + 1 /\ UNCHANGED <<inited, waiterInUse>> /\ inited
        BY <1>2, <1>8 DEF PostWaiter, counts
  <2> QED  BY <1>0, <1>1, <2>2, <2>3 DEF PoolInv, FreeWaiters, Numbers
<1>9. CASE ~VCInit(t) /\ ~VCDeinit(t) /\ ~GetWaiter(t) /\ ~ScanWaiters(t)
           /\ ~FreeWaiter(t) /\ ~PostWaiter(t)
  <2>1. UNCHANGED <<inited, poolSem, waiterInUse>>
        BY <1>9 DEF ThreadStep, Continue, VCInit, VCInitFails, InitRelease, ClaimVC,
          UnclaimVC, VCDeinit, SendData, Flush, Request, Begin, LockBulk, GetWaiter,
          ScanWaiters, UseForCall, QueueMessage, QueueFails, QueueBulk, WaitReply,
          UnuseForCall, FreeWaiter, PostWaiter, counts, pool
  <2>2. (t \in Between) <=> (t \in Between')
        BY <1>0, <1>9 DEF ThreadStep, Continue, VCInit, VCInitFails, InitRelease,
          ClaimVC, UnclaimVC, VCDeinit, SendData, Flush, Request, Begin, LockBulk,
          GetWaiter, ScanWaiters, UseForCall, QueueMessage, QueueFails, QueueBulk,
          WaitReply, UnuseForCall, FreeWaiter, PostWaiter, threads, Between, Places,
          Returned, AfterSend, AfterFail
  <2>3. Cardinality(Between') = Cardinality(Between)  BY <1>1, <2>2 DEF One
  <2> QED  BY <2>1, <2>3 DEF PoolInv, FreeWaiters
<1> QED  BY <1>3, <1>4, <1>5, <1>6, <1>7, <1>8, <1>9

\* The use count: whoever counts on VideoCore has raised it.
LEMMA UseStep ==
  ASSUME StageInv, RefInv, UseInv, NEW t \in Callers, ThreadStep(t), Frame(t), StageInv', RefInv'
  PROVE  UseInv'
<1> DEFINE E == Cardinality(Entering)
           C == Cardinality(claimed)
           U == Cardinality(Using)
<1>0. Types /\ Numbers /\ Places /\ Flags /\ CallInv /\ ClaimInv /\ Types' /\ Numbers'
      BY DEF StageInv, Types
<1>1. /\ E' = E + One(t \in Entering') - One(t \in Entering)
      /\ C' = C + One(t \in claimed') - One(t \in claimed)
      /\ U' = U + One(t \in Using') - One(t \in Using)
      BY <1>0, Recount
<1>2. E \in Nat /\ C \in Nat /\ U \in Nat  BY <1>0, Finite
<1> HIDE DEF E, C, U
<1>3. UseInv <=> (inited /\ ~unused => usecount >= E + C + U /\ (usecount > 0 => inUse))
      BY DEF UseInv, E, C, U
<1>4. UseInv' <=> ((inited /\ ~unused)' =>
                     usecount' >= E' + C' + U' /\ (usecount' > 0 => inUse'))
      BY DEF UseInv, E, C, U
<1>5. pc[t] # "out" => inited
  <2>1. IsFiniteSet(Inside) /\ Cardinality(Inside) \in Nat  BY <1>0, Finite
  <2>2. pc[t] # "out" => Cardinality(Inside) # 0  BY <2>1, FS_EmptySet DEF Inside
  <2> QED  BY <1>0, <2>1, <2>2 DEF RefInv, Numbers
<1>6. CASE VCInit(t)
  <2>1. t \notin claimed /\ claimed' = claimed /\ t \notin Using /\ t \notin Using'
        BY <1>0, <1>6 DEF VCInit, Using, Places, ClaimInv, Calling
  <2>2. t \notin Entering  BY <1>6 DEF VCInit, Entering
  <2>3. CASE refcount > 0
    <3>1. t \notin Entering'  BY <1>0, <1>6, <2>3 DEF VCInit, Entering, Places
    <3>2. E' = E /\ C' = C /\ U' = U  BY <1>1, <1>2, <2>1, <2>2, <3>1 DEF One
    <3> QED  BY <1>3, <1>4, <1>6, <2>3, <3>2 DEF VCInit
  <2>4. CASE ~(refcount > 0)
    <3>1. Cardinality(Inside) = 0  BY <1>0, <2>4 DEF RefInv, Numbers
    <3>2. Inside = {}  BY <1>0, <3>1, Finite, FS_EmptySet
    <3>3. Entering = {} /\ Using = {} /\ claimed = {}
          BY <1>0, <3>2 DEF Inside, Entering, Using, ClaimInv, Places, Calling
    <3>4. E = 0 /\ C = 0 /\ U = 0  BY <3>3, FS_EmptySet DEF E, C, U
    <3>5. (E' = 0 \/ E' = 1) /\ C' = 0 /\ U' = 0  BY <1>1, <2>1, <2>2, <3>4 DEF One
    <3>6. usecount' = 1 /\ inUse'  BY <1>6, <2>4 DEF VCInit
    <3>7. usecount' >= E' + C' + U'  BY <3>5, <3>6
    <3> QED  BY <1>4, <3>6, <3>7
  <2> QED  BY <2>3, <2>4
<1>7. CASE VCInitFails(t)
  <2>1. ~inited  BY <1>0, <1>7 DEF VCInitFails, RefInv
  <2> QED  BY <1>4, <1>7, <2>1 DEF VCInitFails
<1>8. CASE InitRelease(t)
  <2>1. t \in Entering /\ t \notin Entering' /\ t \notin Using /\ t \notin Using' /\
    claimed' = claimed
        BY <1>0, <1>8 DEF InitRelease, Entering, Using, Places
  <2>2. E' = E - 1 /\ C' = C /\ U' = U  BY <1>1, <1>2, <2>1 DEF One
  <2>3. UNCHANGED <<inited, unused>> /\ Unuse  BY <1>8 DEF InitRelease
  <2> QED  BY <1>0, <1>2, <1>3, <1>4, <2>2, <2>3 DEF Unuse, LastUse, Numbers
<1>9. CASE ClaimVC(t)
  <2>1. t \notin Entering /\ t \notin Entering' /\ t \notin Using /\ t \notin Using' /\ t
    \notin claimed
        BY <1>0, <1>9 DEF ClaimVC, Entering, Using, Places, ClaimInv, Calling
  <2>2. E' = E /\ C' = C + One(t \in claimed') /\ U' = U  BY <1>1, <1>2, <2>1 DEF One
  <2>3. C' \in {C, C + 1}  BY <1>2, <2>2 DEF One
  <2>4. inited' = inited  BY <1>9 DEF ClaimVC
  <2>5. CASE Use
    BY <1>0, <1>2, <1>3, <1>4, <1>9, <2>2, <2>3, <2>4, <2>5 DEF ClaimVC, Use, FirstUse, Numbers
  <2>6. CASE UseFails
    BY <1>4, <2>6 DEF UseFails
  <2> QED  BY <1>9, <2>5, <2>6 DEF ClaimVC
<1>10. CASE UnclaimVC(t)
  <2>1. t \notin Entering /\ t \notin Entering' /\ t \notin Using /\ t \notin Using' /\ t
    \notin claimed'
        BY <1>0, <1>10 DEF UnclaimVC, Entering, Using, Places
  <2>2. ~unused => t \in claimed  BY <1>0, <1>10 DEF UnclaimVC, ClaimInv
  <2>3. E' = E /\ (~unused => C' = C - 1) /\ U' = U  BY <1>1, <1>2, <2>1, <2>2 DEF One
  <2>4. UNCHANGED <<inited, unused>> /\ Unuse  BY <1>10 DEF UnclaimVC
  <2> QED  BY <1>0, <1>2, <1>3, <1>4, <2>3, <2>4 DEF Unuse, LastUse, Numbers
<1>11. CASE VCDeinit(t)
  <2>1. CASE LastReference
    BY <1>4, <1>11, <2>1 DEF VCDeinit
  <2>2. CASE ~LastReference
    <3>1. /\ t \notin Entering /\ t \notin Entering' /\ t \notin Using /\ t \notin Using'
          /\ claimed' = claimed
          BY <1>0, <1>11 DEF VCDeinit, Entering, Using, Places
    <3>2. E' = E /\ C' = C /\ U' = U  BY <1>1, <1>2, <3>1 DEF One
    <3> QED  BY <1>3, <1>4, <1>11, <2>2, <3>2 DEF VCDeinit
  <2> QED  BY <2>1, <2>2
<1>12. CASE UseForCall(t)
  <2>1. t \notin Entering /\ t \notin Entering' /\ t \notin Using /\ claimed' = claimed
        BY <1>0, <1>12 DEF UseForCall, Entering, Using, Places
  <2>2. E' = E /\ C' = C /\ (U' = U \/ U' = U + 1)  BY <1>1, <1>2, <2>1 DEF One
  <2>3. inited' = inited  BY <1>12 DEF UseForCall
  <2>4. CASE Use
    <3>1. usecount' = usecount + 1 /\ UNCHANGED unused /\ (usecount = 0 => inUse')
          BY <2>4 DEF Use, FirstUse
    <3>2. usecount > 0 => inUse' = inUse  BY <1>0, <2>4 DEF Use, FirstUse, Numbers
    <3>3. usecount >= E + C + U => usecount' >= E' + C' + U'
          BY <1>0, <1>2, <2>2, <3>1 DEF Numbers
    <3>4. usecount >= E + C + U => usecount >= 0  BY <1>0, <1>2 DEF Numbers
    <3> QED  BY <1>0, <1>3, <1>4, <2>3, <3>1, <3>2, <3>3, <3>4 DEF Numbers
  <2>5. CASE UseFails
    BY <1>4, <2>5 DEF UseFails
  <2> QED  BY <1>12, <2>4, <2>5 DEF UseForCall
<1>13. CASE UnuseForCall(t)
  <2>1. t \notin Entering /\ t \notin Entering' /\ claimed' = claimed
        BY <1>0, <1>13 DEF UnuseForCall, Entering, Places
  <2>2. t \in Using /\ t \notin Using'
        BY <1>0, <1>13 DEF UnuseForCall, Using, Places, CallInv
  <2>3. E' = E /\ C' = C /\ U' = U - 1  BY <1>1, <1>2, <2>1, <2>2 DEF One
  <2>4. UNCHANGED <<inited, unused>> /\ Unuse  BY <1>13 DEF UnuseForCall
  <2> QED  BY <1>0, <1>2, <1>3, <1>4, <2>3, <2>4 DEF Unuse, LastUse, Numbers
<1>14. CASE SendData(t) \/ Flush(t) \/ Request(t)
  <2>1. PICK kind : Begin(t, kind)  BY <1>14 DEF SendData, Flush, Request
  <2>2. /\ t \notin Entering /\ t \notin Entering' /\ t \notin Using /\ t \notin Using'
        /\ claimed' = claimed
        BY <1>0, <2>1 DEF Begin, Entering, Using, Places
  <2>3. E' = E /\ C' = C /\ U' = U  BY <1>1, <1>2, <2>2 DEF One
  <2> QED  BY <1>3, <1>4, <2>1, <2>3 DEF Begin, counts
<1>15. CASE /\ Continue(t) /\ ~UseForCall(t) /\ ~UnuseForCall(t)
  <2>1. /\ UNCHANGED <<inited, usecount, inUse, unused, claimed>>
        /\ t \notin Entering /\ t \notin Entering'
        BY <1>0, <1>15 DEF Continue, LockBulk, GetWaiter, ScanWaiters, UseForCall,
          QueueMessage, QueueFails, QueueBulk, WaitReply, UnuseForCall, FreeWaiter,
          PostWaiter, counts, Entering, Places, Returned, AfterSend,
          AfterFail
  <2>2. t \in Using' => t \in Using
    <3>1. LockBulk(t) => t \notin Using'
      <4>1. LockBulk(t) => waiter'[t] = None  BY <1>0 DEF LockBulk, CallInv
      <4> QED  BY <4>1 DEF Using
    <3>2. GetWaiter(t) \/ ScanWaiters(t) \/ FreeWaiter(t) \/ PostWaiter(t) => t \notin Using'
          BY <1>0 DEF GetWaiter, ScanWaiters, FreeWaiter, PostWaiter, Using, Places, Returned
    <3>3. QueueMessage(t) \/ QueueFails(t) \/ QueueBulk(t) \/ WaitReply(t) =>
            waiter'[t] = waiter[t] /\ pc[t] \in {"queue", "bulk", "wait"}
          BY DEF QueueMessage, QueueFails, QueueBulk, WaitReply
    <3> QED  BY <1>15, <3>1, <3>2, <3>3 DEF Continue, Using
  <2>3. E' = E /\ C' = C  BY <1>1, <1>2, <2>1 DEF One
  <2>4. U' = U \/ U' = U - 1  BY <1>1, <1>2, <2>2 DEF One
  <2>5. usecount >= E + C + U => usecount >= E' + C' + U'
        BY <1>0, <1>2, <2>3, <2>4 DEF Numbers
  <2> QED  BY <1>3, <1>4, <2>1, <2>5
<1> QED  BY <1>6, <1>7, <1>8, <1>9, <1>10, <1>11, <1>12, <1>13, <1>14, <1>15 DEF ThreadStep

-----------------------------------------------------------------------------
(* Requests and their replies                                               *)

\* A request occurs once in a sequence.
AskedOnce(s) == \A i, j \in DOMAIN s : Waits(s[i]) /\ s[i] = s[j] => i = j

\* A request is in one place.
Once ==
  /\ AskedOnce(wire) /\ AskedOnce(receiving)
  /\ \A m \in Range(wire) \cap Range(receiving) : ~Waits(m)
  /\ requests \cap (Range(wire) \cup Range(receiving)) = {}
  /\ \A m \in requests : Waits(m)

\* The message of a call names its thread and the thread's waiter.
OwnCall ==
  \A t \in Callers :
    /\ pc[t] \in Calling => call[t].from = t
    /\ waiter[t] # None => call[t].waiter = waiter[t]

\* Whatever is asked was asked by a thread that waits, or is about to.
AskInv ==
  \A m \in Asked :
    /\ pc[m.from] \in {"bulk", "wait"} /\ waiter[m.from] = m.waiter
    /\ m.waiter # None /\ call[m.from] = m

\* The semaphore of a waiter is posted from the reply until its thread has seen it.
Posted(t) == pc[t] \in {"bulk", "wait"} /\ call[t] \notin Asked

SemInv ==
  /\ \A w \in FreeWaiters : waiterSem[w] = 0
  /\ \A t \in Callers : waiter[t] # None =>
       /\ Posted(t) => waiterSem[waiter[t]] = 1
       /\ ~Posted(t) => waiterSem[waiter[t]] = 0

ReplyInv == ~broken => OwnCall /\ AskInv /\ Once /\ SemInv

LEMMA TakeHead ==
  ASSUME NEW T, NEW s \in Seq(T), s # <<>>, AskedOnce(s)
  PROVE  /\ Range(s) = Range(Tail(s)) \cup {Head(s)} /\ Head(s) \in T
         /\ AskedOnce(Tail(s)) /\ (Waits(Head(s)) => Head(s) \notin Range(Tail(s)))
<1>1. /\ Len(s) \in Nat /\ Len(s) >= 1 /\ DOMAIN s = 1..Len(s) /\ Head(s) = s[1] /\ Head(s) \in T
      /\ DOMAIN Tail(s) = 1..(Len(s) - 1) /\ \A i \in DOMAIN Tail(s) : Tail(s)[i] = s[i + 1]
      OBVIOUS
<1>2. \A i \in DOMAIN Tail(s) : i + 1 \in DOMAIN s /\ i + 1 # 1  BY <1>1
<1>3. \A i \in DOMAIN s : i = 1 \/ (i - 1 \in DOMAIN Tail(s) /\ Tail(s)[i - 1] = s[i])
      BY <1>1
<1>4. Range(s) \subseteq Range(Tail(s)) \cup {Head(s)}  BY <1>1, <1>3 DEF Range
<1>5. Range(Tail(s)) \cup {Head(s)} \subseteq Range(s)  BY <1>1, <1>2 DEF Range
<1>6. AskedOnce(Tail(s))  BY <1>1, <1>2 DEF AskedOnce
<1>7. Waits(Head(s)) => Head(s) \notin Range(Tail(s))  BY <1>1, <1>2 DEF AskedOnce, Range
<1> QED  BY <1>1, <1>4, <1>5, <1>6, <1>7

LEMMA AppendAsked ==
  ASSUME NEW T, NEW s \in Seq(T), AskedOnce(s), NEW e \in T, Waits(e) => e \notin Range(s)
  PROVE  Range(Append(s, e)) = Range(s) \cup {e} /\ AskedOnce(Append(s, e))
<1>1. /\ Len(s) \in Nat /\ DOMAIN s = 1..Len(s) /\ DOMAIN Append(s, e) = 1..(Len(s) + 1)
      /\ \A i \in DOMAIN s : Append(s, e)[i] = s[i]
      /\ Append(s, e)[Len(s) + 1] = e
      OBVIOUS
<1>2. \A i \in DOMAIN Append(s, e) : i \in DOMAIN s \/ i = Len(s) + 1  BY <1>1
<1>3. DOMAIN s \subseteq DOMAIN Append(s, e) /\ Len(s) + 1 \in DOMAIN Append(s, e)  BY <1>1
<1>4. Range(Append(s, e)) = Range(s) \cup {e}  BY <1>1, <1>2, <1>3 DEF Range
<1>5. AskedOnce(Append(s, e))
  <2> SUFFICES ASSUME NEW i \in DOMAIN Append(s, e), NEW j \in DOMAIN Append(s, e),
                      Waits(Append(s, e)[i]), Append(s, e)[i] = Append(s, e)[j]
               PROVE  i = j
      BY DEF AskedOnce
  <2>1. CASE i \in DOMAIN s /\ j \in DOMAIN s
    BY <1>1, <2>1 DEF AskedOnce
  <2>2. CASE i \notin DOMAIN s \/ j \notin DOMAIN s
    BY <1>1, <1>2, <2>2 DEF Range
  <2> QED  BY <2>1, <2>2
<1> QED  BY <1>4, <1>5

LEMMA ReplyInvInit == Init => ReplyInv
<1> SUFFICES ASSUME Init PROVE OwnCall /\ AskInv /\ Once /\ SemInv  BY DEF ReplyInv
<1>1. Range(wire) = {} /\ Range(receiving) = {} /\ Asked = {}
      BY DEF Init, Range, Asked
<1>2. OwnCall /\ AskInv /\ SemInv
      BY <1>1 DEF Init, OwnCall, AskInv, SemInv, FreeWaiters, Calling
<1>3. Once  BY <1>1 DEF Init, Once, AskedOnce
<1> QED  BY <1>2, <1>3

\* VideoCore moves requests on, and answers each once.
LEMMA VCReplies ==
  ASSUME StageInv, Distinct, OwnCall, AskInv, Once, SemInv, StageInv', ~broken,
         VCTake \/ VCReceive \/ (\E m \in requests : Reply(m))
  PROVE  OwnCall' /\ AskInv' /\ Once' /\ SemInv'
<1> USE DEF counts, pool, locks, threads, vc
<1>0. Wires /\ Numbers /\ Places  BY DEF StageInv, Types
<1>A. wire \in Seq(Messages) /\ receiving \in Seq(Messages) /\ requests \subseteq Messages
      BY <1>0 DEF Wires
<1>B. \A m \in Messages : ~HasBulk(m) => Waits(m)  BY DEF Messages, HasBulk, Waits, Kinds
<1>1. ASSUME UNCHANGED <<waiterInUse, waiterSem, threads>>, Asked' = Asked
      PROVE  OwnCall' /\ AskInv' /\ SemInv'
      BY <1>1 DEF OwnCall, AskInv, SemInv, Posted, FreeWaiters
<1>2. CASE VCTake
  <2>1. UNCHANGED <<waiterInUse, waiterSem, threads>> /\ wire' = Tail(wire) /\ wire # <<>>
        BY <1>2 DEF VCTake
  <2> DEFINE h == Head(wire)
  <2>2. /\ Range(wire) = Range(wire') \cup {h} /\ h \in Messages
        /\ AskedOnce(wire') /\ (Waits(h) => h \notin Range(wire'))
        BY <1>A, <2>1, TakeHead DEF Once
  <2>3. CASE HasBulk(h)
    <3>1. receiving' = Append(receiving, h) /\ requests' = requests  BY <1>2, <2>3 DEF VCTake
    <3>2. Waits(h) => h \notin Range(receiving)  BY <2>2 DEF Once
    <3>3. Range(receiving') = Range(receiving) \cup {h} /\ AskedOnce(receiving')
          BY <1>A, <2>2, <3>1, <3>2, AppendAsked DEF Once
    <3> HIDE DEF h
    <3>4. Asked' = Asked  BY <2>2, <3>1, <3>3 DEF Asked
    <3>5. Once'  BY <2>2, <3>1, <3>3 DEF Once
    <3> QED  BY <1>1, <2>1, <3>4, <3>5
  <2>4. CASE ~HasBulk(h)
    <3>1. receiving' = receiving /\ requests' = requests \cup {h}  BY <1>2, <2>4 DEF VCTake
    <3>2. Waits(h)  BY <1>B, <2>2, <2>4
    <3> HIDE DEF h
    <3>3. Asked' = Asked  BY <2>2, <3>1, <3>2 DEF Asked
    <3>4. Once'  BY <2>2, <3>1, <3>2 DEF Once
    <3> QED  BY <1>1, <2>1, <3>3, <3>4
  <2> QED  BY <2>3, <2>4
<1>3. CASE VCReceive
  <2>1. /\ UNCHANGED <<wire, waiterInUse, waiterSem, threads>>
        /\ receiving' = Tail(receiving) /\ receiving # <<>>
        BY <1>3 DEF VCReceive
  <2> DEFINE h == Head(receiving)
  <2>2. /\ Range(receiving) = Range(receiving') \cup {h} /\ h \in Messages
        /\ AskedOnce(receiving') /\ (Waits(h) => h \notin Range(receiving'))
        BY <1>A, <2>1, TakeHead DEF Once
  <2>3. requests' = IF Waits(h) THEN requests \cup {h} ELSE requests  BY <1>3 DEF VCReceive
  <2> HIDE DEF h
  <2>4. Asked' = Asked  BY <2>1, <2>2, <2>3 DEF Asked
  <2>5. Once'  BY <2>1, <2>2, <2>3 DEF Once
  <2> QED  BY <1>1, <2>1, <2>4, <2>5
<1>4. CASE \E m \in requests : Reply(m)
  <2>1. PICK m \in requests : Reply(m)  BY <1>4
  <2>2. /\ UNCHANGED <<wire, receiving, waiterInUse, pc, call, waiter>>
        /\ requests' = requests \ {m} /\ waiterSem' = [waiterSem EXCEPT ![m.waiter] = @ + 1]
        BY <2>1 DEF Reply
  <2>3. Once' /\ OwnCall'  BY <2>2 DEF Once, OwnCall
  <2>4. m \in Asked /\ Asked' = Asked \ {m}  BY <2>2 DEF Asked, Once
  <2>5. AskInv'  BY <2>2, <2>4 DEF AskInv
  <2> DEFINE t == m.from
  <2>6. t \in Callers /\ waiter[t] = m.waiter /\ m.waiter \in Waiters /\ m.waiter # None
        /\ call[t] = m /\ pc[t] \in {"bulk", "wait"}
        BY <1>0, <1>A, <2>4 DEF AskInv, Messages, Places
  <2>7. waiterSem[m.waiter] = 0 /\ Posted(t)'
        BY <2>2, <2>4, <2>6 DEF SemInv, Posted
  <2>8. m.waiter \in waiterInUse  BY <2>6 DEF StageInv, CallInv
  <2>9. \A u \in Callers \ {t} :
          waiter[u] # m.waiter /\ (pc[u] \in {"bulk", "wait"} => call[u] # m)
    <3>1. \A u \in Callers \ {t} : waiter[u] # m.waiter  BY <2>6 DEF Distinct
    <3>2. \A u \in Callers : call[u] = m /\ pc[u] \in {"bulk", "wait"} => u = t
          BY DEF OwnCall, Calling
    <3> QED  BY <3>1, <3>2
  <2>10. \A u \in Callers \ {t} : Posted(u)' <=> Posted(u)
         BY <2>2, <2>4, <2>9 DEF Posted
  <2>11. waiterSem'[m.waiter] = 1 /\ \A w \in Waiters \ {m.waiter} : waiterSem'[w] = waiterSem[w]
         BY <1>0, <2>2, <2>6, <2>7 DEF Numbers
  <2>12. \A w \in FreeWaiters' : waiterSem'[w] = 0
         BY <2>2, <2>8, <2>11 DEF SemInv, FreeWaiters
  <2>13. \A u \in Callers : waiter'[u] # None =>
           (Posted(u)' => waiterSem'[waiter'[u]] = 1) /\ (~Posted(u)' => waiterSem'[waiter'[u]] = 0)
    <3> SUFFICES ASSUME NEW u \in Callers, waiter[u] # None
                 PROVE  (Posted(u)' => waiterSem'[waiter[u]] = 1)
                        /\ (~Posted(u)' => waiterSem'[waiter[u]] = 0)
        BY <2>2
    <3>1. CASE u = t
      BY <2>6, <2>7, <2>11, <3>1
    <3>2. CASE u # t
      <4>1. waiter[u] \in Waiters \ {m.waiter}  BY <1>0, <2>9, <3>2 DEF Places
      <4> QED  BY <2>10, <2>11, <3>2, <4>1 DEF SemInv
    <3> QED  BY <3>1, <3>2
  <2>14. SemInv'  BY <2>12, <2>13 DEF SemInv
  <2> QED  BY <2>3, <2>5, <2>14
<1> QED  BY <1>2, <1>3, <1>4

\* The steps of thread t that leave the messages, the semaphores and what the
\* others see alone
LEMMA QuietReplies ==
  ASSUME StageInv, OwnCall, AskInv, Once, SemInv, NEW t \in Callers, Frame(t),
         UNCHANGED <<wire, receiving, requests, waiterSem, waiterInUse, waiter, call>>,
         pc'[t] \in Calling => pc[t] \in Calling,
         \/ pc[t] \in {"bulk", "wait"} /\ pc'[t] \in {"bulk", "wait"}
         \/ pc[t] \notin {"bulk", "wait"} /\ pc'[t] \notin {"bulk", "wait"}
         \/ waiter[t] = None
  PROVE  OwnCall' /\ AskInv' /\ Once' /\ SemInv'
<1>1. Asked' = Asked /\ Once'  BY DEF Asked, Once
<1>2. OwnCall'  BY DEF OwnCall, Frame
<1>3. AskInv'
  <2>1. \A m \in Asked : m \in Messages  BY DEF Asked, Range, StageInv, Types, Wires
  <2>2. \A m \in Asked : m.from \in Callers  BY <2>1 DEF Messages
  <2> QED  BY <1>1, <2>2 DEF AskInv, Frame
<1>4. \A u \in Callers : waiter[u] # None => (Posted(u)' <=> Posted(u))  BY <1>1 DEF Posted, Frame
<1>5. SemInv'  BY <1>4 DEF SemInv, FreeWaiters
<1> QED  BY <1>1, <1>2, <1>3, <1>5

LEMMA ThreadReplies ==
  ASSUME StageInv, Distinct, RefInv, OwnCall, AskInv, Once, SemInv, NEW t \in Callers,
         ThreadStep(t), Frame(t), StageInv', ~broken, ~broken'
  PROVE  OwnCall' /\ AskInv' /\ Once' /\ SemInv'
<1>0. Wires /\ Numbers /\ Places /\ CallInv /\ Types /\ Places'  BY DEF StageInv, Types
<1>A. wire \in Seq(Messages) /\ receiving \in Seq(Messages) /\ requests \subseteq Messages
      BY <1>0 DEF Wires
<1>B. pc' = [pc EXCEPT ![t] = pc'[t]] /\ pc'[t] \in Labels  BY <1>0 DEF Frame, Places
<1>1. CASE VCInit(t) \/ VCDeinit(t)
  <2>1. UNCHANGED <<wire, receiving, requests, waiter, call>>
        /\ pc[t] \in {"out", "deinit"} /\ pc'[t] \in {"initRelease", "claim", "out"}
        BY <1>0, <1>1 DEF VCInit, VCDeinit, vc, Places
  <2>2. waiter[t] = None  BY <1>0, <2>1 DEF CallInv
  <2>3. CASE UNCHANGED <<waiterSem, waiterInUse>>
    BY <2>1, <2>2, <2>3, QuietReplies DEF Calling
  <2>4. CASE ~UNCHANGED <<waiterSem, waiterInUse>>
    <3>1. waiterInUse' = {} /\ waiterSem' = [w \in Waiters |-> 0] /\ (VCDeinit(t) => LastReference)
          /\ (VCInit(t) => ~(refcount > 0))
          BY <1>1, <2>4 DEF VCInit, VCDeinit, pool
    <3>2. \A u \in Callers \ {t} : pc[u] = "out"
      <4>1. IsFiniteSet(Inside) /\ Cardinality(Inside) \in Nat  BY <1>0, Finite
      <4>2. CASE VCInit(t)
        <5>1. Cardinality(Inside) = 0  BY <1>0, <3>1, <4>1, <4>2 DEF RefInv, Numbers
        <5> QED  BY <4>1, <5>1, FS_EmptySet DEF Inside
      <4>3. CASE VCDeinit(t)
        <5>1. t \in Inside  BY <4>3 DEF VCDeinit, Inside
        <5>2. Cardinality(Inside \ {t}) = 0 /\ IsFiniteSet(Inside \ {t})
              BY <3>1, <4>1, <4>3, <5>1, FS_RemoveElement DEF RefInv, LastReference
        <5> QED  BY <5>2, FS_EmptySet DEF Inside
      <4> QED  BY <1>1, <4>2, <4>3
    <3>3. \A u \in Callers : waiter[u] = None  BY <1>0, <2>2, <3>2 DEF CallInv
    <3>4. \A u \in Callers : pc'[u] \notin Calling
          BY <2>1, <3>2 DEF Frame, Calling
    <3>5. Asked' = Asked /\ Once'  BY <2>1 DEF Asked, Once
    <3>6. Asked = {}
      <4>1. \A m \in Asked : m \in Messages  BY <1>A DEF Asked, Range
      <4> QED  BY <2>1, <3>2, <4>1 DEF AskInv, Messages
    <3>7. OwnCall' /\ AskInv'  BY <2>1, <3>3, <3>4, <3>5, <3>6 DEF OwnCall, AskInv
    <3>8. SemInv'  BY <2>1, <3>1, <3>3 DEF SemInv, FreeWaiters
    <3> QED  BY <3>5, <3>7, <3>8
  <2> QED  BY <2>3, <2>4
<1>2. CASE VCInitFails(t) \/ InitRelease(t) \/ ClaimVC(t) \/ UnclaimVC(t)
  <2>1. /\ UNCHANGED <<wire, receiving, requests, waiterSem, waiterInUse, waiter, call>>
        /\ pc[t] \in {"out", "initRelease", "claim", "idle"}
        /\ pc'[t] \in {"out", "claim", "idle", "deinit"}
        BY <1>0, <1>2 DEF VCInitFails, InitRelease, ClaimVC, UnclaimVC, vc, pool, threads, Places
  <2> QED  BY <2>1, QuietReplies DEF Calling
<1>3. CASE SendData(t) \/ Flush(t) \/ Request(t)
  <2>1. PICK kind : Begin(t, kind)  BY <1>3 DEF SendData, Flush, Request
  <2>2. /\ UNCHANGED <<wire, receiving, requests, waiterSem, waiterInUse, waiter>>
        /\ pc[t] \in {"claim", "idle"} /\ pc'[t] \in {"getWaiter", "lockBulk"}
        /\ call'[t].from = t
        BY <1>0, <2>1 DEF Begin, vc, pool, Places
  <2>3. waiter[t] = None  BY <1>0, <2>2 DEF CallInv
  <2>4. Asked' = Asked /\ Once'  BY <2>2 DEF Asked, Once
  <2>5. OwnCall'  BY <2>2, <2>3 DEF OwnCall, Frame
  <2>6. AskInv'
    <3>1. \A m \in Asked : m \in Messages  BY <1>A DEF Asked, Range
    <3>2. \A m \in Asked : m.from \in Callers \ {t}  BY <2>2, <3>1 DEF AskInv, Messages
    <3> QED  BY <2>4, <3>2 DEF AskInv, Frame
  <2>7. \A u \in Callers : waiter[u] # None => (Posted(u)' <=> Posted(u))
        BY <2>3, <2>4 DEF Posted, Frame
  <2>8. SemInv'  BY <2>2, <2>7 DEF SemInv, FreeWaiters
  <2> QED  BY <2>4, <2>5, <2>6, <2>8
<1>4. CASE LockBulk(t) \/ GetWaiter(t) \/ UseForCall(t) \/ QueueFails(t) \/ QueueBulk(t)
           \/ UnuseForCall(t) \/ PostWaiter(t)
  <2>1. /\ UNCHANGED <<wire, receiving, requests, waiterSem, waiterInUse, waiter, call>>
        /\ pc[t] \in Calling
        BY <1>4 DEF LockBulk, GetWaiter, UseForCall, QueueFails, QueueBulk, UnuseForCall,
          PostWaiter, vc, pool, Calling
  <2>2. CASE QueueBulk(t)
    <3>1. pc[t] = "bulk" /\ pc'[t] = AfterSend(t)  BY <1>0, <2>2 DEF QueueBulk, Places
    <3>2. pc'[t] = "wait" \/ waiter[t] = None  BY <1>0, <3>1 DEF AfterSend, CallInv
    <3> QED  BY <2>1, <3>1, <3>2, QuietReplies
  <2>3. CASE ~QueueBulk(t)
    <3>1. pc[t] \notin {"bulk", "wait"} /\ pc'[t] \notin {"bulk", "wait"}
          BY <1>0, <1>4, <2>3 DEF LockBulk, GetWaiter, UseForCall, QueueFails, UnuseForCall,
            PostWaiter, Places, AfterFail, Returned
    <3> QED  BY <2>1, <3>1, QuietReplies
  <2> QED  BY <2>2, <2>3
<1>5. CASE ScanWaiters(t)
  <2>1. PICK w \in FreeWaiters : /\ waiterInUse' = waiterInUse \cup {w}
                                 /\ waiter' = [waiter EXCEPT ![t] = w]
                                 /\ call' = [call EXCEPT ![t].waiter = w]
        BY <1>5 DEF ScanWaiters
  <2>2. /\ UNCHANGED <<wire, receiving, requests, waiterSem>>
        /\ pc[t] = "scan" /\ pc'[t] = "use"
        BY <1>0, <1>5 DEF ScanWaiters, vc, Places
  <2>3. call[t] \in Messages /\ call[t].from = t  BY <1>0, <2>2 DEF CallInv, OwnCall, Calling
  <2>4. call'[t].from = t /\ call'[t].waiter = w /\ waiter'[t] = w
        BY <1>0, <2>1, <2>3 DEF Messages, Places
  <2>5. Asked' = Asked /\ Once'  BY <2>2 DEF Asked, Once
  <2>6. OwnCall'  BY <2>4 DEF OwnCall, Frame
  <2>7. AskInv'
    <3>1. \A m \in Asked : m \in Messages  BY <1>A DEF Asked, Range
    <3>2. \A m \in Asked : m.from \in Callers \ {t}  BY <2>2, <3>1 DEF AskInv, Messages
    <3> QED  BY <2>5, <3>2 DEF AskInv, Frame
  <2>8. waiterSem[w] = 0 /\ ~Posted(t)'  BY <2>2 DEF SemInv, Posted
  <2>9. \A u \in Callers \ {t} : Posted(u)' <=> Posted(u)  BY <2>5 DEF Posted, Frame
  <2>10. SemInv'  BY <2>1, <2>2, <2>4, <2>8, <2>9 DEF SemInv, FreeWaiters, Frame
  <2> QED  BY <2>5, <2>6, <2>7, <2>10
<1>6. CASE QueueMessage(t)
  <2>1. /\ UNCHANGED <<receiving, requests, waiterSem, waiterInUse, waiter, call>>
        /\ wire' = Append(wire, call[t]) /\ pc[t] = "queue"
        /\ pc'[t] = IF HasBulk(call[t]) THEN "bulk" ELSE AfterSend(t)
        BY <1>0, <1>6 DEF QueueMessage, pool, Places
  <2> DEFINE m == call[t]
  <2>2. m \in Messages /\ m.from = t /\ (Waits(m) <=> waiter[t] # None)
        /\ (waiter[t] # None => m.waiter = waiter[t])
        BY <1>0, <2>1 DEF CallInv, OwnCall, Calling
  <2>3. m \notin Asked  BY <2>1, <2>2 DEF AskInv
  <2>4. Waits(m) => m \notin Range(wire) /\ m \notin Range(receiving)  BY <2>3 DEF Asked
  <2>5. Range(wire') = Range(wire) \cup {m} /\ AskedOnce(wire')
        BY <1>A, <2>1, <2>2, <2>4, AppendAsked DEF Once
  <2>6. m \notin requests  BY <2>3 DEF Asked
  <2>7. Waits(m) => pc'[t] \in {"bulk", "wait"}  BY <2>1 DEF AfterSend
  <2>8. m = call'[t]  BY <2>1
  <2> HIDE DEF m
  <2>9. Once'  BY <2>1, <2>4, <2>5, <2>6 DEF Once
  <2>10. Asked' = IF Waits(m) THEN Asked \cup {m} ELSE Asked
         BY <2>1, <2>5 DEF Asked
  <2>11. OwnCall'  BY <2>1, <2>2, <2>8 DEF OwnCall, Frame, Calling
  <2>12. AskInv'
    <3>1. \A n \in Asked : n \in Messages  BY <1>A DEF Asked, Range
    <3>2. \A n \in Asked : n.from \in Callers \ {t}  BY <2>1, <3>1 DEF AskInv, Messages
    <3> QED  BY <2>1, <2>2, <2>7, <2>8, <2>10, <3>2 DEF AskInv, Frame
  <2>13. ~Posted(t) /\ (waiter[t] # None => ~Posted(t)')
         BY <2>1, <2>2, <2>8, <2>10 DEF Posted
  <2>14. \A u \in Callers \ {t} : Posted(u)' <=> Posted(u)
    <3>1. \A u \in Callers \ {t} : pc[u] \in {"bulk", "wait"} => call[u] # m
          BY <2>2 DEF OwnCall, Calling
    <3> QED  BY <2>1, <2>10, <3>1 DEF Posted, Frame
  <2>15. SemInv'  BY <2>1, <2>13, <2>14 DEF SemInv, FreeWaiters
  <2> QED  BY <2>9, <2>11, <2>12, <2>15
<1>7. CASE WaitReply(t)
  <2>1. /\ UNCHANGED <<wire, receiving, requests, waiterInUse, waiter, call>>
        /\ pc[t] = "wait" /\ pc'[t] = "release" /\ waiterSem[waiter[t]] > 0
        /\ waiterSem' = [waiterSem EXCEPT ![waiter[t]] = @ - 1]
        BY <1>0, <1>7 DEF WaitReply, vc, Places
  <2>2. waiter[t] \in Waiters /\ waiter[t] # None /\ waiter[t] \in waiterInUse
        BY <1>0, <2>1 DEF CallInv, Places
  <2>3. waiterSem[waiter[t]] = 1 /\ Posted(t)  BY <2>1, <2>2 DEF SemInv
  <2>4. waiterSem'[waiter[t]] = 0
        /\ \A w \in Waiters \ {waiter[t]} : waiterSem'[w] = waiterSem[w]
        BY <1>0, <2>1, <2>2, <2>3 DEF Numbers
  <2>5. Asked' = Asked /\ Once'  BY <2>1 DEF Asked, Once
  <2>6. OwnCall'  BY <2>1 DEF OwnCall, Frame, Calling
  <2>7. AskInv'
    <3>1. \A m \in Asked : m \in Messages  BY <1>A DEF Asked, Range
    <3>2. \A m \in Asked : m.from \in Callers \ {t}
          BY <2>3, <3>1 DEF AskInv, Messages, Posted
    <3> QED  BY <2>1, <2>5, <3>2 DEF AskInv, Frame
  <2>8. ~Posted(t)' /\ \A u \in Callers \ {t} : Posted(u)' <=> Posted(u)
        BY <2>1, <2>5 DEF Posted, Frame
  <2>9. \A u \in Callers \ {t} : waiter[u] # None => waiter[u] \in Waiters \ {waiter[t]}
        BY <1>0, <2>2 DEF Distinct, Places
  <2>10. SemInv'  BY <2>1, <2>2, <2>4, <2>8, <2>9 DEF SemInv, FreeWaiters
  <2> QED  BY <2>5, <2>6, <2>7, <2>10
<1>8. CASE FreeWaiter(t)
  <2>1. /\ UNCHANGED <<wire, receiving, requests, waiterSem, call>>
        /\ pc[t] = "free" /\ pc'[t] = "post"
        /\ waiterInUse' = waiterInUse \ {waiter[t]} /\ waiter' = [waiter EXCEPT ![t] = None]
        BY <1>0, <1>8 DEF FreeWaiter, vc, Places
  <2>2. waiter[t] # None /\ waiterSem[waiter[t]] = 0 /\ waiter'[t] = None
        BY <1>0, <2>1 DEF CallInv, SemInv, Posted, Places
  <2>3. Asked' = Asked /\ Once'  BY <2>1 DEF Asked, Once
  <2>4. OwnCall'  BY <2>1, <2>2 DEF OwnCall, Frame, Calling
  <2>5. AskInv'
    <3>1. \A m \in Asked : m \in Messages  BY <1>A DEF Asked, Range
    <3>2. \A m \in Asked : m.from \in Callers \ {t}  BY <2>1, <3>1 DEF AskInv, Messages
    <3> QED  BY <2>1, <2>3, <3>2 DEF AskInv, Frame
  <2>6. \A u \in Callers \ {t} : Posted(u)' <=> Posted(u)  BY <2>1, <2>3 DEF Posted, Frame
  <2>7. SemInv'  BY <2>1, <2>2, <2>6 DEF SemInv, FreeWaiters, Frame
  <2> QED  BY <2>3, <2>4, <2>5, <2>7
<1> QED  BY <1>1, <1>2, <1>3, <1>4, <1>5, <1>6, <1>7, <1>8 DEF ThreadStep, Continue

-----------------------------------------------------------------------------
(* The theorems                                                             *)

LEMMA IInvNext == IInv /\ [Next]_vars => IInv'
<1> SUFFICES ASSUME IInv, [Next]_vars PROVE IInv'  OBVIOUS
<1>0. StageInv /\ Distinct /\ RefInv /\ PoolInv /\ UseInv  BY DEF IInv
<1>1. ASSUME NEW t \in Callers, ThreadStep(t) PROVE IInv'
  <2>1. StageInv' /\ Frame(t)  BY <1>0, <1>1, ThreadStage
  <2>2. Distinct'  BY <1>0, <1>1, <2>1, DistinctStep
  <2>3. RefInv'  BY <1>0, <1>1, <2>1, RefStep
  <2>4. PoolInv'  BY <1>0, <1>1, <2>1, <2>3, PoolStep
  <2>5. UseInv'  BY <1>0, <1>1, <2>1, <2>3, UseStep
  <2> QED  BY <2>1, <2>2, <2>3, <2>4, <2>5 DEF IInv
<1>2. CASE VCTake \/ VCReceive \/ (\E m \in requests : Reply(m)) \/ UNCHANGED vars
  <2>1. StageInv' /\ UNCHANGED <<counts, poolSem, waiterInUse, threads, unused, broken>>
        BY <1>0, <1>2, VCStage
  <2>2. Distinct'  BY <1>0, <2>1 DEF Distinct, threads
  <2>3. Inside' = Inside /\ Entering' = Entering /\ Between' = Between /\ Using' = Using
        BY <2>1 DEF Inside, Entering, Between, Using, threads
  <2>4. RefInv' /\ PoolInv' /\ UseInv'
        BY <1>0, <2>1, <2>3 DEF RefInv, PoolInv, UseInv, FreeWaiters, counts, threads
  <2> QED  BY <2>1, <2>2, <2>4 DEF IInv
<1> QED  BY <1>1, <1>2 DEF Next, ThreadStep, Stopped

LEMMA Invariant == Spec => []IInv
<1> QED  BY IInvInit, IInvNext, PTL DEF Spec

\* Every variable stays in its type; the pool never counts more waiters than there
\* are, nor the client more references than threads, and no waiter's semaphore is
\* taken below zero (mmal_vc_client.c).
THEOREM ClientTypeCorrect == Spec => []TypeOK
<1>1. IInv => TypeOK
  <2> SUFFICES ASSUME IInv PROVE TypeOK  OBVIOUS
  <2> USE SetAssumption
  <2>0. Types /\ Flags /\ Numbers /\ Places /\ Wires /\ RefInv /\ PoolInv
        BY DEF IInv, StageInv, Types
  <2>1. refcount \in 0..Cardinality(Callers)
    <3>1. Inside \subseteq Callers  BY DEF Inside
    <3>2. Cardinality(Inside) <= Cardinality(Callers) /\ Cardinality(Callers) \in Nat
          BY <3>1, FS_Subset, FS_CardinalityType
    <3> QED  BY <2>0, <3>2 DEF RefInv, Numbers
  <2>2. poolSem \in 0..Cardinality(Waiters)
    <3>1. Cardinality(Between) \in Nat /\ Cardinality(FreeWaiters) \in Nat  BY <2>0, Finite
    <3>2. FreeWaiters \subseteq Waiters  BY DEF FreeWaiters
    <3>3. Cardinality(FreeWaiters) <= Cardinality(Waiters) /\ Cardinality(Waiters) \in Nat
          BY <3>2, FS_Subset, FS_CardinalityType
    <3> QED  BY <2>0, <3>1, <3>3 DEF PoolInv, Numbers
  <2> QED  BY <2>0, <2>1, <2>2 DEF TypeOK, Flags, Numbers, Places, Wires
<1> QED  BY <1>1, Invariant, PTL

\* get_waiter finds a free waiter after it has passed the semaphore, although the
\* semaphore is taken before the lock and release_waiter takes no lock at all.
THEOREM WaiterAlwaysFound == Spec => []WaiterFound
<1>1. IInv => WaiterFound
  <2> SUFFICES ASSUME IInv, NEW t \in Callers, pc[t] = "scan" PROVE FreeWaiters # {}
      BY DEF WaiterFound
  <2>0. Types /\ Numbers /\ RefInv /\ PoolInv  BY DEF IInv, StageInv, Types
  <2>1. /\ IsFiniteSet(Inside) /\ Cardinality(Inside) \in Nat
        /\ IsFiniteSet(Between) /\ Cardinality(Between) \in Nat
        BY <2>0, Finite
  <2>2. t \in Inside /\ t \in Between  BY DEF Inside, Between
  <2>3. Cardinality(Inside) # 0 /\ Cardinality(Between) # 0  BY <2>1, <2>2, FS_EmptySet
  <2>4. inited  BY <2>0, <2>1, <2>3 DEF RefInv
  <2>5. Cardinality(FreeWaiters) # 0  BY <2>0, <2>1, <2>3, <2>4 DEF PoolInv, Numbers
  <2> QED  BY <2>5, FS_EmptySet
<1> QED  BY <1>1, Invariant, PTL

\* The client stays initialised and its service open for every thread that has it,
\* and VideoCore in use for every component that has claimed it and every request
\* under way, unless a vchiq_use_service has failed.
THEOREM ClientInUse == Spec => []InUse
<1>1. IInv => InUse
  <2> SUFFICES ASSUME IInv PROVE InUse  OBVIOUS
  <2>0. Types /\ Numbers /\ RefInv /\ UseInv /\ CallInv /\ ClaimInv
        BY DEF IInv, StageInv, Types
  <2>1. \A S \in {Inside, Entering, Using, claimed} : IsFiniteSet(S) /\ Cardinality(S) \in Nat
        BY <2>0, Finite
  <2>2. ASSUME NEW t \in Callers, pc[t] # "out" PROVE inited /\ open
    <3>1. Cardinality(Inside) # 0  BY <2>1, <2>2, FS_EmptySet DEF Inside
    <3> QED  BY <2>0, <2>1, <3>1 DEF RefInv
  <2>3. ASSUME claimed # {} \/ Using # {} PROVE inUse \/ unused
    <3>1. PICK t \in Callers : t \in claimed \/ t \in Using
          BY <2>0, <2>3 DEF Types, Places, Using
    <3>2. pc[t] # "out"  BY <2>0, <3>1 DEF ClaimInv, Using, Calling
    <3>3. inited  BY <2>2, <3>2
    <3>4. Cardinality(claimed) # 0 \/ Cardinality(Using) # 0  BY <2>1, <2>3, FS_EmptySet
    <3> QED  BY <2>0, <2>1, <3>3, <3>4 DEF UseInv, Numbers
  <2> QED  BY <2>2, <2>3 DEF InUse, Using
<1> QED  BY <1>1, Invariant, PTL

LEMMA ReplyInvNext == IInv /\ ReplyInv /\ [Next]_vars => ReplyInv'
<1> SUFFICES ASSUME IInv, ReplyInv, [Next]_vars PROVE ReplyInv'  OBVIOUS
<1>0. StageInv /\ Distinct /\ RefInv /\ IInv'  BY IInvNext DEF IInv
<1>1. ASSUME NEW t \in Callers, ThreadStep(t) PROVE ReplyInv'
  <2>1. StageInv' /\ Frame(t)  BY <1>0, <1>1, ThreadStage
  <2>2. ~broken  BY <1>1 DEF ThreadStep, Continue, VCInit, VCInitFails, InitRelease, ClaimVC,
          UnclaimVC, VCDeinit, SendData, Flush, Request, Begin, LockBulk, GetWaiter, ScanWaiters,
          UseForCall, QueueMessage, QueueFails, QueueBulk, WaitReply, UnuseForCall, FreeWaiter,
          PostWaiter
  <2>3. OwnCall /\ AskInv /\ Once /\ SemInv  BY <2>2 DEF ReplyInv
  <2> QED  BY <1>0, <1>1, <2>1, <2>2, <2>3, ThreadReplies DEF ReplyInv
<1>2. CASE VCTake \/ VCReceive \/ \E m \in requests : Reply(m)
  <2>1. ~broken  BY <1>2 DEF VCTake, VCReceive, Reply
  <2>2. OwnCall /\ AskInv /\ Once /\ SemInv /\ StageInv'  BY <1>0, <2>1 DEF ReplyInv, IInv
  <2> QED  BY <1>0, <1>2, <2>1, <2>2, VCReplies DEF ReplyInv
<1>3. CASE UNCHANGED vars
  <2> USE <1>3 DEF vars, counts, pool, locks, threads, vc
  <2>1. Asked' = Asked  BY DEF Asked
  <2> QED  BY <2>1 DEF ReplyInv, OwnCall, AskInv, Once, AskedOnce, SemInv, Posted, FreeWaiters
<1> QED  BY <1>1, <1>2, <1>3 DEF Next, ThreadStep, Stopped

\* A reply is written only where a thread still waits for it: through a waiter that
\* is in use and that the sender of the request has.  A thread that waits has its
\* one request under way or its semaphore posted, never both and never neither
\* (mmal_vc_vchiq_callback, mmal_vc_sendwait_message).
THEOREM RepliesToWaiter == Spec => []OwnReply
<1>1. IInv /\ ReplyInv => OwnReply
  <2> SUFFICES ASSUME IInv, ReplyInv, ~broken PROVE OwnReply  BY DEF OwnReply
  <2>0. Wires /\ Places /\ CallInv /\ OwnCall /\ AskInv /\ SemInv
        BY DEF IInv, StageInv, Types, ReplyInv
  <2>1. ASSUME NEW m \in Asked
        PROVE  /\ m.waiter \in waiterInUse /\ waiter[m.from] = m.waiter
               /\ pc[m.from] \in {"bulk", "wait"}
    <3>1. m \in Messages  BY <2>0 DEF Asked, Range, Wires
    <3>2. m.from \in Callers  BY <3>1 DEF Messages
    <3> QED  BY <2>0, <3>2 DEF AskInv, CallInv
  <2>2. ASSUME NEW t \in Callers, pc[t] = "wait"
        PROVE  Cardinality({m \in Asked : m.from = t}) + waiterSem[waiter[t]] = 1
    <3>1. waiter[t] # None /\ call[t].from = t  BY <2>0, <2>2 DEF CallInv, OwnCall, Calling
    <3>2. {m \in Asked : m.from = t} = IF call[t] \in Asked THEN {call[t]} ELSE {}
          BY <2>0, <3>1 DEF AskInv
    <3>3. Cardinality({m \in Asked : m.from = t}) = IF call[t] \in Asked THEN 1 ELSE 0
          BY <3>2, FS_EmptySet, FS_Singleton
    <3>4. waiterSem[waiter[t]] = IF call[t] \in Asked THEN 0 ELSE 1
          BY <2>0, <2>2, <3>1 DEF SemInv, Posted
    <3> QED  BY <3>3, <3>4
  <2> QED  BY <2>1, <2>2 DEF OwnReply
<1>2. Spec => []ReplyInv
  BY ReplyInvInit, ReplyInvNext, Invariant, PTL DEF Spec
<1> QED  BY <1>1, <1>2, Invariant, PTL

-----------------------------------------------------------------------------
(* The messages that VideoCore has not taken with their transfers           *)

\* A port whose thread has sent data is marked, also while the data are on their
\* way, and a plain flush is only under way for a port that is not.
Marked ==
  /\ \A i \in DOMAIN Sent : HasBulk(Sent[i]) => Sent[i].from \in sentData
  /\ \A i \in DOMAIN receiving : HasBulk(receiving[i])
  /\ \A t \in Callers : pc[t] \in Calling =>
       /\ HasBulk(call[t]) => t \in sentData
       /\ call[t].kind = "flush" => t \notin sentData

\* A thread has sent nothing behind its flush with a transfer.
Behind ==
  /\ \A i, j \in DOMAIN Sent : i < j /\ Sent[i].kind = "syncFlush" => Sent[j].from # Sent[i].from
  /\ \A m \in requests : m.kind = "syncFlush" => \A j \in DOMAIN Sent : Sent[j].from # m.from

\* bulk_lock is held from before the waiter is found until the transfer has gone.
Owner ==
  \A t \in Callers :
    /\ pc[t] \in {"getWaiter", "scan", "use", "queue", "bulk"} /\ HasBulk(call[t]) => bulkLock = t
    /\ pc[t] = "bulk" => HasBulk(call[t])

\* f lists the places of the n messages that announce a transfer.
Lists(f, n) ==
  /\ \A i, j \in 1..n : i < j => f[i] < f[j]
  /\ \A k \in DOMAIN Sent : HasBulk(Sent[k]) <=> \E i \in 1..n : f[i] = k

\* Only the last of these may be without its transfer, while its thread has the lock.
Matched(f, n) ==
  /\ \A i \in DOMAIN bulks : i \in 1..n /\ bulks[i] = Sent[f[i]].from
  /\ (\A t \in Callers : pc[t] # "bulk") => n = Len(bulks)
  /\ \A t \in Callers : pc[t] = "bulk" => n = Len(bulks) + 1 /\ Sent[f[n]].from = t

Paired == \E n \in Nat : \E f \in [1..n -> DOMAIN Sent] : Lists(f, n) /\ Matched(f, n)

SentInv == ~broken => Marked /\ Behind /\ Owner /\ Paired

LEMMA SentParts ==
  ASSUME Wires
  PROVE  /\ Sent \in Seq(Messages) /\ Len(Sent) = Len(receiving) + Len(wire)
         /\ Len(receiving) \in Nat /\ Len(wire) \in Nat /\ Len(bulks) \in Nat
         /\ DOMAIN receiving = 1..Len(receiving) /\ DOMAIN wire = 1..Len(wire)
         /\ DOMAIN Sent = 1..(Len(receiving) + Len(wire)) /\ DOMAIN bulks = 1..Len(bulks)
         /\ \A i \in DOMAIN receiving : i \in DOMAIN Sent /\ Sent[i] = receiving[i]
         /\ \A i \in DOMAIN wire :
              Len(receiving) + i \in DOMAIN Sent /\ Sent[Len(receiving) + i] = wire[i]
         /\ \A i \in DOMAIN Sent :
              /\ Sent[i] \in Messages
              /\ i \in DOMAIN receiving \/ i - Len(receiving) \in DOMAIN wire
<1>1. wire \in Seq(Messages) /\ receiving \in Seq(Messages) /\ bulks \in Seq(Callers)
  BY DEF Wires
<1>2. /\ Sent \in Seq(Messages) /\ Len(Sent) = Len(receiving) + Len(wire)
      /\ Len(receiving) \in Nat /\ Len(wire) \in Nat /\ Len(bulks) \in Nat
      /\ DOMAIN receiving = 1..Len(receiving) /\ DOMAIN wire = 1..Len(wire)
      /\ DOMAIN bulks = 1..Len(bulks)
  BY <1>1 DEF Sent
<1>3. DOMAIN Sent = 1..Len(Sent) /\ \A i \in DOMAIN Sent : Sent[i] \in Messages
  BY <1>2
<1>4. \A i \in 1..(Len(receiving) + Len(wire)) :
        Sent[i] = IF i <= Len(receiving) THEN receiving[i] ELSE wire[i - Len(receiving)]
  BY <1>1 DEF Sent
<1>5. ASSUME NEW i \in DOMAIN receiving PROVE i \in DOMAIN Sent /\ Sent[i] = receiving[i]
  BY <1>2, <1>3, <1>4, <1>5
<1>6. ASSUME NEW i \in DOMAIN wire
      PROVE  Len(receiving) + i \in DOMAIN Sent /\ Sent[Len(receiving) + i] = wire[i]
  <2>1. Len(receiving) + i \in 1..(Len(receiving) + Len(wire))
        /\ ~(Len(receiving) + i <= Len(receiving)) /\ (Len(receiving) + i) - Len(receiving) = i
    BY <1>2, <1>6
  <2> QED
    BY <1>2, <1>3, <1>4, <2>1
<1>7. ASSUME NEW i \in DOMAIN Sent
      PROVE  i \in DOMAIN receiving \/ i - Len(receiving) \in DOMAIN wire
  BY <1>2, <1>3, <1>7
<1> QED
  BY <1>2, <1>3, <1>5, <1>6, <1>7

LEMMA InSent ==
  ASSUME Wires, NEW i \in DOMAIN Sent
  PROVE  Sent[i] \in Range(wire) \cup Range(receiving)
<1>1. CASE i \in DOMAIN receiving
  BY <1>1, SentParts DEF Range
<1>2. CASE i - Len(receiving) \in DOMAIN wire
  <2> DEFINE k == i - Len(receiving)
  <2>1. Sent[Len(receiving) + k] = wire[k] /\ Len(receiving) + k = i
    BY <1>2, SentParts
  <2> QED
    BY <1>2, <2>1 DEF Range
<1> QED
  BY <1>1, <1>2, SentParts

\* How the steps change these messages: nothing, one behind all others, or one less
Same == Sent' = Sent
Added(m) ==
  /\ DOMAIN Sent' = DOMAIN Sent \cup {Len(Sent) + 1} /\ Sent'[Len(Sent) + 1] = m
  /\ \A i \in DOMAIN Sent : Sent'[i] = Sent[i]
Gone(p) ==
  /\ p \in DOMAIN Sent /\ DOMAIN Sent' = 1..(Len(Sent) - 1)
  /\ \A i \in DOMAIN Sent : i < p => i \in DOMAIN Sent' /\ Sent'[i] = Sent[i]
  /\ \A i \in DOMAIN Sent : i > p => i - 1 \in DOMAIN Sent' /\ Sent'[i - 1] = Sent[i]

LEMMA Adds ==
  ASSUME Wires, Wires', NEW m \in Messages, wire' = Append(wire, m), receiving' = receiving
  PROVE  Added(m)
<1> USE DEF Wires
<1>1. Len(wire') = Len(wire) + 1 /\ wire'[Len(wire) + 1] = m
      /\ \A i \in DOMAIN wire : wire'[i] = wire[i] /\ i \in DOMAIN wire'
  BY AppendParts
<1>2. DOMAIN wire' = 1..(Len(wire) + 1) /\ Len(wire) + 1 \in DOMAIN wire'
  BY AppendParts
<1>3. /\ DOMAIN Sent' = 1..(Len(receiving) + (Len(wire) + 1))
      /\ \A i \in DOMAIN receiving : Sent'[i] = receiving[i]
      /\ \A i \in DOMAIN wire' : Sent'[Len(receiving) + i] = wire'[i]
  <2> DEFINE S == receiving' \o wire'
  <2>1. DOMAIN S = 1..(Len(receiving) + (Len(wire) + 1))
    BY <1>1
  <2>2. \A i \in DOMAIN receiving : S[i] = receiving[i]
    BY <1>1
  <2>3. \A i \in DOMAIN wire' : S[Len(receiving) + i] = wire'[i]
    BY <1>1
  <2> QED
    BY <2>1, <2>2, <2>3 DEF Sent
<1>4. DOMAIN Sent = 1..(Len(receiving) + Len(wire)) /\ Len(Sent) = Len(receiving) + Len(wire)
      /\ Len(receiving) \in Nat /\ Len(wire) \in Nat
  BY SentParts
<1>5. DOMAIN Sent' = DOMAIN Sent \cup {Len(Sent) + 1}
  BY <1>3, <1>4
<1>6. Sent'[Len(Sent) + 1] = m
  <2>1. Len(Sent) + 1 = Len(receiving) + (Len(wire) + 1)
    BY <1>4
  <2> QED
    BY <1>1, <1>2, <1>3, <2>1
<1>7. ASSUME NEW i \in DOMAIN Sent PROVE Sent'[i] = Sent[i]
  <2>1. CASE i \in DOMAIN receiving
    BY <1>3, <2>1, SentParts
  <2>2. CASE i - Len(receiving) \in DOMAIN wire
    <3> DEFINE k == i - Len(receiving)
    <3>1. Sent[Len(receiving) + k] = wire[k] /\ Sent'[Len(receiving) + k] = wire[k]
      BY <1>1, <1>3, <2>2, SentParts
    <3>2. Len(receiving) + k = i
      BY <1>4
    <3> QED
      BY <3>1, <3>2
  <2> QED
    BY <1>7, <2>1, <2>2, SentParts
<1> QED
  BY <1>5, <1>6, <1>7 DEF Added

LEMMA Takes ==
  ASSUME Wires, Wires', VCTake
  PROVE  LET p == Len(receiving) + 1
         IN  /\ p \in DOMAIN Sent /\ Sent[p] = Head(wire)
             /\ HasBulk(Sent[p]) => Same /\ DOMAIN receiving' = DOMAIN receiving \cup {p}
                                    /\ requests' = requests
             /\ ~HasBulk(Sent[p]) => Gone(p) /\ receiving' = receiving
                                     /\ requests' = requests \cup {Sent[p]}
<1> USE DEF Wires
<1> DEFINE p == Len(receiving) + 1
<1>0. Len(receiving) \in Nat /\ Len(wire) \in Nat
  BY SentParts
<1>1. wire # <<>> /\ wire' = Tail(wire)
  BY DEF VCTake
<1>2. /\ Len(wire) >= 1 /\ Head(wire) = wire[1] /\ Head(wire) \in Messages
      /\ DOMAIN wire = 1..Len(wire) /\ Len(wire') = Len(wire) - 1 /\ DOMAIN wire' = 1..(Len(wire) - 1)
      /\ \A i \in DOMAIN wire : i # 1 => i - 1 \in DOMAIN wire' /\ wire'[i - 1] = wire[i]
  BY <1>1, TailParts
<1>3. p \in DOMAIN Sent /\ Sent[p] = Head(wire)
  <2>1. 1 \in DOMAIN wire
    BY <1>2
  <2>2. Len(receiving) + 1 \in DOMAIN Sent /\ Sent[Len(receiving) + 1] = wire[1]
    BY <2>1, SentParts
  <2> QED
    BY <1>2, <2>2
<1>4. DOMAIN Sent = 1..(Len(receiving) + Len(wire)) /\ Len(Sent) = Len(receiving) + Len(wire)
  BY SentParts
<1>5. CASE HasBulk(Head(wire))
  <2>1. receiving' = Append(receiving, Head(wire)) /\ requests' = requests
    BY <1>5 DEF VCTake
  <2>2. /\ DOMAIN receiving' = 1..p /\ DOMAIN receiving = 1..Len(receiving)
        /\ Len(receiving') = p /\ receiving'[p] = Head(wire)
        /\ \A i \in DOMAIN receiving : receiving'[i] = receiving[i]
    BY <1>2, <2>1, AppendParts
  <2>3. /\ Sent' \in Seq(Messages) /\ Len(Sent') = p + (Len(wire) - 1)
        /\ \A i \in DOMAIN receiving' : Sent'[i] = receiving'[i]
        /\ \A i \in DOMAIN wire' : Sent'[p + i] = wire'[i]
    <3> DEFINE S == receiving' \o wire'
    <3>1. S \in Seq(Messages) /\ Len(S) = p + (Len(wire) - 1)
      <4>1. S \in Seq(Messages) /\ Len(S) = Len(receiving') + Len(wire')
        OBVIOUS
      <4> QED
        BY <1>2, <2>2, <4>1
    <3>2. \A i \in DOMAIN receiving' : S[i] = receiving'[i]
      BY <2>2
    <3>3. \A i \in DOMAIN wire' : S[p + i] = wire'[i]
      BY <1>2, <2>2
    <3> QED
      BY <3>1, <3>2, <3>3 DEF Sent
  <2>4. ASSUME NEW i \in DOMAIN Sent PROVE Sent'[i] = Sent[i]
    <3>1. CASE i \in DOMAIN receiving
      <4>1. i \in DOMAIN receiving'
        BY <1>0, <2>2, <3>1
      <4> QED
        BY <2>2, <2>3, <3>1, <4>1, SentParts
    <3>2. CASE i = p
      <4>1. p \in DOMAIN receiving'
        BY <1>0, <2>2
      <4> QED
        BY <1>3, <2>2, <2>3, <3>2, <4>1
    <3>3. CASE i \notin DOMAIN receiving /\ i # p
      <4> DEFINE k == i - Len(receiving)
      <4>1. k \in DOMAIN wire /\ k # 1
        BY <1>0, <1>4, <3>3, SentParts
      <4>2. k - 1 \in DOMAIN wire' /\ wire'[k - 1] = wire[k]
        BY <1>2, <4>1
      <4>3. Sent'[p + (k - 1)] = wire[k] /\ Sent[Len(receiving) + k] = wire[k]
        BY <2>3, <4>1, <4>2, SentParts
      <4>4. p + (k - 1) = i /\ Len(receiving) + k = i
        BY <1>0, <1>4
      <4> QED
        BY <4>3, <4>4
    <3> QED
      BY <3>1, <3>2, <3>3
  <2>5. Len(Sent') = Len(Sent) /\ Sent \in Seq(Messages)
    BY <1>0, <1>4, <2>3, SentParts
  <2>6. Same
    BY <2>3, <2>4, <2>5, SameSequence DEF Same
  <2>7. DOMAIN receiving' = DOMAIN receiving \cup {p}
    BY <1>0, <2>2
  <2> QED
    BY <1>3, <1>5, <2>1, <2>6, <2>7
<1>6. CASE ~HasBulk(Head(wire))
  <2>1. receiving' = receiving /\ requests' = requests \cup {Head(wire)}
    BY <1>6 DEF VCTake
  <2>2. /\ DOMAIN Sent' = 1..(Len(receiving) + (Len(wire) - 1))
        /\ \A i \in DOMAIN receiving : i \in DOMAIN Sent' /\ Sent'[i] = receiving[i]
        /\ \A i \in DOMAIN wire' :
             Len(receiving) + i \in DOMAIN Sent' /\ Sent'[Len(receiving) + i] = wire'[i]
    <3> DEFINE S == receiving \o wire'
    <3>1. DOMAIN S = 1..(Len(receiving) + Len(wire'))
      OBVIOUS
    <3>2. \A i \in DOMAIN receiving : i \in DOMAIN S /\ S[i] = receiving[i]
      OBVIOUS
    <3>3. \A i \in DOMAIN wire' : Len(receiving) + i \in DOMAIN S /\ S[Len(receiving) + i] = wire'[i]
      OBVIOUS
    <3> QED
      BY <1>2, <2>1, <3>1, <3>2, <3>3 DEF Sent
  <2>3. DOMAIN Sent' = 1..(Len(Sent) - 1)
    BY <1>0, <1>4, <2>2
  <2>4. ASSUME NEW i \in DOMAIN Sent, i < p PROVE i \in DOMAIN Sent' /\ Sent'[i] = Sent[i]
    <3>1. i \in DOMAIN receiving
      BY <1>0, <1>4, <2>4, SentParts
    <3> QED
      BY <2>2, <3>1, SentParts
  <2>5. ASSUME NEW i \in DOMAIN Sent, i > p PROVE i - 1 \in DOMAIN Sent' /\ Sent'[i - 1] = Sent[i]
    <3> DEFINE k == i - Len(receiving)
    <3>1. k \in DOMAIN wire /\ k # 1
      <4>1. i \notin 1..Len(receiving) /\ k # 1
        BY <1>0, <1>4, <2>5
      <4> QED
        BY <2>5, <4>1, SentParts
    <3>2. k - 1 \in DOMAIN wire' /\ wire'[k - 1] = wire[k]
      BY <1>2, <3>1
    <3>3. Len(receiving) + (k - 1) \in DOMAIN Sent' /\ Sent'[Len(receiving) + (k - 1)] = wire[k]
          /\ Sent[Len(receiving) + k] = wire[k]
      BY <2>2, <3>1, <3>2, SentParts
    <3>4. Len(receiving) + (k - 1) = i - 1 /\ Len(receiving) + k = i
      BY <1>0, <1>4
    <3> QED
      BY <3>3, <3>4
  <2> QED
    BY <1>3, <1>6, <2>1, <2>3, <2>4, <2>5 DEF Gone
<1> QED
  BY <1>3, <1>5, <1>6

LEMMA Receives ==
  ASSUME Wires, Wires', VCReceive, \A i \in DOMAIN receiving : HasBulk(receiving[i])
  PROVE  /\ 1 \in DOMAIN Sent /\ Sent[1] = Head(receiving) /\ HasBulk(Sent[1]) /\ Gone(1)
         /\ \A i \in DOMAIN receiving' : i + 1 \in DOMAIN receiving /\ receiving'[i] = receiving[i + 1]
<1> USE DEF Wires
<1>0. Len(receiving) \in Nat /\ Len(wire) \in Nat
  BY SentParts
<1>1. receiving # <<>> /\ receiving' = Tail(receiving) /\ wire' = wire
  BY DEF VCReceive
<1>2. /\ Len(receiving) >= 1 /\ Head(receiving) = receiving[1]
      /\ DOMAIN receiving = 1..Len(receiving) /\ Len(receiving') = Len(receiving) - 1
      /\ DOMAIN receiving' = 1..(Len(receiving) - 1)
      /\ \A i \in DOMAIN receiving' : i + 1 \in DOMAIN receiving /\ receiving'[i] = receiving[i + 1]
      /\ \A i \in DOMAIN receiving :
           i # 1 => i - 1 \in DOMAIN receiving' /\ receiving'[i - 1] = receiving[i]
  BY <1>1, TailParts
<1>3. 1 \in DOMAIN receiving
  BY <1>2
<1>4. 1 \in DOMAIN Sent /\ Sent[1] = Head(receiving) /\ HasBulk(Sent[1])
  BY <1>2, <1>3, SentParts
<1>5. DOMAIN Sent = 1..(Len(receiving) + Len(wire)) /\ Len(Sent) = Len(receiving) + Len(wire)
  BY SentParts
<1>6. /\ DOMAIN Sent' = 1..((Len(receiving) - 1) + Len(wire))
      /\ \A i \in DOMAIN receiving' : i \in DOMAIN Sent' /\ Sent'[i] = receiving'[i]
      /\ \A i \in DOMAIN wire :
           (Len(receiving) - 1) + i \in DOMAIN Sent' /\ Sent'[(Len(receiving) - 1) + i] = wire[i]
  <2> DEFINE S == receiving' \o wire
  <2>1. DOMAIN S = 1..(Len(receiving') + Len(wire))
    OBVIOUS
  <2>2. \A i \in DOMAIN receiving' : i \in DOMAIN S /\ S[i] = receiving'[i]
    OBVIOUS
  <2>3. \A i \in DOMAIN wire : Len(receiving') + i \in DOMAIN S /\ S[Len(receiving') + i] = wire[i]
    OBVIOUS
  <2> QED
    BY <1>1, <1>2, <2>1, <2>2, <2>3 DEF Sent
<1>7. DOMAIN Sent' = 1..(Len(Sent) - 1)
  BY <1>0, <1>5, <1>6
<1>8. ASSUME NEW i \in DOMAIN Sent, i > 1 PROVE i - 1 \in DOMAIN Sent' /\ Sent'[i - 1] = Sent[i]
  <2>1. CASE i \in DOMAIN receiving
    <3>1. i - 1 \in DOMAIN receiving' /\ receiving'[i - 1] = receiving[i]
      BY <1>2, <1>8, <2>1
    <3> QED
      BY <1>6, <2>1, <3>1, SentParts
  <2>2. CASE i - Len(receiving) \in DOMAIN wire
    <3> DEFINE k == i - Len(receiving)
    <3>1. (Len(receiving) - 1) + k \in DOMAIN Sent' /\ Sent'[(Len(receiving) - 1) + k] = wire[k]
          /\ Sent[Len(receiving) + k] = wire[k]
      BY <1>6, <2>2, SentParts
    <3>2. (Len(receiving) - 1) + k = i - 1 /\ Len(receiving) + k = i
      BY <1>0, <1>5
    <3> QED
      BY <3>1, <3>2
  <2> QED
    BY <1>8, <2>1, <2>2, SentParts
<1>9. \A i \in DOMAIN Sent : ~(i < 1)
  BY <1>5
<1> QED
  BY <1>2, <1>4, <1>7, <1>8, <1>9 DEF Gone

\* A step that leaves the messages and the transfers alone keeps the pairs unless a
\* thread comes to its transfer or leaves it.
LEMMA PairsStay ==
  ASSUME Wires, Paired, Same, bulks' = bulks, \A u \in Callers : pc'[u] = "bulk" <=> pc[u] = "bulk"
  PROVE  Paired'
<1>A. PICK n \in Nat : \E f \in [1..n -> DOMAIN Sent] : Lists(f, n) /\ Matched(f, n)
  BY DEF Paired
<1>1. PICK f \in [1..n -> DOMAIN Sent] : Lists(f, n) /\ Matched(f, n)
  BY <1>A
<1>2. f \in [1..n -> DOMAIN Sent'] /\ Lists(f, n)'
  BY <1>1 DEF Same, Lists
<1>3. Matched(f, n)'
  <2>1. /\ \A i \in DOMAIN bulks' : i \in 1..n /\ bulks'[i] = Sent'[f[i]].from
        /\ Len(bulks') = Len(bulks) /\ Sent'[f[n]] = Sent[f[n]]
    BY <1>1 DEF Same, Matched
  <2> QED
    BY <1>1, <2>1 DEF Matched
<1> QED
  BY <1>2, <1>3 DEF Paired

\* A message without a transfer goes behind the others.
LEMMA PairsPlain ==
  ASSUME Wires, Paired, NEW m \in Messages, Added(m), ~HasBulk(m), bulks' = bulks,
         \A u \in Callers : pc'[u] = "bulk" <=> pc[u] = "bulk"
  PROVE  Paired'
<1>0. Len(Sent) \in Nat /\ DOMAIN Sent = 1..Len(Sent) /\ Len(bulks) \in Nat
      /\ DOMAIN bulks = 1..Len(bulks)
  BY SentParts
<1>A. PICK n \in Nat : \E f \in [1..n -> DOMAIN Sent] : Lists(f, n) /\ Matched(f, n)
  BY DEF Paired
<1>1. PICK f \in [1..n -> DOMAIN Sent] : Lists(f, n) /\ Matched(f, n)
  BY <1>A
<1>2. f \in [1..n -> DOMAIN Sent'] /\ \A i \in 1..n : f[i] # Len(Sent) + 1
  BY <1>0 DEF Added
<1>3. Lists(f, n)'
  BY <1>0, <1>1, <1>2 DEF Lists, Added
<1>4. Matched(f, n)'
  <2>1. \A i \in DOMAIN bulks' : i \in 1..n /\ bulks'[i] = Sent'[f[i]].from
    BY <1>1 DEF Matched, Added
  <2>2. ASSUME NEW u \in Callers, pc[u] = "bulk" PROVE n = Len(bulks) + 1 /\ Sent'[f[n]].from = u
    <3>1. n = Len(bulks) + 1 /\ Sent[f[n]].from = u
      BY <1>1, <2>2 DEF Matched
    <3>2. f[n] \in DOMAIN Sent
      BY <1>0, <3>1
    <3> QED
      BY <3>1, <3>2 DEF Added
  <2> QED
    BY <1>1, <2>1, <2>2 DEF Matched
<1> QED
  BY <1>2, <1>3, <1>4 DEF Paired

\* A message goes behind the others before its transfer does.
LEMMA PairsAdded ==
  ASSUME Wires, Paired, NEW m \in Messages, NEW t \in Callers, Added(m), HasBulk(m),
         bulks' = bulks, m.from = t, \A u \in Callers : pc[u] # "bulk",
         \A u \in Callers : pc'[u] = "bulk" <=> u = t
  PROVE  Paired'
<1>0. Len(Sent) \in Nat /\ DOMAIN Sent = 1..Len(Sent) /\ Len(bulks) \in Nat
      /\ DOMAIN bulks = 1..Len(bulks)
  BY SentParts
<1>A. PICK n \in Nat : \E f \in [1..n -> DOMAIN Sent] : Lists(f, n) /\ Matched(f, n)
  BY DEF Paired
<1>1. PICK f \in [1..n -> DOMAIN Sent] : Lists(f, n) /\ Matched(f, n)
  BY <1>A
<1>2. n = Len(bulks) /\ \A i \in DOMAIN bulks : i \in 1..n /\ bulks[i] = Sent[f[i]].from
  BY <1>1 DEF Matched
<1> DEFINE l == Len(Sent) + 1
<1>3. PICK g : g = [i \in 1..(n + 1) |-> IF i = n + 1 THEN l ELSE f[i]]
  OBVIOUS
<1>4. g[n + 1] = l /\ \A i \in 1..n : g[i] = f[i] /\ f[i] \in DOMAIN Sent /\ f[i] < l
  <2>1. n + 1 \in 1..(n + 1) /\ \A i \in 1..n : i \in 1..(n + 1) /\ i # n + 1
    OBVIOUS
  <2>2. \A i \in 1..n : f[i] \in DOMAIN Sent
    OBVIOUS
  <2>3. \A k \in DOMAIN Sent : k < l
    BY <1>0
  <2> QED
    BY <1>3, <2>1, <2>2, <2>3
<1>5. g \in [1..(n + 1) -> DOMAIN Sent']
  <2>1. \A i \in 1..(n + 1) : i = n + 1 \/ i \in 1..n
    OBVIOUS
  <2> QED
    BY <1>3, <1>4, <2>1 DEF Added
<1>6. Sent'[l] = m /\ l \in DOMAIN Sent' /\ \A i \in DOMAIN Sent : Sent'[i] = Sent[i]
  BY DEF Added
<1> HIDE DEF l
<1>7. \A i, j \in 1..(n + 1) : i < j => g[i] < g[j]
  <2> SUFFICES ASSUME NEW i \in 1..(n + 1), NEW j \in 1..(n + 1), i < j PROVE g[i] < g[j]
    OBVIOUS
  <2>1. i \in 1..n /\ (j \in 1..n \/ j = n + 1)
    OBVIOUS
  <2> QED
    BY <1>1, <1>4, <2>1 DEF Lists
<1>8. \A k \in DOMAIN Sent' : HasBulk(Sent'[k]) <=> \E i \in 1..(n + 1) : g[i] = k
  <2> SUFFICES ASSUME NEW k \in DOMAIN Sent'
               PROVE  HasBulk(Sent'[k]) <=> \E i \in 1..(n + 1) : g[i] = k
    OBVIOUS
  <2>1. n + 1 \in 1..(n + 1) /\ \A i \in 1..(n + 1) : i = n + 1 \/ i \in 1..n
    OBVIOUS
  <2>2. CASE k = l
    BY <1>4, <1>6, <2>1, <2>2
  <2>3. CASE k # l
    <3>1. k \in DOMAIN Sent
      BY <2>3 DEF Added, l
    <3>2. HasBulk(Sent'[k]) <=> \E i \in 1..n : f[i] = k
      BY <1>1, <1>6, <3>1 DEF Lists
    <3>3. (\E i \in 1..n : f[i] = k) <=> \E i \in 1..(n + 1) : g[i] = k
      BY <1>4, <2>1, <2>3
    <3> QED
      BY <3>2, <3>3
  <2> QED
    BY <2>2, <2>3
<1>9. Lists(g, n + 1)'
  BY <1>7, <1>8 DEF Lists
<1>10. Matched(g, n + 1)'
  <2>1. \A i \in DOMAIN bulks : i \in 1..(n + 1) /\ g[i] = f[i] /\ f[i] \in DOMAIN Sent
    BY <1>0, <1>2, <1>4
  <2>2. \A i \in DOMAIN bulks' : i \in 1..(n + 1) /\ bulks'[i] = Sent'[g[i]].from
    BY <1>2, <1>6, <2>1
  <2>3. pc'[t] = "bulk" /\ \A u \in Callers : pc'[u] = "bulk" => u = t
    OBVIOUS
  <2> QED
    BY <1>2, <1>4, <1>6, <2>2, <2>3 DEF Matched
<1> QED
  <2>1. n + 1 \in Nat
    OBVIOUS
  <2> QED
    BY <1>5, <1>9, <1>10, <2>1 DEF Paired

\* A message without a transfer leaves.
LEMMA PairsGone ==
  ASSUME Wires, Wires', Paired, NEW p \in DOMAIN Sent, Gone(p), ~HasBulk(Sent[p]), bulks' = bulks,
         pc' = pc
  PROVE  Paired'
<1>0. Len(Sent) \in Nat /\ DOMAIN Sent = 1..Len(Sent) /\ Len(bulks) \in Nat
      /\ DOMAIN bulks = 1..Len(bulks)
  BY SentParts
<1>A. PICK n \in Nat : \E f \in [1..n -> DOMAIN Sent] : Lists(f, n) /\ Matched(f, n)
  BY DEF Paired
<1>1. PICK f \in [1..n -> DOMAIN Sent] : Lists(f, n) /\ Matched(f, n)
  BY <1>A
<1>2. PICK g : g = [i \in 1..n |-> IF f[i] < p THEN f[i] ELSE f[i] - 1]
  OBVIOUS
<1>3. ASSUME NEW i \in 1..n
      PROVE  /\ f[i] \in DOMAIN Sent /\ f[i] # p
             /\ f[i] < p => g[i] = f[i] /\ g[i] < p
             /\ f[i] > p => g[i] = f[i] - 1 /\ g[i] >= p
             /\ g[i] \in DOMAIN Sent' /\ Sent'[g[i]] = Sent[f[i]]
  <2>1. f[i] \in DOMAIN Sent /\ f[i] # p
    BY <1>1 DEF Lists
  <2>2. f[i] \in Int /\ p \in Int
    BY <1>0, <2>1
  <2>3. g[i] = IF f[i] < p THEN f[i] ELSE f[i] - 1
    BY <1>2
  <2>4. CASE f[i] < p
    BY <2>1, <2>2, <2>3, <2>4 DEF Gone
  <2>5. CASE f[i] > p
    <3>1. f[i] - 1 \in DOMAIN Sent' /\ Sent'[f[i] - 1] = Sent[f[i]]
      BY <2>1, <2>5 DEF Gone
    <3>2. g[i] = f[i] - 1 /\ g[i] >= p /\ ~(f[i] < p)
      BY <2>2, <2>3, <2>5
    <3> QED
      BY <2>1, <3>1, <3>2
  <2> QED
    BY <2>1, <2>2, <2>4, <2>5
<1>4. g \in [1..n -> DOMAIN Sent']
  BY <1>2, <1>3
<1>5. ASSUME NEW i \in 1..n, NEW j \in 1..n, i < j PROVE g[i] < g[j]
  <2>1. f[i] < f[j]
    BY <1>1, <1>5 DEF Lists
  <2>2. f[i] \in Int /\ f[j] \in Int /\ p \in Int
    BY <1>0, <1>3
  <2>3. g[i] = IF f[i] < p THEN f[i] ELSE f[i] - 1
    BY <1>2
  <2>4. g[j] = IF f[j] < p THEN f[j] ELSE f[j] - 1
    BY <1>2
  <2>5. f[i] # p /\ f[j] # p
    BY <1>3
  <2> QED
    BY <2>1, <2>2, <2>3, <2>4, <2>5
<1>6. ASSUME NEW k \in DOMAIN Sent' PROVE HasBulk(Sent'[k]) <=> \E i \in 1..n : g[i] = k
  <2>0. k \in Int /\ p \in Int /\ k >= 1 /\ k <= Len(Sent) - 1
    BY <1>0, <1>6 DEF Gone
  <2>1. CASE k < p
    <3>1. k \in DOMAIN Sent /\ Sent'[k] = Sent[k]
      <4>1. k \in DOMAIN Sent
        BY <1>0, <2>0
      <4> QED
        BY <2>1, <4>1 DEF Gone
    <3>2. HasBulk(Sent[k]) <=> \E i \in 1..n : f[i] = k
      BY <1>1, <3>1 DEF Lists
    <3>3. \A i \in 1..n : f[i] = k <=> g[i] = k
      <4> SUFFICES ASSUME NEW i \in 1..n PROVE f[i] = k <=> g[i] = k
        OBVIOUS
      <4>1. f[i] \in Int
        BY <1>0, <1>3
      <4>2. f[i] # p /\ (f[i] < p => g[i] = f[i]) /\ (f[i] > p => g[i] = f[i] - 1)
        BY <1>3
      <4> QED
        BY <2>0, <2>1, <4>1, <4>2
    <3> QED
      BY <3>1, <3>2, <3>3
  <2>2. CASE k >= p
    <3>1. k + 1 \in DOMAIN Sent /\ k + 1 > p /\ (k + 1) - 1 = k
      BY <1>0, <2>0, <2>2
    <3>2. Sent'[k] = Sent[k + 1]
      <4>1. Sent'[(k + 1) - 1] = Sent[k + 1]
        BY <3>1 DEF Gone
      <4> QED
        BY <3>1, <4>1
    <3>3. HasBulk(Sent[k + 1]) <=> \E i \in 1..n : f[i] = k + 1
      BY <1>1, <3>1 DEF Lists
    <3>4. \A i \in 1..n : f[i] = k + 1 <=> g[i] = k
      <4> SUFFICES ASSUME NEW i \in 1..n PROVE f[i] = k + 1 <=> g[i] = k
        OBVIOUS
      <4>1. f[i] \in Int
        BY <1>0, <1>3
      <4>2. f[i] # p /\ (f[i] < p => g[i] = f[i]) /\ (f[i] > p => g[i] = f[i] - 1)
        BY <1>3
      <4> QED
        BY <2>0, <2>2, <4>1, <4>2
    <3> QED
      BY <3>2, <3>3, <3>4
  <2> QED
    BY <2>0, <2>1, <2>2
<1>7. Lists(g, n)'
  BY <1>5, <1>6 DEF Lists
<1>8. Matched(g, n)'
  <2>1. \A i \in DOMAIN bulks' : i \in 1..n /\ bulks'[i] = Sent'[g[i]].from
    BY <1>1, <1>3 DEF Matched
  <2>2. ASSUME NEW u \in Callers, pc[u] = "bulk" PROVE n = Len(bulks) + 1 /\ Sent'[g[n]].from = u
    <3>1. n = Len(bulks) + 1 /\ Sent[f[n]].from = u
      BY <1>1, <2>2 DEF Matched
    <3>2. n \in 1..n
      BY <1>0, <3>1
    <3> QED
      BY <1>3, <3>1, <3>2
  <2> QED
    BY <1>1, <2>1, <2>2 DEF Matched
<1> QED
  BY <1>4, <1>7, <1>8 DEF Paired

\* The oldest message leaves with the oldest transfer: they belong together.
LEMMA PairsReceived ==
  ASSUME Wires, Wires', Paired, Gone(1), HasBulk(Sent[1]), bulks # <<>>, bulks' = Tail(bulks),
         pc' = pc
  PROVE  Paired'
<1>0. Len(Sent) \in Nat /\ DOMAIN Sent = 1..Len(Sent) /\ Len(bulks) \in Nat
      /\ DOMAIN bulks = 1..Len(bulks)
  BY SentParts
<1>A. PICK n \in Nat : \E f \in [1..n -> DOMAIN Sent] : Lists(f, n) /\ Matched(f, n)
  BY DEF Paired
<1>1. PICK f \in [1..n -> DOMAIN Sent] : Lists(f, n) /\ Matched(f, n)
  BY <1>A
<1>2. /\ Len(bulks) >= 1 /\ Len(bulks') = Len(bulks) - 1 /\ DOMAIN bulks' = 1..(Len(bulks) - 1)
      /\ \A i \in DOMAIN bulks' : bulks'[i] = bulks[i + 1] /\ i + 1 \in DOMAIN bulks
  BY TailParts DEF Wires
<1>3. 1 \in 1..n /\ n >= 1
  <2>1. 1 \in DOMAIN bulks
    BY <1>0, <1>2
  <2>2. 1 \in 1..n
    BY <1>1, <2>1 DEF Matched
  <2> QED
    BY <2>2
<1>4. \A i \in 1..n : f[i] \in DOMAIN Sent /\ f[i] \in Int /\ f[i] >= 1
  BY <1>0
<1>5. f[1] = 1
  <2>1. PICK i \in 1..n : f[i] = 1
    BY <1>1 DEF Lists, Gone
  <2>2. CASE i = 1
    BY <2>1, <2>2
  <2>3. CASE i # 1
    <3>1. 1 < i
      BY <2>3
    <3>2. f[1] < f[i]
      BY <1>1, <1>3, <3>1 DEF Lists
    <3> QED
      BY <1>3, <1>4, <2>1, <3>2
  <2> QED
    BY <2>2, <2>3
<1>6. PICK g : g = [i \in 1..(n - 1) |-> f[i + 1] - 1]
  OBVIOUS
<1>7. ASSUME NEW i \in 1..(n - 1)
      PROVE  /\ i + 1 \in 1..n /\ g[i] = f[i + 1] - 1 /\ f[i + 1] \in Int
             /\ g[i] \in DOMAIN Sent' /\ Sent'[g[i]] = Sent[f[i + 1]]
  <2>1. i + 1 \in 1..n /\ 1 < i + 1
    BY <1>3
  <2>2. f[1] < f[i + 1]
    BY <1>1, <1>3, <2>1 DEF Lists
  <2>3. f[i + 1] \in DOMAIN Sent /\ f[i + 1] \in Int /\ f[i + 1] > 1
    BY <1>4, <1>5, <2>1, <2>2
  <2>4. f[i + 1] - 1 \in DOMAIN Sent' /\ Sent'[f[i + 1] - 1] = Sent[f[i + 1]]
    BY <2>3 DEF Gone
  <2> QED
    BY <1>6, <2>1, <2>3, <2>4
<1>8. g \in [1..(n - 1) -> DOMAIN Sent']
  BY <1>6, <1>7
<1>9. ASSUME NEW i \in 1..(n - 1), NEW j \in 1..(n - 1), i < j PROVE g[i] < g[j]
  <2>1. i + 1 \in 1..n /\ j + 1 \in 1..n /\ i + 1 < j + 1
    BY <1>7, <1>9
  <2>2. f[i + 1] < f[j + 1]
    BY <1>1, <2>1 DEF Lists
  <2>3. f[i + 1] \in Int /\ f[j + 1] \in Int /\ g[i] = f[i + 1] - 1 /\ g[j] = f[j + 1] - 1
    BY <1>7
  <2> QED
    BY <2>2, <2>3
<1>10. ASSUME NEW k \in DOMAIN Sent' PROVE HasBulk(Sent'[k]) <=> \E i \in 1..(n - 1) : g[i] = k
  <2>1. k \in Int /\ k >= 1 /\ k + 1 \in DOMAIN Sent /\ k + 1 > 1 /\ (k + 1) - 1 = k
    BY <1>0, <1>10 DEF Gone
  <2>2. Sent'[k] = Sent[k + 1]
    <3>1. Sent'[(k + 1) - 1] = Sent[k + 1]
      BY <2>1 DEF Gone
    <3> QED
      BY <2>1, <3>1
  <2>3. HasBulk(Sent[k + 1]) <=> \E i \in 1..n : f[i] = k + 1
    BY <1>1, <2>1 DEF Lists
  <2>4. ASSUME NEW i \in 1..n, f[i] = k + 1 PROVE \E j \in 1..(n - 1) : g[j] = k
    <3>1. i # 1
      BY <1>5, <2>1, <2>4
    <3>2. i - 1 \in 1..(n - 1) /\ (i - 1) + 1 = i
      BY <1>3, <3>1
    <3>3. g[i - 1] = f[(i - 1) + 1] - 1
      BY <1>7, <3>2
    <3>4. g[i - 1] = k
      BY <2>1, <2>4, <3>2, <3>3
    <3> QED
      BY <3>2, <3>4
  <2>5. ASSUME NEW j \in 1..(n - 1), g[j] = k PROVE \E i \in 1..n : f[i] = k + 1
    <3>1. j + 1 \in 1..n /\ f[j + 1] \in Int /\ k = f[j + 1] - 1
      BY <1>7, <2>5
    <3>2. f[j + 1] = k + 1
      BY <3>1
    <3> QED
      BY <3>1, <3>2
  <2> QED
    BY <2>2, <2>3, <2>4, <2>5
<1>11. Lists(g, n - 1)'
  BY <1>9, <1>10 DEF Lists
<1>12. Matched(g, n - 1)'
  <2>1. ASSUME NEW i \in DOMAIN bulks' PROVE i \in 1..(n - 1) /\ bulks'[i] = Sent'[g[i]].from
    <3>1. i + 1 \in DOMAIN bulks /\ bulks'[i] = bulks[i + 1] /\ i \in Int /\ i >= 1
      BY <1>0, <1>2, <2>1
    <3>2. i + 1 \in 1..n /\ bulks[i + 1] = Sent[f[i + 1]].from
      BY <1>1, <3>1 DEF Matched
    <3>3. i \in 1..(n - 1)
      BY <3>1, <3>2
    <3> QED
      BY <1>7, <3>1, <3>2, <3>3
  <2>2. (\A u \in Callers : pc[u] # "bulk") => n - 1 = Len(bulks')
    BY <1>1, <1>2 DEF Matched
  <2>3. ASSUME NEW u \in Callers, pc[u] = "bulk"
        PROVE  n - 1 = Len(bulks') + 1 /\ Sent'[g[n - 1]].from = u
    <3>1. n = Len(bulks) + 1 /\ Sent[f[n]].from = u
      BY <1>1, <2>3 DEF Matched
    <3>2. n - 1 \in 1..(n - 1) /\ (n - 1) + 1 = n
      BY <1>0, <1>2, <3>1
    <3>3. Sent'[g[n - 1]] = Sent[f[n]]
      BY <1>7, <3>2
    <3> QED
      BY <1>0, <1>2, <3>1, <3>3
  <2> QED
    BY <2>1, <2>2, <2>3 DEF Matched
<1>13. n - 1 \in Nat
  BY <1>3
<1> QED
  BY <1>8, <1>11, <1>12, <1>13 DEF Paired

\* The transfer of the last message goes.
LEMMA PairsSent ==
  ASSUME Wires, Wires', Paired, Owner, Same, NEW t \in Callers, pc[t] = "bulk", pc'[t] # "bulk",
         \A u \in Callers \ {t} : pc'[u] = pc[u], bulks' = Append(bulks, t)
  PROVE  Paired'
<1>0. Len(bulks) \in Nat /\ DOMAIN bulks = 1..Len(bulks)
  BY SentParts
<1>A. PICK n \in Nat : \E f \in [1..n -> DOMAIN Sent] : Lists(f, n) /\ Matched(f, n)
  BY DEF Paired
<1>1. PICK f \in [1..n -> DOMAIN Sent] : Lists(f, n) /\ Matched(f, n)
  BY <1>A
<1>2. n = Len(bulks) + 1 /\ Sent[f[n]].from = t
  BY <1>1 DEF Matched
<1>3. \A u \in Callers : pc'[u] # "bulk"
  BY DEF Owner
<1>4. /\ DOMAIN bulks' = 1..n /\ Len(bulks') = n /\ bulks'[n] = t
      /\ \A i \in DOMAIN bulks : bulks'[i] = bulks[i]
  BY <1>0, <1>2, AppendParts DEF Wires
<1>5. \A i \in DOMAIN bulks' : i \in 1..n /\ bulks'[i] = Sent[f[i]].from
  <2> SUFFICES ASSUME NEW i \in 1..n PROVE bulks'[i] = Sent[f[i]].from
    BY <1>4
  <2>1. CASE i = n
    BY <1>2, <1>4, <2>1
  <2>2. CASE i # n
    <3>1. i \in DOMAIN bulks
      BY <1>0, <1>2, <2>2
    <3> QED
      BY <1>1, <1>4, <3>1 DEF Matched
  <2> QED
    BY <2>1, <2>2
<1>6. f \in [1..n -> DOMAIN Sent'] /\ Lists(f, n)'
  BY <1>1 DEF Same, Lists
<1>7. Matched(f, n)'
  BY <1>3, <1>4, <1>5 DEF Matched, Same
<1> QED
  BY <1>6, <1>7 DEF Paired

\* The marks of the ports and the lock, as far as they are about the threads
Flagged(u) ==
  pc[u] \in Calling => /\ HasBulk(call[u]) => u \in sentData
                       /\ call[u].kind = "flush" => u \notin sentData

LEMMA ThreadMarks ==
  ASSUME StageInv, Owner, \A u \in Callers : Flagged(u), NEW t \in Callers, ThreadStep(t), Frame(t),
         ~broken'
  PROVE  Owner' /\ \A u \in Callers : Flagged(u)'
<1>0. Places /\ CallInv
  BY DEF StageInv, Types
<1>1. ASSUME UNCHANGED <<bulkLock, sentData>>, call'[t] = call[t] \/ pc'[t] \notin Calling,
             pc'[t] \in Calling => pc[t] \in Calling,
             pc'[t] \in {"getWaiter", "scan", "use", "queue", "bulk"} =>
               pc[t] \in {"getWaiter", "scan", "use", "queue", "bulk"},
             pc'[t] = "bulk" => pc[t] = "bulk"
      PROVE  Owner' /\ \A u \in Callers : Flagged(u)'
  BY <1>1 DEF Owner, Flagged, Frame, Calling
<1>2. CASE VCInit(t) \/ VCInitFails(t) \/ InitRelease(t) \/ ClaimVC(t) \/ VCDeinit(t)
  <2>1. UNCHANGED <<bulkLock, sentData, call>>
    BY <1>2 DEF VCInit, VCInitFails, InitRelease, ClaimVC, VCDeinit, locks, threads
  <2>2. pc'[t] \notin Calling
    BY <1>0, <1>2 DEF VCInit, VCInitFails, InitRelease, ClaimVC, VCDeinit, Places, threads, Calling
  <2> QED
    BY <1>1, <2>1, <2>2 DEF Calling
<1>3. CASE UnclaimVC(t)
  <2>1. bulkLock' = bulkLock /\ sentData' = sentData \ {t} /\ call' = call /\ pc'[t] \notin Calling
    BY <1>0, <1>3 DEF UnclaimVC, Places, Calling
  <2>2. Owner'
    BY <2>1 DEF Owner, Frame, Calling
  <2> QED
    BY <2>1, <2>2 DEF Flagged, Frame
<1>4. ASSUME NEW kind \in Kinds, Begin(t, kind),
             sentData' \in {sentData, sentData \cup {t}},
             kind \in {"data", "syncFlush"} => t \in sentData',
             kind = "flush" => t \notin sentData'
      PROVE  Owner' /\ \A u \in Callers : Flagged(u)'
  <2>1. /\ call'[t].kind = kind /\ bulkLock' = bulkLock /\ pc'[t] # "bulk"
        /\ pc'[t] \in {"getWaiter", "scan", "use", "queue", "bulk"} => kind \in {"request", "flush"}
    BY <1>0, <1>4 DEF Begin, Places
  <2>2. Owner'
    BY <2>1 DEF Owner, Frame, HasBulk
  <2> QED
    BY <1>4, <2>1, <2>2 DEF Flagged, Frame, HasBulk
<1>5. CASE SendData(t)
  BY <1>4, <1>5 DEF SendData, Kinds
<1>6. CASE Flush(t)
  BY <1>4, <1>6 DEF Flush, FlushKind, Kinds
<1>7. CASE Request(t)
  BY <1>4, <1>7 DEF Request, Kinds
<1>8. CASE LockBulk(t)
  <2>1. /\ bulkLock = None /\ bulkLock' = t /\ UNCHANGED <<sentData, call>> /\ pc[t] = "lockBulk"
        /\ pc'[t] # "bulk"
    BY <1>0, <1>8 DEF LockBulk, BulkFree, Places
  <2>2. Owner'
    BY <2>1, SetAssumption DEF Owner, Frame
  <2> QED
    BY <2>1, <2>2 DEF Flagged, Frame, Calling
<1>9. CASE ScanWaiters(t)
  <2>1. PICK w \in FreeWaiters : call' = [call EXCEPT ![t].waiter = w]
    BY <1>9 DEF ScanWaiters
  <2>2. UNCHANGED <<bulkLock, sentData>> /\ pc[t] = "scan" /\ pc'[t] = "use"
    BY <1>0, <1>9 DEF ScanWaiters, locks, Places
  <2>3. call'[t].kind = call[t].kind
    BY <1>0, <2>1, <2>2 DEF CallInv, Calling, Places, Messages
  <2>4. Owner'
    BY <2>2, <2>3 DEF Owner, Frame, HasBulk
  <2> QED
    BY <2>2, <2>3, <2>4 DEF Flagged, Frame, HasBulk, Calling
<1>10. CASE QueueMessage(t)
  <2>1. /\ UNCHANGED <<sentData, call>> /\ pc[t] = "queue"
        /\ bulkLock' = IF bulkLock = t /\ ~HasBulk(call[t]) THEN None ELSE bulkLock
        /\ pc'[t] = IF HasBulk(call[t]) THEN "bulk" ELSE AfterSend(t)
    BY <1>0, <1>10 DEF QueueMessage, KeepBulk, Places
  <2>2. Owner'
    BY <2>1 DEF Owner, Frame, AfterSend, Returned
  <2> QED
    BY <2>1, <2>2 DEF Flagged, Frame, Calling
<1>11. CASE QueueFails(t)
  <2>1. /\ UNCHANGED <<sentData, call>> /\ pc[t] = "queue"
        /\ bulkLock' = IF bulkLock = t THEN None ELSE bulkLock
        /\ pc'[t] = AfterFail(t)
    BY <1>0, <1>11 DEF QueueFails, Places
  <2>2. Owner'
    BY <2>1 DEF Owner, Frame, AfterFail, Returned
  <2> QED
    BY <2>1, <2>2 DEF Flagged, Frame, Calling
<1>12. CASE QueueBulk(t)
  <2>1. /\ UNCHANGED <<sentData, call>> /\ pc[t] = "bulk" /\ bulkLock' = None
        /\ pc'[t] = AfterSend(t)
    BY <1>0, <1>12 DEF QueueBulk, Places
  <2>2. bulkLock = t
    BY <2>1 DEF Owner
  <2>3. Owner'
    BY <2>1, <2>2 DEF Owner, Frame, AfterSend, Returned
  <2> QED
    BY <2>1, <2>3 DEF Flagged, Frame, Calling
<1>13. CASE GetWaiter(t) \/ UseForCall(t) \/ WaitReply(t) \/ UnuseForCall(t) \/ FreeWaiter(t)
            \/ PostWaiter(t)
  <2>1. UNCHANGED <<bulkLock, sentData, call>>
    BY <1>13 DEF GetWaiter, UseForCall, WaitReply, UnuseForCall, FreeWaiter, PostWaiter, locks
  <2>2. \/ pc[t] = "getWaiter" /\ pc'[t] = "scan"
        \/ pc[t] = "use" /\ pc'[t] = "queue"
        \/ pc[t] \in {"wait", "release", "free", "post"}
           /\ pc'[t] \in {"release", "free", "post", "deinit", "idle"}
    BY <1>0, <1>13 DEF GetWaiter, UseForCall, WaitReply, UnuseForCall, FreeWaiter, PostWaiter,
       Returned, Places
  <2> QED
    BY <1>1, <2>1, <2>2 DEF Calling
<1> QED
  BY <1>2, <1>3, <1>5, <1>6, <1>7, <1>8, <1>9, <1>10, <1>11, <1>12, <1>13 DEF ThreadStep, Continue

\* A thread adds a message at most, and a transfer at most.
LEMMA ThreadSends ==
  ASSUME StageInv, OwnCall, AskInv, Marked, Behind, Owner, Paired, NEW t \in Callers,
         ThreadStep(t), Frame(t), StageInv', ~broken'
  PROVE  Marked' /\ Behind' /\ Owner' /\ Paired'
<1>0. Wires /\ Wires' /\ Places /\ CallInv
  BY DEF StageInv, Types
<1>1. Owner' /\ \A u \in Callers : Flagged(u)'
  BY ThreadMarks DEF Marked, Flagged
<1>2. receiving' = receiving /\ requests' = requests
  BY DEF ThreadStep, Continue, VCInit, VCInitFails, InitRelease, ClaimVC, UnclaimVC, VCDeinit,
     SendData, Flush, Request, Begin, LockBulk, GetWaiter, ScanWaiters, UseForCall, QueueMessage,
     QueueFails, QueueBulk, WaitReply, UnuseForCall, FreeWaiter, PostWaiter, vc
<1>3. CASE QueueMessage(t)
  <2> DEFINE m == call[t]
  <2>1. wire' = Append(wire, m) /\ UNCHANGED <<sentData, bulks>> /\ pc[t] = "queue"
        /\ pc'[t] = IF HasBulk(m) THEN "bulk" ELSE AfterSend(t)
    BY <1>0, <1>3 DEF QueueMessage, Places
  <2>2. m \in Messages /\ m.from = t /\ (HasBulk(m) => t \in sentData)
    BY <1>0, <2>1 DEF CallInv, OwnCall, Calling, Marked
  <2>3. Added(m)
    BY <1>0, <1>2, <2>1, <2>2, Adds
  <2>4. AfterSend(t) # "bulk"
    BY DEF AfterSend, Returned
  <2> HIDE DEF m
  <2>5. Marked'
    <3>1. \A i \in DOMAIN Sent' : HasBulk(Sent'[i]) => Sent'[i].from \in sentData'
      BY <2>1, <2>2, <2>3 DEF Marked, Added
    <3> QED
      BY <1>1, <1>2, <3>1 DEF Marked, Flagged
  <2>6. ASSUME NEW n \in Asked PROVE n.from # t
    BY <2>1, <2>6 DEF AskInv
  <2>7. \A i \in DOMAIN Sent : Sent[i].kind = "syncFlush" => Sent[i].from # t
    <3> SUFFICES ASSUME NEW i \in DOMAIN Sent, Sent[i].kind = "syncFlush" PROVE Sent[i].from # t
      OBVIOUS
    <3>1. Sent[i] \in Range(wire) \cup Range(receiving)
      BY <1>0, InSent
    <3>2. Sent[i] \in Asked
      BY <3>1 DEF Asked, Waits
    <3> QED
      BY <2>6, <3>2
  <2>8. Behind'
    <3>1. ASSUME NEW i \in DOMAIN Sent', NEW j \in DOMAIN Sent', i < j,
                 Sent'[i].kind = "syncFlush"
          PROVE  Sent'[j].from # Sent'[i].from
      <4>1. i \in DOMAIN Sent /\ Sent'[i] = Sent[i]
        <5>1. i \in Int /\ j \in Int /\ DOMAIN Sent = 1..Len(Sent) /\ Len(Sent) \in Nat
              /\ (j \in DOMAIN Sent \/ j = Len(Sent) + 1)
              /\ (i \in DOMAIN Sent \/ i = Len(Sent) + 1)
          BY <1>0, <2>3, <3>1, SentParts DEF Added
        <5>2. i # Len(Sent) + 1
          BY <3>1, <5>1
        <5> QED
          BY <2>3, <5>1, <5>2 DEF Added
      <4>2. CASE j \in DOMAIN Sent
        BY <2>3, <3>1, <4>1, <4>2 DEF Behind, Added
      <4>3. CASE j \notin DOMAIN Sent
        BY <2>2, <2>3, <2>7, <3>1, <4>1, <4>3 DEF Added
      <4> QED
        BY <4>2, <4>3
    <3>2. ASSUME NEW r \in requests', r.kind = "syncFlush", NEW j \in DOMAIN Sent'
          PROVE  Sent'[j].from # r.from
      <4>1. r \in requests /\ r \in Asked
        BY <1>2, <3>2 DEF Asked
      <4>2. CASE j \in DOMAIN Sent
        BY <2>3, <3>2, <4>1, <4>2 DEF Behind, Added
      <4>3. CASE j \notin DOMAIN Sent
        BY <2>2, <2>3, <2>6, <3>2, <4>1, <4>3 DEF Added
      <4> QED
        BY <4>2, <4>3
    <3> QED
      BY <3>1, <3>2 DEF Behind
  <2>9. Paired'
    <3>1. CASE HasBulk(m)
      <4>1. bulkLock = t
        BY <2>1, <3>1 DEF Owner, m
      <4>2. \A u \in Callers : pc[u] # "bulk"
        BY <2>1, <4>1 DEF Owner
      <4>3. \A u \in Callers : pc'[u] = "bulk" <=> u = t
        BY <2>1, <3>1, <4>2 DEF Frame
      <4> QED
        BY <1>0, <2>1, <2>2, <2>3, <3>1, <4>2, <4>3, PairsAdded
    <3>2. CASE ~HasBulk(m)
      <4>1. \A u \in Callers : pc'[u] = "bulk" <=> pc[u] = "bulk"
        BY <2>1, <2>4, <3>2 DEF Frame
      <4> QED
        BY <1>0, <2>1, <2>2, <2>3, <3>2, <4>1, PairsPlain
    <3> QED
      BY <3>1, <3>2
  <2> QED
    BY <1>1, <2>5, <2>8, <2>9
<1>4. CASE ~QueueMessage(t)
  <2>1. wire' = wire
    BY <1>4 DEF ThreadStep, Continue, VCInit, VCInitFails, InitRelease, ClaimVC, UnclaimVC,
       VCDeinit, SendData, Flush, Request, Begin, LockBulk, GetWaiter, ScanWaiters, UseForCall,
       QueueFails, QueueBulk, WaitReply, UnuseForCall, FreeWaiter, PostWaiter, vc
  <2>2. Same
    BY <1>2, <2>1 DEF Same, Sent
  <2>3. \A i \in DOMAIN Sent : Sent[i].from \in sentData => Sent[i].from \in sentData'
    <3>1. CASE UnclaimVC(t)
      BY <3>1 DEF UnclaimVC, InFlight
    <3>2. CASE ~UnclaimVC(t)
      <4>1. sentData \subseteq sentData'
        BY <1>4, <3>2 DEF ThreadStep, Continue, VCInit, VCInitFails, InitRelease, ClaimVC,
           VCDeinit, SendData, Flush, Request, Begin, LockBulk, GetWaiter, ScanWaiters, UseForCall,
           QueueFails, QueueBulk, WaitReply, UnuseForCall, FreeWaiter, PostWaiter, locks
      <4> QED
        BY <4>1
    <3> QED
      BY <3>1, <3>2
  <2>4. Marked'
    BY <1>1, <1>2, <2>2, <2>3 DEF Marked, Flagged, Same
  <2>5. Behind'
    BY <1>2, <2>2 DEF Behind, Same
  <2>6. Paired'
    <3>1. CASE QueueBulk(t)
      <4>1. pc[t] = "bulk" /\ pc'[t] = AfterSend(t) /\ bulks' = Append(bulks, t)
        BY <1>0, <3>1 DEF QueueBulk, Places
      <4>2. pc'[t] # "bulk" /\ \A u \in Callers \ {t} : pc'[u] = pc[u]
        BY <4>1 DEF AfterSend, Returned, Frame
      <4> QED
        BY <1>0, <2>2, <4>1, <4>2, PairsSent
    <3>2. CASE ~QueueBulk(t)
      <4>1. bulks' = bulks
        BY <1>4, <3>2 DEF ThreadStep, Continue, VCInit, VCInitFails, InitRelease, ClaimVC,
           UnclaimVC, VCDeinit, SendData, Flush, Request, Begin, LockBulk, GetWaiter, ScanWaiters,
           UseForCall, QueueFails, WaitReply, UnuseForCall, FreeWaiter, PostWaiter, vc
      <4>2. pc'[t] # "bulk" /\ pc[t] # "bulk"
        BY <1>0, <1>4, <3>2 DEF ThreadStep, Continue, VCInit, VCInitFails, InitRelease, ClaimVC,
           UnclaimVC, VCDeinit, SendData, Flush, Request, Begin, LockBulk, GetWaiter, ScanWaiters,
           UseForCall, QueueFails, WaitReply, UnuseForCall, FreeWaiter, PostWaiter, Returned,
           AfterFail, Places, threads
      <4> QED
        BY <1>0, <2>2, <4>1, <4>2, PairsStay DEF Frame
    <3> QED
      BY <3>1, <3>2
  <2> QED
    BY <1>1, <2>4, <2>5, <2>6
<1> QED
  BY <1>3, <1>4

\* What is left when the message at p has gone, and in which order
LEMMA GoneFrom ==
  ASSUME Wires, NEW p \in DOMAIN Sent, Gone(p), NEW j \in DOMAIN Sent'
  PROVE  \E k \in DOMAIN Sent : /\ k # p /\ Sent'[j] = Sent[k]
                                /\ (k < p /\ k = j) \/ (k > p /\ k = j + 1)
<1>0. Len(Sent) \in Nat /\ DOMAIN Sent = 1..Len(Sent) /\ DOMAIN Sent' = 1..(Len(Sent) - 1)
  BY SentParts DEF Gone
<1>1. CASE j < p
  <2>1. j \in DOMAIN Sent
    BY <1>0
  <2> QED
    BY <1>0, <1>1, <2>1 DEF Gone
<1>2. CASE j >= p
  <2>1. j + 1 \in DOMAIN Sent /\ j + 1 > p /\ (j + 1) - 1 = j
    BY <1>0, <1>2
  <2>2. Sent'[(j + 1) - 1] = Sent[j + 1]
    BY <2>1 DEF Gone
  <2>3. Sent'[j] = Sent[j + 1] /\ j + 1 # p
    BY <1>0, <2>1, <2>2
  <2> QED
    BY <2>1, <2>3
<1> QED
  BY <1>0, <1>1, <1>2

LEMMA BehindGone ==
  ASSUME Wires, Behind, NEW p \in DOMAIN Sent, Gone(p), requests' \subseteq requests \cup {Sent[p]},
         Sent[p].kind = "syncFlush" => p = 1
  PROVE  Behind'
<1>0. DOMAIN Sent = 1..Len(Sent) /\ Len(Sent) \in Nat /\ DOMAIN Sent' = 1..(Len(Sent) - 1)
  BY SentParts DEF Gone
<1>1. ASSUME NEW i \in DOMAIN Sent', NEW j \in DOMAIN Sent', i < j, Sent'[i].kind = "syncFlush"
      PROVE  Sent'[j].from # Sent'[i].from
  <2>1. PICK k \in DOMAIN Sent : /\ k # p /\ Sent'[i] = Sent[k]
                                 /\ (k < p /\ k = i) \/ (k > p /\ k = i + 1)
    BY GoneFrom
  <2>2. PICK l \in DOMAIN Sent : /\ l # p /\ Sent'[j] = Sent[l]
                                 /\ (l < p /\ l = j) \/ (l > p /\ l = j + 1)
    BY GoneFrom
  <2>3. k < l
    BY <1>0, <1>1, <2>1, <2>2
  <2> QED
    BY <1>1, <2>1, <2>2, <2>3 DEF Behind
<1>2. ASSUME NEW m \in requests', m.kind = "syncFlush", NEW j \in DOMAIN Sent'
      PROVE  Sent'[j].from # m.from
  <2>1. PICK k \in DOMAIN Sent : k # p /\ Sent'[j] = Sent[k]
    BY GoneFrom
  <2>2. CASE m \in requests
    BY <1>2, <2>1, <2>2 DEF Behind
  <2>3. CASE m = Sent[p]
    <3>1. p < k
      BY <1>0, <1>2, <2>1, <2>3
    <3> QED
      BY <1>2, <2>1, <2>3, <3>1 DEF Behind
  <2> QED
    BY <1>2, <2>2, <2>3
<1> QED
  BY <1>1, <1>2 DEF Behind

LEMMA VCSends ==
  ASSUME StageInv, StageInv', Marked, Behind, Owner, Paired,
         VCTake \/ VCReceive \/ (\E m \in requests : Reply(m))
  PROVE  Marked' /\ Behind' /\ Owner' /\ Paired'
<1>0. Wires /\ Wires'
  BY DEF StageInv, Types
<1>1. UNCHANGED <<pc, call, bulkLock, sentData>> /\ Owner'
  BY DEF VCTake, VCReceive, Reply, threads, locks, Owner
<1>2. ASSUME \A i \in DOMAIN Sent' : \E k \in DOMAIN Sent : Sent'[i] = Sent[k],
             \A i \in DOMAIN receiving' : HasBulk(receiving'[i])
      PROVE  Marked'
  BY <1>1, <1>2 DEF Marked
<1>3. CASE VCTake
  <2> DEFINE p == Len(receiving) + 1
  <2>1. /\ p \in DOMAIN Sent /\ Sent[p] = Head(wire)
        /\ HasBulk(Sent[p]) => Same /\ requests' = requests
        /\ ~HasBulk(Sent[p]) => Gone(p) /\ receiving' = receiving
                                /\ requests' = requests \cup {Sent[p]}
    BY <1>0, <1>3, Takes
  <2>2. bulks' = bulks /\ pc' = pc
    BY <1>3 DEF VCTake, threads
  <2>3. CASE HasBulk(Sent[p])
    <3>1. receiving' = Append(receiving, Sent[p]) /\ Sent[p] \in Messages
      BY <1>0, <1>3, <2>1, <2>3, SentParts DEF VCTake
    <3>2. \A i \in DOMAIN receiving' : HasBulk(receiving'[i])
      BY <1>0, <2>3, <3>1, AppendParts DEF Marked, Wires
    <3>3. Marked'
      BY <1>2, <2>1, <2>3, <3>2 DEF Same
    <3>4. Behind'
      BY <2>1, <2>3 DEF Behind, Same
    <3> QED
      BY <1>0, <1>1, <2>1, <2>2, <2>3, <3>3, <3>4, PairsStay
  <2>4. CASE ~HasBulk(Sent[p])
    <3> HIDE DEF p
    <3>1. \A i \in DOMAIN Sent' : \E k \in DOMAIN Sent : Sent'[i] = Sent[k]
      BY <1>0, <2>1, <2>4, GoneFrom
    <3>2. Marked'
      BY <1>2, <2>1, <2>4, <3>1 DEF Marked
    <3>3. Behind'
      BY <1>0, <2>1, <2>4, BehindGone DEF HasBulk
    <3> QED
      BY <1>0, <1>1, <2>1, <2>2, <2>4, <3>2, <3>3, PairsGone
  <2> QED
    BY <2>3, <2>4
<1>4. CASE VCReceive
  <2>1. /\ 1 \in DOMAIN Sent /\ Sent[1] = Head(receiving) /\ HasBulk(Sent[1]) /\ Gone(1)
        /\ \A i \in DOMAIN receiving' : i + 1 \in DOMAIN receiving /\ receiving'[i] = receiving[i + 1]
    BY <1>0, <1>4, Receives DEF Marked
  <2>2. bulks # <<>> /\ bulks' = Tail(bulks) /\ pc' = pc
        /\ requests' \subseteq requests \cup {Sent[1]}
    BY <1>4, <2>1 DEF VCReceive, threads
  <2>3. \A i \in DOMAIN Sent' : \E k \in DOMAIN Sent : Sent'[i] = Sent[k]
    BY <1>0, <2>1, GoneFrom
  <2>4. Marked'
    BY <1>2, <2>1, <2>3 DEF Marked
  <2>5. Behind'
    BY <1>0, <2>1, <2>2, BehindGone
  <2>6. Paired'
    BY <1>0, <2>1, <2>2, PairsReceived
  <2> QED
    BY <1>1, <2>4, <2>5, <2>6
<1>5. CASE \E m \in requests : Reply(m)
  <2>1. UNCHANGED <<wire, receiving, bulks, pc>> /\ requests' \subseteq requests
    BY <1>5 DEF Reply, threads
  <2>2. Same
    BY <2>1 DEF Same, Sent
  <2>3. Marked'
    BY <1>2, <2>1, <2>2 DEF Same, Marked
  <2>4. Behind'
    BY <2>1, <2>2 DEF Behind, Same
  <2> QED
    BY <1>0, <1>1, <2>1, <2>2, <2>3, <2>4, PairsStay
<1> QED
  BY <1>3, <1>4, <1>5

LEMMA SentInvInit == Init => SentInv
<1> SUFFICES ASSUME Init PROVE Marked /\ Behind /\ Owner /\ Paired
  BY DEF SentInv
<1>1. Sent = <<>> /\ DOMAIN Sent = {} /\ DOMAIN receiving = {} /\ DOMAIN bulks = {} /\ Len(bulks) = 0
  BY DEF Init, Sent
<1>2. Marked /\ Behind /\ Owner
  BY <1>1 DEF Init, Marked, Behind, Owner, Calling
<1>3. Paired
  <2>1. PICK f : f = [i \in 1..0 |-> i]
    OBVIOUS
  <2>2. f \in [1..0 -> DOMAIN Sent] /\ Lists(f, 0)
    BY <1>1, <2>1 DEF Lists
  <2>3. Matched(f, 0)
    BY <1>1 DEF Init, Matched
  <2> QED
    BY <2>2, <2>3 DEF Paired
<1> QED
  BY <1>2, <1>3

LEMMA SentInvNext == IInv /\ ReplyInv /\ SentInv /\ [Next]_vars => SentInv'
<1> SUFFICES ASSUME IInv, ReplyInv, SentInv, [Next]_vars, ~broken'
             PROVE  Marked' /\ Behind' /\ Owner' /\ Paired'
  BY DEF SentInv
<1>0. StageInv /\ Distinct /\ RefInv /\ StageInv'
  BY IInvNext DEF IInv
<1>1. ~broken
  BY <1>0 DEF Next, Continue, VCInit, VCInitFails, InitRelease, ClaimVC, UnclaimVC, VCDeinit,
     SendData, Flush, Request, Begin, LockBulk, GetWaiter, ScanWaiters, UseForCall, QueueMessage,
     QueueFails, QueueBulk, WaitReply, UnuseForCall, FreeWaiter, PostWaiter, VCTake, VCReceive,
     Reply, Stopped, vars
<1>2. Marked /\ Behind /\ Owner /\ Paired /\ OwnCall /\ AskInv
  BY <1>1 DEF SentInv, ReplyInv
<1>3. ASSUME NEW t \in Callers, ThreadStep(t) PROVE Marked' /\ Behind' /\ Owner' /\ Paired'
  <2>1. Frame(t)
    BY <1>0, <1>3, ThreadStage
  <2> QED
    BY <1>0, <1>2, <1>3, <2>1, ThreadSends
<1>4. CASE VCTake \/ VCReceive \/ (\E m \in requests : Reply(m))
  BY <1>0, <1>2, <1>4, VCSends
<1>5. CASE UNCHANGED vars
  <2> USE <1>5 DEF vars, threads, locks, vc
  <2>1. Same
    BY DEF Same, Sent
  <2>2. Marked' /\ Behind' /\ Owner'
    BY <1>2, <2>1 DEF Marked, Behind, Owner, Same
  <2>3. Wires
    BY <1>0 DEF StageInv, Types
  <2> QED
    BY <1>2, <2>1, <2>2, <2>3, PairsStay
<1> QED
  BY <1>3, <1>4, <1>5 DEF Next, ThreadStep, Stopped

LEMMA SentAlways == Spec => [](IInv /\ ReplyInv /\ SentInv)
<1>1. Spec => []ReplyInv
  BY ReplyInvInit, ReplyInvNext, Invariant, PTL DEF Spec
<1>2. Spec => []SentInv
  BY <1>1, SentInvInit, SentInvNext, Invariant, PTL DEF Spec
<1> QED
  BY <1>1, <1>2, Invariant, PTL

\* The first i of the places that f lists are i.
LEMMA CountListed ==
  ASSUME NEW n \in Nat, NEW f \in [1..n -> DOMAIN Sent], Lists(f, n), Wires, NEW i \in 0..n
  PROVE  Cardinality({f[k] : k \in 1..i}) = i
<1> DEFINE S == {f[k] : k \in 1..i}
           g == [k \in 1..i |-> f[k]]
<1>1. DOMAIN Sent \subseteq Int
  BY SentParts
<1>2. \A k \in 1..i : k \in 1..n /\ f[k] \in Int
  BY <1>1
<1>3. \A k, l \in 1..i : f[k] = f[l] => k = l
  <2> SUFFICES ASSUME NEW k \in 1..i, NEW l \in 1..i, k < l PROVE f[k] # f[l]
    <3>1. \A k, l \in 1..i : k < l \/ l < k \/ k = l
      OBVIOUS
    <3> QED
      BY <3>1
  <2>1. f[k] < f[l]
    BY <1>2 DEF Lists
  <2> QED
    BY <1>2, <2>1
<1>4. g \in Bijection(1..i, S)
  BY <1>3 DEF Bijection, Injection, Surjection, IsInjective
<1> HIDE DEF S, g
<1>5. ExistsBijection(1..i, S)
  BY <1>4 DEF ExistsBijection
<1>6. i \in Nat
  OBVIOUS
<1>7. Cardinality(S) = i
  BY <1>5, <1>6, FS_CountingElements
<1> QED
  BY <1>7 DEF S

\* The n-th bulk transfer that VideoCore reads is the one of the n-th message that
\* announced one, however the threads' messages and transfers interleave: bulk_lock
\* is held from the message to its transfer (mmal_vc_send_message,
\* mmal_vc_sendwait_message).
THEOREM TransfersMatch == Spec => []BulkPaired
<1>1. IInv /\ SentInv => BulkPaired
  <2> SUFFICES ASSUME IInv, SentInv, ~broken PROVE BulkPaired
    BY DEF BulkPaired
  <2>0. Wires /\ Paired
    BY DEF IInv, StageInv, Types, SentInv
  <2>A. PICK n \in Nat : \E f \in [1..n -> DOMAIN Sent] : Lists(f, n) /\ Matched(f, n)
    BY <2>0 DEF Paired
  <2>1. PICK f \in [1..n -> DOMAIN Sent] : Lists(f, n) /\ Matched(f, n)
    BY <2>A
  <2>2. DOMAIN Sent = 1..Len(Sent) /\ Len(Sent) \in Nat /\ Len(bulks) \in Nat
    BY <2>0, SentParts
  <2>3. \A k \in 1..n : f[k] \in DOMAIN Sent /\ HasBulk(Sent[f[k]])
    BY <2>1 DEF Lists
  <2>4. ASSUME NEW i \in 1..n PROVE Announcing(f[i]) = {f[k] : k \in 1..i}
    <3>1. ASSUME NEW k \in 1..i PROVE f[k] \in Announcing(f[i])
      <4>1. k \in 1..n /\ (k < i \/ k = i)
        OBVIOUS
      <4>2. f[k] <= f[i]
        BY <2>1, <2>2, <2>3, <4>1 DEF Lists
      <4> QED
        BY <2>2, <2>3, <4>1, <4>2 DEF Announcing
    <3>2. ASSUME NEW j \in Announcing(f[i]) PROVE \E k \in 1..i : f[k] = j
      <4>1. j \in DOMAIN Sent /\ HasBulk(Sent[j]) /\ j <= f[i]
        BY <2>2, <2>3, <3>2 DEF Announcing
      <4>2. PICK k \in 1..n : f[k] = j
        BY <2>1, <4>1 DEF Lists
      <4>3. k <= i
        <5>1. k > i => f[i] < f[k]
          BY <2>1 DEF Lists
        <5> QED
          BY <2>2, <2>3, <4>1, <4>2, <5>1
      <4> QED
        BY <4>2, <4>3
    <3> QED
      BY <3>1, <3>2
  <2>5. Announcing(Len(Sent)) = {f[k] : k \in 1..n}
    BY <2>1, <2>2, <2>3 DEF Announcing, Lists
  <2>6. Len(bulks) <= n
    <3>0. DOMAIN bulks = 1..Len(bulks)
      BY <2>0, SentParts
    <3>1. Len(bulks) = 0 \/ Len(bulks) \in DOMAIN bulks
      BY <2>2, <3>0
    <3>2. Len(bulks) \in DOMAIN bulks => Len(bulks) \in 1..n
      BY <2>1 DEF Matched
    <3> QED
      BY <3>1, <3>2
  <2>7. Cardinality(Announcing(Len(Sent))) = n
    BY <2>0, <2>1, <2>5, CountListed
  <2>8. ASSUME NEW j \in DOMAIN Sent, HasBulk(Sent[j]), Cardinality(Announcing(j)) \in DOMAIN bulks
        PROVE  bulks[Cardinality(Announcing(j))] = Sent[j].from
    <3>1. PICK i \in 1..n : f[i] = j
      BY <2>1, <2>8 DEF Lists
    <3>2. i \in 0..n
      OBVIOUS
    <3>3. Cardinality({f[k] : k \in 1..i}) = i
      BY <2>0, <2>1, <3>2, CountListed
    <3>4. Cardinality(Announcing(j)) = i
      BY <2>4, <3>1, <3>3
    <3> QED
      BY <2>1, <2>8, <3>1, <3>4 DEF Matched
  <2> QED
    BY <2>6, <2>7, <2>8 DEF BulkPaired
<1> QED
  BY <1>1, SentAlways, PTL

\* VideoCore handles no flush of a port while it has still to receive data that were
\* sent to that port before (the comment in mmal_vc_port_flush): if there are any the
\* flush is one with a transfer, which comes after theirs.
THEOREM FlushesBehind == Spec => []FlushAfterData
<1>1. IInv /\ ReplyInv /\ SentInv => FlushAfterData
  <2> SUFFICES ASSUME IInv, ReplyInv, SentInv, ~broken, NEW m \in requests,
                      m.kind \in {"flush", "syncFlush"}, NEW i \in DOMAIN receiving
               PROVE  receiving[i].from # m.from
    BY DEF FlushAfterData
  <2>0. Wires /\ Marked /\ Behind /\ AskInv
    BY DEF IInv, StageInv, Types, SentInv, ReplyInv
  <2>1. i \in DOMAIN Sent /\ Sent[i] = receiving[i] /\ HasBulk(receiving[i])
    BY <2>0, SentParts DEF Marked
  <2>2. CASE m.kind = "syncFlush"
    BY <2>0, <2>1, <2>2 DEF Behind
  <2>3. CASE m.kind = "flush"
    <3>1. m \in Asked /\ m.from \in Callers
      BY <2>0 DEF Asked, Wires, Messages
    <3>2. pc[m.from] \in Calling /\ call[m.from] = m
      BY <2>0, <3>1 DEF AskInv, Calling
    <3>3. m.from \notin sentData
      BY <2>0, <2>3, <3>1, <3>2 DEF Marked
    <3>4. receiving[i].from \in sentData
      BY <2>0, <2>1 DEF Marked
    <3> QED
      BY <3>3, <3>4
  <2> QED
    BY <2>2, <2>3
<1> QED
  BY <1>1, SentAlways, PTL
=============================================================================
