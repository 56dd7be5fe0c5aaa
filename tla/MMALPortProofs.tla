--------------------------- MODULE MMALPortProofs ----------------------------
(***************************************************************************)
(* Theorems about MMALPort for every set of threads and headers: where the *)
(* headers are, how many the port counts, and who may wait for whom.       *)
(***************************************************************************)
EXTENDS MMALPort, SequenceFacts

\* What a thread is about besides the callback it runs
Stage(t) == IF back[t] = "idle" THEN pc[t] ELSE back[t]

InClient == {"call", "callback", "return"}

Resting == {"idle", "loop", "drain", "drainFailed", "flushQueue", "chain"}

\* A thread has a header to send, a header whose callback it runs, and a place to
\* go back to exactly where its code uses them.
Frames ==
  \A t \in Threads :
    /\ hand[t] # None <=> pc[t] \in Sending
    /\ pc[t] \in InClient => cur[t] # None
    /\ cur[t] # None => pc[t] \in InClient \cup Sending /\ back[t] # "idle"
    /\ pc[t] \in {"event", "eventCall"} => back[t] # "idle"
    /\ back[t] # "idle" => pc[t] \in {"event", "eventCall"} \/ cur[t] # None
    /\ back[t] \in Resting
    /\ chain[t] # <<>> => Stage(t) = "chain"

\* TypeOK, with a count in transit that may yet be negative
FlagTypes ==
  /\ isEnabled \in BOOLEAN /\ isPaused \in BOOLEAN /\ callback \in BOOLEAN
  /\ hasPool \in BOOLEAN /\ crashed \in BOOLEAN
  /\ transit \in Int /\ events \in 0..MaxEvents
  /\ {connLock, sendLock, actLock} \subseteq Threads \cup {None}

ThreadTypes ==
  /\ pc \in [Threads -> Labels] /\ back \in [Threads -> Labels]
  /\ cur \in [Threads -> Buffers \cup {None}] /\ hand \in [Threads -> Buffers \cup {None}]
  /\ chain \in [Threads -> Seq(Buffers)]

HeaderTypes ==
  /\ queue \in Seq(Buffers) /\ done \in Seq(Buffers \cup {Event})
  /\ component \subseteq Buffers /\ client \subseteq Buffers

Types == FlagTypes /\ ThreadTypes /\ HeaderTypes

\* Where the code holds each lock
Holding     == {"count", "pass", "uncount", "pfFlush"}
Dispatching == {"loop", "pfDisable", "drain", "drainFailed", "flushSecond", "pfFlush"}
Emptying    == {"disableLock", "pfDisable", "drain", "drainFailed", "restore", "flushQueue"}
Connecting  == {"enable", "setEnabled", "disable", "wait"} \cup Emptying

LockInv ==
  \A t \in Threads :
    /\ sendLock = t <=> pc[t] \in Holding
    /\ actLock = t => Stage(t) \in Dispatching
    /\ Stage(t) \in Connecting => connLock = t

\* What the port's flags say about its headers and about the call in progress
Flags ==
  /\ isEnabled => callback
  /\ isEnabled /\ hasPool /\ ~isPaused => queue = <<>>
  /\ ~isEnabled => queue = <<>> \/ \E t \in Threads : Stage(t) \in Emptying
  /\ \A t \in Threads :
       /\ Stage(t) \in Connecting => callback
       /\ Stage(t) \in Connecting \ {"disable"} => ~isEnabled
       /\ Stage(t) \in {"enable", "setEnabled", "wait"} => queue = <<>>
       /\ Stage(t) \in {"drain", "drainFailed", "restore", "flushQueue", "wait"} => ~hasPool
       /\ pc[t] \in {"count", "pass", "uncount"} => isEnabled

Control == Types /\ Frames /\ LockInv /\ Flags

-----------------------------------------------------------------------------
(* The two steps in which a flush takes its locks                           *)

LEMMA FlushLocks ==
  ASSUME NEW t, FlushLock(t)
  PROVE  /\ ~crashed /\ UNCHANGED <<port, headers, connLock, calls, crashed>>
         /\ \/ pc[t] = "flushFirst" /\ actLock = None /\ actLock' = t /\ sendLock' = sendLock
               /\ pc' = [pc EXCEPT ![t] = "flushSecond"]
            \/ pc[t] = "flushSecond" /\ sendLock = None /\ sendLock' = t /\ actLock' = actLock
               /\ pc' = [pc EXCEPT ![t] = "pfFlush"]
<1>1. PICK i \in 1..2 :
        /\ At(t, FlushAt[i]) /\ Goto(t, FlushAt[i + 1])
        /\ \/ FlushOrder[i] = "action" /\ actLock = None /\ actLock' = t /\ UNCHANGED sendLock
           \/ FlushOrder[i] = "send" /\ sendLock = None /\ sendLock' = t /\ UNCHANGED actLock
  BY DEF FlushLock
<1>2. i = 1 \/ i = 2
  OBVIOUS
<1>3. UNCHANGED <<port, headers, connLock, calls, crashed>>
  BY DEF FlushLock
<1>4. /\ FlushAt[1] = "flushFirst" /\ FlushAt[2] = "flushSecond" /\ FlushAt[3] = "pfFlush"
      /\ FlushOrder[1] = "action" /\ FlushOrder[2] = "send"
  BY DEF FlushAt, FlushOrder
<1>5. CASE i = 1
  <2>1. /\ At(t, "flushFirst") /\ Goto(t, "flushSecond") /\ actLock = None /\ actLock' = t
        /\ UNCHANGED sendLock
    BY <1>1, <1>4, <1>5
  <2> QED
    BY <2>1, <1>3 DEF At, Goto
<1>6. CASE i = 2
  <2>1. /\ At(t, "flushSecond") /\ Goto(t, "pfFlush") /\ sendLock = None /\ sendLock' = t
        /\ UNCHANGED actLock
    BY <1>1, <1>4, <1>6
  <2> QED
    BY <2>1, <1>3 DEF At, Goto
<1> QED
  BY <1>2, <1>5, <1>6

\* Resuming sends the first n headers of the queue.
LEMMA ResumeParts ==
  ASSUME NEW T, NEW s \in Seq(T), NEW n \in 0..Len(s)
  PROVE  /\ SubSeq(s, n + 1, Len(s)) \in Seq(T) /\ Len(s) \in Nat
         /\ Len(SubSeq(s, n + 1, Len(s))) = Len(s) - n
         /\ \A i \in 1..(Len(s) - n) : SubSeq(s, n + 1, Len(s))[i] = s[i + n]
            /\ i + n \in DOMAIN s
         /\ \A i \in 1..n : i \in DOMAIN s /\ s[i] \in T
         /\ \A i \in DOMAIN s : i \in 1..n \/ i - n \in 1..(Len(s) - n)
OBVIOUS

LEMMA EmptySeq ==
  ASSUME NEW T, NEW B
  PROVE  <<>> \in Seq(T) /\ Range(<<>>) = {} /\ OnceIn(<<>>, B)
<1>1. <<>> \in Seq(T) /\ DOMAIN <<>> = {}
  OBVIOUS
<1>2. Range(<<>>) = {}
  BY <1>1 DEF Range
<1> QED
  BY <1>1, <1>2 DEF OnceIn

LEMMA ThreadsAre ==
  /\ Action \in Threads /\ None \notin Threads /\ None \notin Buffers /\ Event \notin Buffers
  /\ Event # None /\ Clients \subseteq Threads /\ Controllers \subseteq Threads
  /\ Action \notin Controllers /\ MaxEvents \in Nat
  /\ IsFiniteSet(Threads) /\ IsFiniteSet(Buffers)
BY PortThreads, PortHeaders DEF Threads

\* connection_lock keeps the threads that enable and disable the port apart.
LEMMA Connected ==
  ASSUME Control
  PROVE  \A t, u \in Threads : Stage(t) \in Connecting /\ Stage(u) \in Connecting => t = u
BY DEF Control, LockInv

\* A thread that is not in a callback has no place to go back to.
LEMMA Unnested ==
  ASSUME Control
  PROVE  \A t \in Threads :
           pc[t] \notin InClient \cup Sending \cup {"event", "eventCall"} => Stage(t) = pc[t]
               /\ back[t] = "idle"
BY DEF Control, Frames, Stage

\* Where such a thread is after it has gone on to s
LEMMA GoesUnnested ==
  ASSUME ThreadTypes, NEW t \in Threads, back[t] = "idle", back' = back,
         NEW s, pc' = [pc EXCEPT ![t] = s]
  PROVE  Stage(t)' = s /\ pc'[t] = s
BY DEF Stage, ThreadTypes

\* A step that neither begins nor ends a connection and leaves the flags alone
LEMMA StillFlagged ==
  ASSUME Flags, UNCHANGED <<isEnabled, isPaused, callback, queue, hasPool>>,
         \A t \in Threads :
           Stage(t) \in Connecting \/ Stage(t)' \in Connecting => Stage(t)' = Stage(t),
         \A t \in Threads : pc'[t] \in {"count", "pass", "uncount"} => isEnabled
  PROVE  Flags'
BY DEF Flags, Connecting, Emptying

\* A thread goes on, and to or from a callback.
LEMMA GoesTyped ==
  ASSUME ThreadTypes, NEW t \in Threads, UNCHANGED <<cur, hand, chain>>,
         pc' = pc \/ \E s \in Labels : pc' = [pc EXCEPT ![t] = s],
         back' = back \/ \E s \in Labels : back' = [back EXCEPT ![t] = s]
  PROVE  ThreadTypes'
<1>1. pc' \in [Threads -> Labels] /\ back' \in [Threads -> Labels]
  BY DEF ThreadTypes
<1> QED
  BY <1>1 DEF ThreadTypes

-----------------------------------------------------------------------------
(* Types, and what the threads are about.                                   *)

LEMMA NextFlagTypes ==
  ASSUME Types, Frames, [Next]_vars
  PROVE  FlagTypes'
<1> USE ThreadsAre
<1> USE DEF At, Goto, Return, Sent, port, headers, locks, calls
<1> USE DEF Types, FlagTypes
<1> DEFINE G == FlagTypes'
<1>1. ASSUME NEW t \in Threads, SendLock(t) PROVE G
  BY <1>1 DEF SendLock, SendEnds
<1>2. ASSUME NEW t \in Threads, CountIn(t) PROVE G
  BY <1>2 DEF CountIn, Counted
<1>3. ASSUME NEW t \in Threads, Pass(t) PROVE G
  BY <1>3 DEF Pass
<1>4. ASSUME NEW t \in Threads, PassFails(t) PROVE G
  BY <1>4 DEF PassFails
<1>5. ASSUME NEW t \in Threads, Uncount(t) PROVE G
  BY <1>5 DEF Uncount, SendEnds
<1>6. ASSUME NEW t \in Threads, CallClient(t) PROVE G
  BY <1>6 DEF CallClient
<1>7. ASSUME NEW t \in Threads, ReturnFromCallback(t) PROVE G
  BY <1>7 DEF ReturnFromCallback
<1>8. ASSUME NEW t \in Threads, EventSend(t) PROVE G
  BY <1>8 DEF EventSend
<1>9. ASSUME NEW t \in Threads, EventCall(t) PROVE G
  BY <1>9 DEF EventCall, Crash
<1>10. ASSUME NEW t \in Threads, PfEnable(t) PROVE G
  BY <1>10 DEF PfEnable
<1>11. ASSUME NEW t \in Threads, SetEnabled(t) PROVE G
  BY <1>11 DEF SetEnabled
<1>12. ASSUME NEW t \in Threads, ClearEnabled(t) PROVE G
  BY <1>12 DEF ClearEnabled, SendersOut
<1>13. ASSUME NEW t \in Threads, DisableLock(t) PROVE G
  BY <1>13 DEF DisableLock
<1>14. ASSUME NEW t \in Threads, PfDisable(t) PROVE G
  BY <1>14 DEF PfDisable
<1>15. ASSUME NEW t \in Threads, DrainTake(t) PROVE G
  BY <1>15 DEF DrainTake, DoCallback
<1>16. ASSUME NEW t \in Threads, DrainDone(t) PROVE G
  BY <1>16 DEF DrainDone
<1>17. ASSUME NEW t \in Threads, FlushQueue(t) PROVE G
  BY <1>17 DEF FlushQueue
<1>18. ASSUME NEW t \in Threads, WaitTransit(t) PROVE G
  BY <1>18 DEF WaitTransit, AllBack
<1>19. ASSUME NEW t \in Threads, FlushLock(t) PROVE G
  BY <1>19, FlushLocks
<1>20. ASSUME NEW t \in Threads, PfFlush(t) PROVE G
  BY <1>20 DEF PfFlush, QueueAfterFlush
<1>21. ASSUME NEW t \in Threads, FlushChain(t) PROVE G
  BY <1>21 DEF FlushChain
<1>22. ASSUME NEW t \in Threads, NEW b \in Buffers, SendBuffer(t, b) PROVE G
  BY <1>22 DEF SendBuffer
<1>23. ASSUME NEW t \in Controllers, EnablePort(t) PROVE G
  BY <1>23 DEF EnablePort
<1>24. ASSUME NEW t \in Controllers, DisablePort(t) PROVE G
  BY <1>24 DEF DisablePort
<1>25. ASSUME NEW t \in Controllers, Flush(t) PROVE G
  BY <1>25 DEF Flush
<1>26. ASSUME NEW t \in Controllers, Pause(t) PROVE G
  BY <1>26 DEF Pause
<1>27. ASSUME NEW t \in Controllers, Resume(t) PROVE G
  BY <1>27 DEF Resume, StillPaused
<1>28. ASSUME ActionLock PROVE G
  BY <1>28 DEF ActionLock
<1>29. ASSUME At(Action, "loop"), DoCallback(Action) PROVE G
  BY <1>29 DEF DoCallback
<1>30. ASSUME ActionUnlock PROVE G
  BY <1>30 DEF ActionUnlock
<1>31. ASSUME NEW b \in Buffers, ReturnBuffer(b) PROVE G
  BY <1>31 DEF ReturnBuffer
<1>32. ASSUME ReturnFreedContext PROVE G
  BY <1>32 DEF ReturnFreedContext, Crash
<1>33. ASSUME SendEvent PROVE G
  BY <1>33 DEF SendEvent
<1>34. ASSUME UNCHANGED vars PROVE G
  BY <1>34 DEF vars
<1> QED
  BY <1>1, <1>2, <1>3, <1>4, <1>5, <1>6, <1>7, <1>8, <1>9, <1>10, <1>11, <1>12, <1>13, <1>14,
  <1>15, <1>16, <1>17, <1>18, <1>19, <1>20, <1>21, <1>22, <1>23, <1>24, <1>25, <1>26, <1>27,
  <1>28, <1>29, <1>30, <1>31, <1>32, <1>33, <1>34 DEF Next, InCall, Begin, ActionThread, Crashed

LEMMA NextThreadTypes ==
  ASSUME Types, Frames, [Next]_vars
  PROVE  ThreadTypes'
<1> USE ThreadsAre
<1> USE DEF At, Goto, Return, Sent, port, headers, locks, calls
<1> USE DEF Types, ThreadTypes, Labels, Sending
<1> DEFINE G == ThreadTypes'
<1>1. ASSUME NEW t \in Threads, SendLock(t) PROVE G
  BY <1>1 DEF SendLock, SendEnds
<1>2. ASSUME NEW t \in Threads, CountIn(t) PROVE G
  BY <1>2 DEF CountIn, Counted
<1>3. ASSUME NEW t \in Threads, Pass(t) PROVE G
  BY <1>3 DEF Pass
<1>4. ASSUME NEW t \in Threads, PassFails(t) PROVE G
  BY <1>4 DEF PassFails
<1>5. ASSUME NEW t \in Threads, Uncount(t) PROVE G
  BY <1>5 DEF Uncount, SendEnds
<1>6. ASSUME NEW t \in Threads, CallClient(t) PROVE G
  BY <1>6 DEF CallClient
<1>7. ASSUME NEW t \in Threads, ReturnFromCallback(t) PROVE G
  BY <1>7 DEF ReturnFromCallback
<1>8. ASSUME NEW t \in Threads, EventSend(t) PROVE G
  <2>1. /\ UNCHANGED <<cur, hand, chain>>
        /\ \/ pc' = [pc EXCEPT ![t] = "eventCall"] /\ back' = back
           \/ pc' = [pc EXCEPT ![t] = back[t]] /\ back' = [back EXCEPT ![t] = "idle"]
    BY <1>8 DEF EventSend
  <2>2. back[t] \in Labels /\ {"eventCall", "idle"} \subseteq Labels
    OBVIOUS
  <2> HIDE DEF ThreadTypes, Labels
  <2> QED
    BY <2>1, <2>2, GoesTyped DEF Types
<1>9. ASSUME NEW t \in Threads, EventCall(t) PROVE G
  <2>1. /\ UNCHANGED <<cur, hand, chain>>
        /\ \/ pc' = pc /\ back' = back
           \/ pc' = [pc EXCEPT ![t] = back[t]] /\ back' = [back EXCEPT ![t] = "idle"]
    BY <1>9 DEF EventCall, Crash
  <2>2. back[t] \in Labels /\ "idle" \in Labels
    OBVIOUS
  <2> HIDE DEF ThreadTypes, Labels
  <2> QED
    BY <2>1, <2>2, GoesTyped DEF Types
<1>10. ASSUME NEW t \in Threads, PfEnable(t) PROVE G
  <2>1. /\ UNCHANGED <<back, cur, hand, chain>>
        /\ pc' = [pc EXCEPT ![t] = "setEnabled"] \/ pc' = [pc EXCEPT ![t] = "idle"]
    BY <1>10 DEF PfEnable
  <2>2. {"setEnabled", "idle"} \subseteq Labels
    OBVIOUS
  <2> HIDE DEF ThreadTypes, Labels
  <2> QED
    BY <2>1, <2>2, GoesTyped DEF Types
<1>11. ASSUME NEW t \in Threads, SetEnabled(t) PROVE G
  BY <1>11 DEF SetEnabled
<1>12. ASSUME NEW t \in Threads, ClearEnabled(t) PROVE G
  BY <1>12 DEF ClearEnabled, SendersOut
<1>13. ASSUME NEW t \in Threads, DisableLock(t) PROVE G
  BY <1>13 DEF DisableLock
<1>14. ASSUME NEW t \in Threads, PfDisable(t) PROVE G
  BY <1>14 DEF PfDisable
<1>15. ASSUME NEW t \in Threads, DrainTake(t) PROVE G
  <2>1. done # <<>> => Head(done) \in Buffers \cup {Event}
    BY TailElements DEF HeaderTypes
  <2>2. /\ cur' = cur \/ (done # <<>> /\ cur' = [cur EXCEPT ![t] = Head(done)]
           /\ Head(done) # Event)
        /\ pc' = [pc EXCEPT ![t] = "event"] \/ pc' = [pc EXCEPT ![t] = "call"]
        /\ back' = back \/ back' = [back EXCEPT ![t] = pc[t]]
        /\ UNCHANGED hand
        /\ UNCHANGED chain
    BY <1>15 DEF DrainTake, DoCallback
  <2>3. cur' \in [Threads -> Buffers \cup {None}]
    <3>1. done # <<>> /\ Head(done) # Event
          => [cur EXCEPT ![t] = Head(done)] \in [Threads -> Buffers \cup {None}]
      BY <2>1
    <3> QED
      BY <2>2, <3>1, Zenon
  <2>4. chain' \in [Threads -> Seq(Buffers)]
    BY <2>2
  <2>5. pc' \in [Threads -> Labels]
    BY <2>2
  <2>6. back' \in [Threads -> Labels]
    <3>1. [back EXCEPT ![t] = pc[t]] \in [Threads -> Labels]
      OBVIOUS
    <3> QED
      BY <2>2, <3>1, Zenon
  <2> QED
    BY <2>2, <2>3, <2>4, <2>5, <2>6
<1>16. ASSUME NEW t \in Threads, DrainDone(t) PROVE G
  BY <1>16 DEF DrainDone
<1>17. ASSUME NEW t \in Threads, FlushQueue(t) PROVE G
  <2>1. queue # <<>> => Head(queue) \in Buffers
    BY TailElements DEF HeaderTypes
  <2>2. /\ cur' = cur \/ (queue # <<>> /\ cur' = [cur EXCEPT ![t] = Head(queue)])
        /\ pc' = [pc EXCEPT ![t] = "wait"] \/ pc' = [pc EXCEPT ![t] = "call"]
        /\ back' = back \/ back' = [back EXCEPT ![t] = "flushQueue"]
        /\ UNCHANGED hand
        /\ UNCHANGED chain
    BY <1>17 DEF FlushQueue
  <2>3. cur' \in [Threads -> Buffers \cup {None}]
    <3>1. queue # <<>> => [cur EXCEPT ![t] = Head(queue)] \in [Threads -> Buffers \cup {None}]
      BY <2>1
    <3> QED
      BY <2>2, <3>1, Zenon
  <2>4. chain' \in [Threads -> Seq(Buffers)]
    BY <2>2
  <2>5. pc' \in [Threads -> Labels]
    BY <2>2
  <2>6. back' \in [Threads -> Labels]
    <3>1. [back EXCEPT ![t] = "flushQueue"] \in [Threads -> Labels]
      OBVIOUS
    <3> QED
      BY <2>2, <3>1, Zenon
  <2> QED
    BY <2>2, <2>3, <2>4, <2>5, <2>6
<1>18. ASSUME NEW t \in Threads, WaitTransit(t) PROVE G
  BY <1>18 DEF WaitTransit, AllBack
<1>19. ASSUME NEW t \in Threads, FlushLock(t) PROVE G
  BY <1>19, FlushLocks
<1>20. ASSUME NEW t \in Threads, PfFlush(t) PROVE G
  <2>1. pc' \in [Threads -> Labels]
    <3>1. pc' = [pc EXCEPT ![t] = "idle"] \/ pc' = [pc EXCEPT ![t] = "chain"]
      BY <1>20 DEF PfFlush
    <3> QED
      BY <3>1
  <2>2. UNCHANGED <<back, cur, hand>>
    BY <1>20 DEF PfFlush
  <2>3. chain' = chain \/ chain' = [chain EXCEPT ![t] = queue]
    BY <1>20 DEF PfFlush
  <2>4. queue \in Seq(Buffers)
    BY DEF HeaderTypes
  <2>5. chain' \in [Threads -> Seq(Buffers)]
    BY <2>3, <2>4
  <2> QED
    BY <2>1, <2>2, <2>5
<1>21. ASSUME NEW t \in Threads, FlushChain(t) PROVE G
  <2>1. chain[t] # <<>> => Head(chain[t]) \in Buffers /\ Tail(chain[t]) \in Seq(Buffers)
    BY TailElements
  <2>2. /\ cur' = cur \/ (chain[t] # <<>> /\ cur' = [cur EXCEPT ![t] = Head(chain[t])])
        /\ pc' = [pc EXCEPT ![t] = "idle"] \/ pc' = [pc EXCEPT ![t] = "call"]
        /\ back' = back \/ back' = [back EXCEPT ![t] = "chain"]
        /\ UNCHANGED hand
        /\ chain' = chain \/ (chain[t] # <<>> /\ chain' = [chain EXCEPT ![t] = Tail(chain[t])])
    BY <1>21 DEF FlushChain
  <2>3. cur' \in [Threads -> Buffers \cup {None}]
    <3>1. chain[t] # <<>>
          => [cur EXCEPT ![t] = Head(chain[t])] \in [Threads -> Buffers \cup {None}]
      BY <2>1
    <3> QED
      BY <2>2, <3>1, Zenon
  <2>4. chain' \in [Threads -> Seq(Buffers)]
    <3>1. chain[t] # <<>> => [chain EXCEPT ![t] = Tail(chain[t])] \in [Threads -> Seq(Buffers)]
      BY <2>1
    <3> QED
      BY <2>2, <3>1, Zenon
  <2>5. pc' \in [Threads -> Labels]
    BY <2>2
  <2>6. back' \in [Threads -> Labels]
    <3>1. [back EXCEPT ![t] = "chain"] \in [Threads -> Labels]
      OBVIOUS
    <3> QED
      BY <2>2, <3>1, Zenon
  <2> QED
    BY <2>2, <2>3, <2>4, <2>5, <2>6
<1>22. ASSUME NEW t \in Threads, NEW b \in Buffers, SendBuffer(t, b) PROVE G
  BY <1>22 DEF SendBuffer
<1>23. ASSUME NEW t \in Controllers, EnablePort(t) PROVE G
  BY <1>23 DEF EnablePort
<1>24. ASSUME NEW t \in Controllers, DisablePort(t) PROVE G
  BY <1>24 DEF DisablePort
<1>25. ASSUME NEW t \in Controllers, Flush(t) PROVE G
  BY <1>25 DEF Flush
<1>26. ASSUME NEW t \in Controllers, Pause(t) PROVE G
  BY <1>26 DEF Pause
<1>27. ASSUME NEW t \in Controllers, Resume(t) PROVE G
  BY <1>27 DEF Resume, StillPaused
<1>28. ASSUME ActionLock PROVE G
  BY <1>28 DEF ActionLock
<1>29. ASSUME At(Action, "loop"), DoCallback(Action) PROVE G
  <2>1. done # <<>> => Head(done) \in Buffers \cup {Event}
    BY TailElements DEF HeaderTypes
  <2>2. /\ cur' = cur \/ (done # <<>> /\ cur' = [cur EXCEPT ![Action] = Head(done)]
           /\ Head(done) # Event)
        /\ pc' = [pc EXCEPT ![Action] = "event"] \/ pc' = [pc EXCEPT ![Action] = "call"]
        /\ back' = back \/ back' = [back EXCEPT ![Action] = pc[Action]]
        /\ UNCHANGED hand
        /\ UNCHANGED chain
    BY <1>29 DEF DoCallback
  <2>3. cur' \in [Threads -> Buffers \cup {None}]
    <3>1. done # <<>> /\ Head(done) # Event
          => [cur EXCEPT ![Action] = Head(done)] \in [Threads -> Buffers \cup {None}]
      BY <2>1
    <3> QED
      BY <2>2, <3>1, Zenon
  <2>4. chain' \in [Threads -> Seq(Buffers)]
    BY <2>2
  <2>5. pc' \in [Threads -> Labels]
    BY <2>2
  <2>6. back' \in [Threads -> Labels]
    <3>1. [back EXCEPT ![Action] = pc[Action]] \in [Threads -> Labels]
      OBVIOUS
    <3> QED
      BY <2>2, <3>1, Zenon
  <2> QED
    BY <2>2, <2>3, <2>4, <2>5, <2>6
<1>30. ASSUME ActionUnlock PROVE G
  BY <1>30 DEF ActionUnlock
<1>31. ASSUME NEW b \in Buffers, ReturnBuffer(b) PROVE G
  BY <1>31 DEF ReturnBuffer
<1>32. ASSUME ReturnFreedContext PROVE G
  BY <1>32 DEF ReturnFreedContext, Crash
<1>33. ASSUME SendEvent PROVE G
  BY <1>33 DEF SendEvent
<1>34. ASSUME UNCHANGED vars PROVE G
  BY <1>34 DEF vars
<1> QED
  BY <1>1, <1>2, <1>3, <1>4, <1>5, <1>6, <1>7, <1>8, <1>9, <1>10, <1>11, <1>12, <1>13, <1>14,
  <1>15, <1>16, <1>17, <1>18, <1>19, <1>20, <1>21, <1>22, <1>23, <1>24, <1>25, <1>26, <1>27,
  <1>28, <1>29, <1>30, <1>31, <1>32, <1>33, <1>34 DEF Next, InCall, Begin, ActionThread, Crashed

LEMMA NextHeaderTypes ==
  ASSUME Types, Frames, [Next]_vars
  PROVE  HeaderTypes'
<1> USE ThreadsAre
<1> USE DEF At, Goto, Return, Sent, port, headers, locks, calls
<1> USE DEF Types, ThreadTypes, HeaderTypes, Frames, Sending, InClient
<1> DEFINE G == HeaderTypes'
<1>1. ASSUME NEW t \in Threads, SendLock(t) PROVE G
  BY <1>1 DEF SendLock, SendEnds
<1>2. ASSUME NEW t \in Threads, CountIn(t) PROVE G
  BY <1>2 DEF CountIn, Counted
<1>3. ASSUME NEW t \in Threads, Pass(t) PROVE G
  <2>1. hand[t] \in Buffers
    BY <1>3 DEF Pass
  <2>2. Append(queue, hand[t]) \in Seq(Buffers)
    BY <2>1, AppendElements
  <2> QED
    BY <1>3, <2>1, <2>2 DEF Pass
<1>4. ASSUME NEW t \in Threads, PassFails(t) PROVE G
  BY <1>4 DEF PassFails
<1>5. ASSUME NEW t \in Threads, Uncount(t) PROVE G
  BY <1>5 DEF Uncount, SendEnds
<1>6. ASSUME NEW t \in Threads, CallClient(t) PROVE G
  BY <1>6 DEF CallClient
<1>7. ASSUME NEW t \in Threads, ReturnFromCallback(t) PROVE G
  BY <1>7 DEF ReturnFromCallback
<1>8. ASSUME NEW t \in Threads, EventSend(t) PROVE G
  BY <1>8 DEF EventSend
<1>9. ASSUME NEW t \in Threads, EventCall(t) PROVE G
  BY <1>9 DEF EventCall, Crash
<1>10. ASSUME NEW t \in Threads, PfEnable(t) PROVE G
  BY <1>10 DEF PfEnable
<1>11. ASSUME NEW t \in Threads, SetEnabled(t) PROVE G
  BY <1>11 DEF SetEnabled
<1>12. ASSUME NEW t \in Threads, ClearEnabled(t) PROVE G
  BY <1>12 DEF ClearEnabled, SendersOut
<1>13. ASSUME NEW t \in Threads, DisableLock(t) PROVE G
  BY <1>13 DEF DisableLock
<1>14. ASSUME NEW t \in Threads, PfDisable(t) PROVE G
  BY <1>14 DEF PfDisable
<1>15. ASSUME NEW t \in Threads, DrainTake(t) PROVE G
  BY <1>15 DEF DrainTake, DoCallback
<1>16. ASSUME NEW t \in Threads, DrainDone(t) PROVE G
  BY <1>16 DEF DrainDone
<1>17. ASSUME NEW t \in Threads, FlushQueue(t) PROVE G
  <2>1. queue # <<>> => Tail(queue) \in Seq(Buffers)
    BY TailElements
  <2>2. queue' = queue \/ (queue # <<>> /\ queue' = Tail(queue))
    BY <1>17 DEF FlushQueue
  <2>3. UNCHANGED <<done, component, client>>
    BY <1>17 DEF FlushQueue
  <2> QED
    BY <2>1, <2>2, <2>3
<1>18. ASSUME NEW t \in Threads, WaitTransit(t) PROVE G
  BY <1>18 DEF WaitTransit, AllBack
<1>19. ASSUME NEW t \in Threads, FlushLock(t) PROVE G
  BY <1>19, FlushLocks
<1>20. ASSUME NEW t \in Threads, PfFlush(t) PROVE G
  <2>1. queue' = queue \/ queue' = <<>>
    BY <1>20 DEF PfFlush, QueueAfterFlush
  <2>2. UNCHANGED <<done, component, client>>
    BY <1>20 DEF PfFlush
  <2>3. queue' \in Seq(Buffers)
    BY <2>1, EmptySeq, Zenon DEF HeaderTypes
  <2> QED
    BY <2>2, <2>3
<1>21. ASSUME NEW t \in Threads, FlushChain(t) PROVE G
  BY <1>21 DEF FlushChain
<1>22. ASSUME NEW t \in Threads, NEW b \in Buffers, SendBuffer(t, b) PROVE G
  BY <1>22 DEF SendBuffer
<1>23. ASSUME NEW t \in Controllers, EnablePort(t) PROVE G
  BY <1>23 DEF EnablePort
<1>24. ASSUME NEW t \in Controllers, DisablePort(t) PROVE G
  BY <1>24 DEF DisablePort
<1>25. ASSUME NEW t \in Controllers, Flush(t) PROVE G
  BY <1>25 DEF Flush
<1>26. ASSUME NEW t \in Controllers, Pause(t) PROVE G
  BY <1>26 DEF Pause
<1>27. ASSUME NEW t \in Controllers, Resume(t) PROVE G
  <2>1. CASE UNCHANGED <<queue, component>>
    BY <1>27, <2>1 DEF Resume
  <2>2. ASSUME NEW n \in 0..Len(queue), component' = component \cup {queue[i] : i \in 1..n},
               queue' = SubSeq(queue, n + 1, Len(queue))
        PROVE  G
    <3>1. queue' \in Seq(Buffers) /\ \A i \in 1..n : queue[i] \in Buffers
      BY <2>2, ResumeParts
    <3> QED
      BY <1>27, <2>2, <3>1 DEF Resume
  <2> QED
    BY <1>27, <2>1, <2>2 DEF Resume
<1>28. ASSUME ActionLock PROVE G
  BY <1>28 DEF ActionLock
<1>29. ASSUME At(Action, "loop"), DoCallback(Action) PROVE G
  BY <1>29 DEF DoCallback
<1>30. ASSUME ActionUnlock PROVE G
  BY <1>30 DEF ActionUnlock
<1>31. ASSUME NEW b \in Buffers, ReturnBuffer(b) PROVE G
  BY <1>31 DEF ReturnBuffer
<1>32. ASSUME ReturnFreedContext PROVE G
  BY <1>32 DEF ReturnFreedContext, Crash
<1>33. ASSUME SendEvent PROVE G
  BY <1>33 DEF SendEvent
<1>34. ASSUME UNCHANGED vars PROVE G
  BY <1>34 DEF vars
<1> QED
  BY <1>1, <1>2, <1>3, <1>4, <1>5, <1>6, <1>7, <1>8, <1>9, <1>10, <1>11, <1>12, <1>13, <1>14,
  <1>15, <1>16, <1>17, <1>18, <1>19, <1>20, <1>21, <1>22, <1>23, <1>24, <1>25, <1>26, <1>27,
  <1>28, <1>29, <1>30, <1>31, <1>32, <1>33, <1>34 DEF Next, InCall, Begin, ActionThread, Crashed

LEMMA NextFrames ==
  ASSUME Control, [Next]_vars
  PROVE  Frames'
<1> USE ThreadsAre
<1> USE DEF At, Goto, Return, Sent, port, headers, locks, calls
<1> USE DEF Control, Types, FlagTypes, ThreadTypes, HeaderTypes, Stage, InClient, Resting,
      Sending,
           Holding, Dispatching, Emptying, Connecting
<1> USE DEF Frames
<1> DEFINE G == Frames'
<1>1. ASSUME NEW t \in Threads, SendLock(t) PROVE G
  BY <1>1 DEF SendLock, SendEnds
<1>2. ASSUME NEW t \in Threads, CountIn(t) PROVE G
  BY <1>2 DEF CountIn, Counted
<1>3. ASSUME NEW t \in Threads, Pass(t) PROVE G
  BY <1>3 DEF Pass
<1>4. ASSUME NEW t \in Threads, PassFails(t) PROVE G
  BY <1>4 DEF PassFails
<1>5. ASSUME NEW t \in Threads, Uncount(t) PROVE G
  BY <1>5 DEF Uncount, SendEnds
<1>6. ASSUME NEW t \in Threads, CallClient(t) PROVE G
  BY <1>6 DEF CallClient
<1>7. ASSUME NEW t \in Threads, ReturnFromCallback(t) PROVE G
  BY <1>7 DEF ReturnFromCallback
<1>8. ASSUME NEW t \in Threads, EventSend(t) PROVE G
  BY <1>8 DEF EventSend
<1>9. ASSUME NEW t \in Threads, EventCall(t) PROVE G
  BY <1>9 DEF EventCall, Crash
<1>10. ASSUME NEW t \in Threads, PfEnable(t) PROVE G
  <2>1. ASSUME pc[t] = "enable", Goto(t, "setEnabled"), hasPool' = TRUE, ~crashed,
                UNCHANGED <<isEnabled, isPaused, callback, queue, transit, connLock, sendLock,
                    actLock, back, cur, hand, chain, crashed>>
        PROVE  G
    BY <2>1
  <2>2. ASSUME pc[t] = "enable", Goto(t, "idle"), hasPool' \in BOOLEAN, connLock' = None,
        ~crashed,
                UNCHANGED <<isEnabled, isPaused, callback, queue, transit, sendLock, actLock,
                    back, cur, hand, chain, crashed>>
        PROVE  G
    BY <2>2
  <2> HIDE DEF G
  <2> QED
    BY <1>10, <2>1, <2>2 DEF PfEnable
<1>11. ASSUME NEW t \in Threads, SetEnabled(t) PROVE G
  BY <1>11 DEF SetEnabled
<1>12. ASSUME NEW t \in Threads, ClearEnabled(t) PROVE G
  BY <1>12 DEF ClearEnabled, SendersOut
<1>13. ASSUME NEW t \in Threads, DisableLock(t) PROVE G
  BY <1>13 DEF DisableLock
<1>14. ASSUME NEW t \in Threads, PfDisable(t) PROVE G
  BY <1>14 DEF PfDisable
<1>15. ASSUME NEW t \in Threads, DrainTake(t) PROVE G
  BY <1>15 DEF DrainTake, DoCallback
<1>16. ASSUME NEW t \in Threads, DrainDone(t) PROVE G
  <2>1. ASSUME pc[t] = "drain", Goto(t, "flushQueue"), actLock' = None,
                UNCHANGED <<isEnabled, isPaused, callback, queue, transit, hasPool, connLock,
                    sendLock, back, cur, hand, chain, crashed>>
        PROVE  G
    BY <2>1
  <2>2. ASSUME pc[t] = "drainFailed", Goto(t, "restore"), actLock' = None,
                UNCHANGED <<isEnabled, isPaused, callback, queue, transit, hasPool, connLock,
                    sendLock, back, cur, hand, chain, crashed>>
        PROVE  G
    BY <2>2
  <2> HIDE DEF G
  <2> QED
    BY <1>16, <2>1, <2>2 DEF DrainDone
<1>17. ASSUME NEW t \in Threads, FlushQueue(t) PROVE G
  BY <1>17 DEF FlushQueue
<1>18. ASSUME NEW t \in Threads, WaitTransit(t) PROVE G
  BY <1>18 DEF WaitTransit, AllBack
<1>19. ASSUME NEW t \in Threads, FlushLock(t) PROVE G
  <2>1. ASSUME pc[t] = "flushFirst", Goto(t, "flushSecond"), actLock = None, actLock' = t,
                UNCHANGED <<isEnabled, isPaused, callback, queue, transit, hasPool, connLock,
                    sendLock, back, cur, hand, chain, crashed>>
        PROVE  G
    BY <2>1
  <2>2. ASSUME pc[t] = "flushSecond", Goto(t, "pfFlush"), sendLock = None, sendLock' = t,
                UNCHANGED <<isEnabled, isPaused, callback, queue, transit, hasPool, connLock,
                    actLock, back, cur, hand, chain, crashed>>
        PROVE  G
    BY <2>2
  <2> HIDE DEF G
  <2> QED
    BY <1>19, FlushLocks, <2>1, <2>2
<1>20. ASSUME NEW t \in Threads, PfFlush(t) PROVE G
  BY <1>20 DEF PfFlush, QueueAfterFlush
<1>21. ASSUME NEW t \in Threads, FlushChain(t) PROVE G
  <2>1. ASSUME pc[t] = "chain", Goto(t, "idle"), chain[t] = <<>>,
                UNCHANGED <<isEnabled, isPaused, callback, queue, transit, hasPool, connLock,
                    sendLock, actLock, back, cur, hand, chain, crashed>>
        PROVE  G
    BY <2>1
  <2>2. ASSUME pc[t] = "chain", Goto(t, "call"), chain[t] # <<>>,
        chain' = [chain EXCEPT ![t] = Tail(chain[t])],
                cur' = [cur EXCEPT ![t] = Head(chain[t])], back' = [back EXCEPT ![t] = "chain"],
                UNCHANGED <<isEnabled, isPaused, callback, queue, transit, hasPool, connLock,
                    sendLock, actLock, hand, crashed>>
        PROVE  G
    BY <2>2, TailElements
  <2> HIDE DEF G
  <2> QED
    BY <1>21, <2>1, <2>2 DEF FlushChain
<1>22. ASSUME NEW t \in Threads, NEW b \in Buffers, SendBuffer(t, b) PROVE G
  BY <1>22 DEF SendBuffer
<1>23. ASSUME NEW t \in Controllers, EnablePort(t) PROVE G
  BY <1>23 DEF EnablePort
<1>24. ASSUME NEW t \in Controllers, DisablePort(t) PROVE G
  BY <1>24 DEF DisablePort
<1>25. ASSUME NEW t \in Controllers, Flush(t) PROVE G
  BY <1>25 DEF Flush
<1>26. ASSUME NEW t \in Controllers, Pause(t) PROVE G
  BY <1>26 DEF Pause
<1>27. ASSUME NEW t \in Controllers, Resume(t) PROVE G
  BY <1>27 DEF Resume, StillPaused
<1>28. ASSUME ActionLock PROVE G
  BY <1>28 DEF ActionLock
<1>29. ASSUME At(Action, "loop"), DoCallback(Action) PROVE G
  <2>1. ASSUME pc[Action] = "loop", done # <<>>, Goto(Action, "event"),
                back' = [back EXCEPT ![Action] = pc[Action]],
                UNCHANGED <<isEnabled, isPaused, callback, queue, transit, hasPool, connLock,
                    sendLock, actLock, cur, hand, chain, crashed>>
        PROVE  G
    BY <2>1
  <2>2. ASSUME pc[Action] = "loop", done # <<>>, Goto(Action, "call"),
        cur' = [cur EXCEPT ![Action] = Head(done)],
                Head(done) # Event, back' = [back EXCEPT ![Action] = pc[Action]],
                UNCHANGED <<isEnabled, isPaused, callback, queue, transit, hasPool, connLock,
                    sendLock, actLock, hand, chain, crashed>>
        PROVE  G
    BY <2>2, TailElements
  <2> HIDE DEF G
  <2> QED
    BY <1>29, <2>1, <2>2 DEF DoCallback
<1>30. ASSUME ActionUnlock PROVE G
  BY <1>30 DEF ActionUnlock
<1>31. ASSUME NEW b \in Buffers, ReturnBuffer(b) PROVE G
  BY <1>31 DEF ReturnBuffer
<1>32. ASSUME ReturnFreedContext PROVE G
  BY <1>32 DEF ReturnFreedContext, Crash
<1>33. ASSUME SendEvent PROVE G
  BY <1>33 DEF SendEvent
<1>34. ASSUME UNCHANGED vars PROVE G
  BY <1>34 DEF vars
<1> QED
  BY <1>1, <1>2, <1>3, <1>4, <1>5, <1>6, <1>7, <1>8, <1>9, <1>10, <1>11, <1>12, <1>13, <1>14,
  <1>15, <1>16, <1>17, <1>18, <1>19, <1>20, <1>21, <1>22, <1>23, <1>24, <1>25, <1>26, <1>27,
  <1>28, <1>29, <1>30, <1>31, <1>32, <1>33, <1>34 DEF Next, InCall, Begin, ActionThread, Crashed

LEMMA NextLocks ==
  ASSUME Control, [Next]_vars
  PROVE  LockInv'
<1> USE ThreadsAre
<1> USE DEF At, Goto, Return, Sent, port, headers, locks, calls
<1> USE DEF Control, Types, FlagTypes, ThreadTypes, HeaderTypes, Stage, InClient, Resting,
      Sending,
           Holding, Dispatching, Emptying, Connecting
<1> USE DEF Frames, LockInv
<1> DEFINE G == LockInv'
<1>1. ASSUME NEW t \in Threads, SendLock(t) PROVE G
  BY <1>1 DEF SendLock, SendEnds
<1>2. ASSUME NEW t \in Threads, CountIn(t) PROVE G
  BY <1>2 DEF CountIn, Counted
<1>3. ASSUME NEW t \in Threads, Pass(t) PROVE G
  BY <1>3 DEF Pass
<1>4. ASSUME NEW t \in Threads, PassFails(t) PROVE G
  BY <1>4 DEF PassFails
<1>5. ASSUME NEW t \in Threads, Uncount(t) PROVE G
  BY <1>5 DEF Uncount, SendEnds
<1>6. ASSUME NEW t \in Threads, CallClient(t) PROVE G
  BY <1>6 DEF CallClient
<1>7. ASSUME NEW t \in Threads, ReturnFromCallback(t) PROVE G
  BY <1>7 DEF ReturnFromCallback
<1>8. ASSUME NEW t \in Threads, EventSend(t) PROVE G
  BY <1>8 DEF EventSend
<1>9. ASSUME NEW t \in Threads, EventCall(t) PROVE G
  BY <1>9 DEF EventCall, Crash
<1>10. ASSUME NEW t \in Threads, PfEnable(t) PROVE G
  <2>1. ASSUME pc[t] = "enable", Goto(t, "setEnabled"), hasPool' = TRUE, ~crashed, UNCHANGED
                <<isEnabled, isPaused, callback, queue, transit, connLock, sendLock, actLock,
                back, cur, hand, chain, crashed>>
        PROVE  G
    <3>1. Stage(t) = "enable"
      BY <2>1, Unnested
    <3>2. \A u \in Threads : u # t => Stage(u)' = Stage(u) /\ pc'[u] = pc[u]
      BY <2>1
    <3>3. Stage(t)' = "setEnabled" /\ pc'[t] = "setEnabled"
      <4> HIDE DEF Control, Stage, Types, FlagTypes, HeaderTypes, Frames, LockInv
      <4>1. back[t] = "idle" /\ ThreadTypes
        BY <2>1, Unnested DEF Control, Types
      <4> HIDE DEF ThreadTypes
      <4> QED
        BY <2>1, <4>1, GoesUnnested
    <3>4. \A u \in Threads : u # t => Stage(u) \notin Connecting
      BY <3>1, Connected
    <3> HIDE DEF Stage, Types, FlagTypes, ThreadTypes, HeaderTypes, Frames, InClient, Sending
    <3> QED
      BY <2>1, <3>1, <3>2, <3>3, <3>4
  <2>2. ASSUME pc[t] = "enable", Goto(t, "idle"), hasPool' \in BOOLEAN, connLock' = None,
                ~crashed, UNCHANGED <<isEnabled, isPaused, callback, queue, transit, sendLock,
                actLock, back, cur, hand, chain, crashed>>
        PROVE  G
    <3>1. Stage(t) = "enable"
      BY <2>2, Unnested
    <3>2. \A u \in Threads : u # t => Stage(u)' = Stage(u) /\ pc'[u] = pc[u]
      BY <2>2
    <3>3. Stage(t)' = "idle" /\ pc'[t] = "idle"
      <4> HIDE DEF Control, Stage, Types, FlagTypes, HeaderTypes, Frames, LockInv
      <4>1. back[t] = "idle" /\ ThreadTypes
        BY <2>2, Unnested DEF Control, Types
      <4> HIDE DEF ThreadTypes
      <4> QED
        BY <2>2, <4>1, GoesUnnested
    <3>4. \A u \in Threads : u # t => Stage(u) \notin Connecting
      BY <3>1, Connected
    <3> HIDE DEF Stage, Types, FlagTypes, ThreadTypes, HeaderTypes, Frames, InClient, Sending
    <3> QED
      BY <2>2, <3>1, <3>2, <3>3, <3>4
  <2> HIDE DEF G
  <2> QED
    BY <1>10, <2>1, <2>2 DEF PfEnable
<1>11. ASSUME NEW t \in Threads, SetEnabled(t) PROVE G
  <2>1. ASSUME pc[t] = "setEnabled", Goto(t, "idle"), sendLock = None, isEnabled' = TRUE,
                connLock' = None, UNCHANGED <<isPaused, callback, queue, transit, hasPool,
                sendLock, actLock, back, cur, hand, chain, crashed>>
        PROVE  G
    <3>1. Stage(t) = "setEnabled"
      BY <2>1, Unnested
    <3>2. \A u \in Threads : u # t => Stage(u)' = Stage(u) /\ pc'[u] = pc[u]
      BY <2>1
    <3>3. Stage(t)' = "idle" /\ pc'[t] = "idle"
      <4> HIDE DEF Control, Stage, Types, FlagTypes, HeaderTypes, Frames, LockInv
      <4>1. back[t] = "idle" /\ ThreadTypes
        BY <2>1, Unnested DEF Control, Types
      <4> HIDE DEF ThreadTypes
      <4> QED
        BY <2>1, <4>1, GoesUnnested
    <3>4. \A u \in Threads : u # t => Stage(u) \notin Connecting
      BY <3>1, Connected
    <3> HIDE DEF Stage, Types, FlagTypes, ThreadTypes, HeaderTypes, Frames, InClient, Sending
    <3> QED
      BY <2>1, <3>1, <3>2, <3>3, <3>4
  <2>2. ASSUME pc[t] = "restore", Goto(t, "idle"), sendLock = None, isEnabled' = TRUE, connLock'
                = None, UNCHANGED <<isPaused, callback, queue, transit, hasPool, sendLock,
                actLock, back, cur, hand, chain, crashed>>
        PROVE  G
    <3>1. Stage(t) = "restore"
      BY <2>2, Unnested
    <3>2. \A u \in Threads : u # t => Stage(u)' = Stage(u) /\ pc'[u] = pc[u]
      BY <2>2
    <3>3. Stage(t)' = "idle" /\ pc'[t] = "idle"
      <4> HIDE DEF Control, Stage, Types, FlagTypes, HeaderTypes, Frames, LockInv
      <4>1. back[t] = "idle" /\ ThreadTypes
        BY <2>2, Unnested DEF Control, Types
      <4> HIDE DEF ThreadTypes
      <4> QED
        BY <2>2, <4>1, GoesUnnested
    <3>4. \A u \in Threads : u # t => Stage(u) \notin Connecting
      BY <3>1, Connected
    <3> HIDE DEF Stage, Types, FlagTypes, ThreadTypes, HeaderTypes, Frames, InClient, Sending
    <3> QED
      BY <2>2, <3>1, <3>2, <3>3, <3>4
  <2> HIDE DEF G
  <2> QED
    BY <1>11, <2>1, <2>2 DEF SetEnabled
<1>12. ASSUME NEW t \in Threads, ClearEnabled(t) PROVE G
  BY <1>12 DEF ClearEnabled, SendersOut
<1>13. ASSUME NEW t \in Threads, DisableLock(t) PROVE G
  BY <1>13 DEF DisableLock
<1>14. ASSUME NEW t \in Threads, PfDisable(t) PROVE G
  BY <1>14 DEF PfDisable
<1>15. ASSUME NEW t \in Threads, DrainTake(t) PROVE G
  <2>1. ASSUME pc[t] \in {"drain", "drainFailed"}, done # <<>>, Goto(t, "event"), back' = [back
                EXCEPT ![t] = pc[t]], UNCHANGED <<isEnabled, isPaused, callback, queue, transit,
                hasPool, connLock, sendLock, actLock, cur, hand, chain, crashed>>
        PROVE  G
    <3>1. Stage(t) = pc[t]
      BY <2>1, Unnested
    <3>2. \A u \in Threads : u # t => Stage(u)' = Stage(u) /\ pc'[u] = pc[u]
      BY <2>1
    <3>3. Stage(t)' = pc[t] /\ pc'[t] = "event"
      BY <2>1, Unnested
    <3> HIDE DEF Stage, Types, FlagTypes, ThreadTypes, HeaderTypes, Frames, InClient, Sending
    <3> QED
      BY <2>1, <3>1, <3>2, <3>3
  <2>2. ASSUME pc[t] \in {"drain", "drainFailed"}, done # <<>>, Goto(t, "call"), cur' = [cur
                EXCEPT ![t] = Head(done)], Head(done) # Event, back' = [back EXCEPT ![t] = pc[t]],
                UNCHANGED <<isEnabled, isPaused, callback, queue, transit, hasPool, connLock,
                sendLock, actLock, hand, chain, crashed>>
        PROVE  G
    <3>1. Stage(t) = pc[t]
      BY <2>2, Unnested
    <3>2. \A u \in Threads : u # t => Stage(u)' = Stage(u) /\ pc'[u] = pc[u]
      BY <2>2
    <3>3. Stage(t)' = pc[t] /\ pc'[t] = "call"
      BY <2>2, Unnested
    <3> HIDE DEF Stage, Types, FlagTypes, ThreadTypes, HeaderTypes, Frames, InClient, Sending
    <3> QED
      BY <2>2, <3>1, <3>2, <3>3
  <2> HIDE DEF G
  <2> QED
    BY <1>15, <2>1, <2>2 DEF DrainTake, DoCallback
<1>16. ASSUME NEW t \in Threads, DrainDone(t) PROVE G
  BY <1>16 DEF DrainDone
<1>17. ASSUME NEW t \in Threads, FlushQueue(t) PROVE G
  BY <1>17 DEF FlushQueue
<1>18. ASSUME NEW t \in Threads, WaitTransit(t) PROVE G
  <2>1. ASSUME pc[t] = "wait", Goto(t, "idle"), callback' = FALSE, connLock' = None, transit = 0,
                UNCHANGED <<isEnabled, isPaused, queue, transit, hasPool, sendLock, actLock, back,
                cur, hand, chain, crashed>>
        PROVE  G
    <3>1. Stage(t) = "wait"
      BY <2>1, Unnested
    <3>2. \A u \in Threads : u # t => Stage(u)' = Stage(u) /\ pc'[u] = pc[u]
      BY <2>1
    <3>3. Stage(t)' = "idle" /\ pc'[t] = "idle"
      <4> HIDE DEF Control, Stage, Types, FlagTypes, HeaderTypes, Frames, LockInv
      <4>1. back[t] = "idle" /\ ThreadTypes
        BY <2>1, Unnested DEF Control, Types
      <4> HIDE DEF ThreadTypes
      <4> QED
        BY <2>1, <4>1, GoesUnnested
    <3>4. \A u \in Threads : u # t => Stage(u) \notin Connecting
      BY <3>1, Connected
    <3> HIDE DEF Stage, Types, FlagTypes, ThreadTypes, HeaderTypes, Frames, InClient, Sending
    <3> QED
      BY <2>1, <3>1, <3>2, <3>3, <3>4
  <2> HIDE DEF G
  <2> QED
    BY <1>18, <2>1 DEF WaitTransit, AllBack
<1>19. ASSUME NEW t \in Threads, FlushLock(t) PROVE G
  BY <1>19, FlushLocks
<1>20. ASSUME NEW t \in Threads, PfFlush(t) PROVE G
  BY <1>20 DEF PfFlush, QueueAfterFlush
<1>21. ASSUME NEW t \in Threads, FlushChain(t) PROVE G
  BY <1>21 DEF FlushChain
<1>22. ASSUME NEW t \in Threads, NEW b \in Buffers, SendBuffer(t, b) PROVE G
  BY <1>22 DEF SendBuffer
<1>23. ASSUME NEW t \in Controllers, EnablePort(t) PROVE G
  BY <1>23 DEF EnablePort
<1>24. ASSUME NEW t \in Controllers, DisablePort(t) PROVE G
  BY <1>24 DEF DisablePort
<1>25. ASSUME NEW t \in Controllers, Flush(t) PROVE G
  BY <1>25 DEF Flush
<1>26. ASSUME NEW t \in Controllers, Pause(t) PROVE G
  BY <1>26 DEF Pause
<1>27. ASSUME NEW t \in Controllers, Resume(t) PROVE G
  BY <1>27 DEF Resume, StillPaused
<1>28. ASSUME ActionLock PROVE G
  <2>1. /\ pc[Action] = "idle" /\ back[Action] = "idle" /\ back' = back
        /\ pc' = [pc EXCEPT ![Action] = "loop"]
        /\ actLock' = Action /\ UNCHANGED <<connLock, sendLock>>
    BY <1>28, Unnested DEF ActionLock
  <2>2. Stage(Action)' = "loop" /\ pc'[Action] = "loop" /\ Stage(Action) = "idle"
    BY <2>1, GoesUnnested
  <2>3. \A u \in Threads : u # Action => Stage(u)' = Stage(u) /\ pc'[u] = pc[u]
    BY <2>1
  <2> HIDE DEF Stage, Types, FlagTypes, ThreadTypes, HeaderTypes, Frames
  <2> QED
    BY <2>1, <2>2, <2>3
<1>29. ASSUME At(Action, "loop"), DoCallback(Action) PROVE G
  BY <1>29 DEF DoCallback
<1>30. ASSUME ActionUnlock PROVE G
  BY <1>30 DEF ActionUnlock
<1>31. ASSUME NEW b \in Buffers, ReturnBuffer(b) PROVE G
  BY <1>31 DEF ReturnBuffer
<1>32. ASSUME ReturnFreedContext PROVE G
  BY <1>32 DEF ReturnFreedContext, Crash
<1>33. ASSUME SendEvent PROVE G
  BY <1>33 DEF SendEvent
<1>34. ASSUME UNCHANGED vars PROVE G
  BY <1>34 DEF vars
<1> QED
  BY <1>1, <1>2, <1>3, <1>4, <1>5, <1>6, <1>7, <1>8, <1>9, <1>10, <1>11, <1>12, <1>13, <1>14,
  <1>15, <1>16, <1>17, <1>18, <1>19, <1>20, <1>21, <1>22, <1>23, <1>24, <1>25, <1>26, <1>27,
  <1>28, <1>29, <1>30, <1>31, <1>32, <1>33, <1>34 DEF Next, InCall, Begin, ActionThread, Crashed

LEMMA NextFlags ==
  ASSUME Control, [Next]_vars
  PROVE  Flags'
<1> USE ThreadsAre
<1> USE DEF At, Goto, Return, Sent, port, headers, locks, calls
<1> USE DEF Control, Types, FlagTypes, ThreadTypes, HeaderTypes, Stage, InClient, Resting,
      Sending,
           Holding, Dispatching, Emptying, Connecting
<1> USE DEF Frames, LockInv, Flags
<1> DEFINE G == Flags'
<1>1. ASSUME NEW t \in Threads, SendLock(t) PROVE G
  <2>1. /\ pc[t] = "sendLock" /\ UNCHANGED <<isEnabled, isPaused, callback, queue, hasPool>>
        /\ back' = back /\ (back[t] = "idle" => cur[t] = None)
        /\ \/ isEnabled /\ pc' = [pc EXCEPT ![t] = "count"]
           \/ pc' = [pc EXCEPT ![t] = Sent(t)]
    BY <1>1 DEF SendLock, SendEnds
  <2>2. /\ pc'[t] = "count" => isEnabled
        /\ pc'[t] = "count" \/ pc'[t] = Sent(t)
    BY <2>1
  <2>3. \A u \in Threads :
          Stage(u) \in Connecting \/ Stage(u)' \in Connecting => Stage(u)' = Stage(u)
    <3>1. \A u \in Threads : u # t => Stage(u)' = Stage(u)
      BY <2>1
    <3>2. CASE back[t] = "idle"
      <4>1. Stage(t) = "sendLock" /\ Stage(t)' = pc'[t] /\ pc'[t] \in {"count", "idle"}
        BY <2>1, <2>2, <3>2
      <4> HIDE DEF Stage
      <4> QED
        BY <3>1, <4>1
    <3>3. CASE back[t] # "idle"
      <4>1. Stage(t)' = Stage(t)
        BY <2>1, <3>3
      <4> HIDE DEF Stage
      <4> QED
        BY <3>1, <4>1
    <3> QED
      BY <3>2, <3>3
  <2>4. \A u \in Threads : pc'[u] \in {"count", "pass", "uncount"} => isEnabled
    BY <2>1, <2>2
  <2> HIDE DEF Stage, Flags, Connecting
  <2> QED
    BY <2>1, <2>3, <2>4, StillFlagged
<1>2. ASSUME NEW t \in Threads, CountIn(t) PROVE G
  BY <1>2 DEF CountIn, Counted
<1>3. ASSUME NEW t \in Threads, Pass(t) PROVE G
  BY <1>3 DEF Pass
<1>4. ASSUME NEW t \in Threads, PassFails(t) PROVE G
  BY <1>4 DEF PassFails
<1>5. ASSUME NEW t \in Threads, Uncount(t) PROVE G
  BY <1>5 DEF Uncount, SendEnds
<1>6. ASSUME NEW t \in Threads, CallClient(t) PROVE G
  BY <1>6 DEF CallClient
<1>7. ASSUME NEW t \in Threads, ReturnFromCallback(t) PROVE G
  BY <1>7 DEF ReturnFromCallback
<1>8. ASSUME NEW t \in Threads, EventSend(t) PROVE G
  BY <1>8 DEF EventSend
<1>9. ASSUME NEW t \in Threads, EventCall(t) PROVE G
  <2>1. ASSUME pc[t] = "eventCall", Return(t),
               UNCHANGED <<isEnabled, isPaused, callback, queue, transit, hasPool, connLock,
                               sendLock, actLock, cur, hand, chain, crashed>>
        PROVE  G
    <3>1. Stage(t) = back[t] /\ back[t] \in Resting
      BY <2>1
    <3>2. \A u \in Threads : u # t => Stage(u)' = Stage(u) /\ pc'[u] = pc[u]
      BY <2>1
    <3>3. Stage(t)' = Stage(t) /\ pc'[t] = back[t]
      BY <2>1
    <3> HIDE DEF Stage, Types, FlagTypes, ThreadTypes, HeaderTypes, Frames, InClient, Sending
    <3> QED
      BY <2>1, <3>1, <3>2, <3>3
  <2>2. ASSUME UNCHANGED <<port, headers, locks, pc, calls>> PROVE G
    <3>1. \A u \in Threads : Stage(u)' = Stage(u)
      BY <2>2
    <3> HIDE DEF Stage
    <3> QED
      BY <2>2, <3>1
  <2> HIDE DEF G
  <2> QED
    BY <1>9, <2>1, <2>2 DEF EventCall, Crash
<1>10. ASSUME NEW t \in Threads, PfEnable(t) PROVE G
  <2>1. ASSUME pc[t] = "enable", Goto(t, "setEnabled"), hasPool' = TRUE, ~crashed, UNCHANGED
                <<isEnabled, isPaused, callback, queue, transit, connLock, sendLock, actLock,
                back, cur, hand, chain, crashed>>
        PROVE  G
    <3>1. Stage(t) = "enable"
      BY <2>1, Unnested
    <3>2. \A u \in Threads : u # t => Stage(u)' = Stage(u) /\ pc'[u] = pc[u]
      BY <2>1
    <3>3. Stage(t)' = "setEnabled" /\ pc'[t] = "setEnabled"
      <4> HIDE DEF Control, Stage, Types, FlagTypes, HeaderTypes, Frames, LockInv, Flags
      <4>1. back[t] = "idle" /\ ThreadTypes
        BY <2>1, Unnested DEF Control, Types
      <4> HIDE DEF ThreadTypes
      <4> QED
        BY <2>1, <4>1, GoesUnnested
    <3>4. \A u \in Threads : u # t => Stage(u) \notin Connecting
      BY <3>1, Connected
    <3> HIDE DEF Stage, Types, FlagTypes, ThreadTypes, HeaderTypes, Frames, InClient, Sending
    <3> QED
      BY <2>1, <3>1, <3>2, <3>3, <3>4
  <2>2. ASSUME pc[t] = "enable", Goto(t, "idle"), hasPool' \in BOOLEAN, connLock' = None,
                ~crashed, UNCHANGED <<isEnabled, isPaused, callback, queue, transit, sendLock,
                actLock, back, cur, hand, chain, crashed>>
        PROVE  G
    <3>1. Stage(t) = "enable"
      BY <2>2, Unnested
    <3>2. \A u \in Threads : u # t => Stage(u)' = Stage(u) /\ pc'[u] = pc[u]
      BY <2>2
    <3>3. Stage(t)' = "idle" /\ pc'[t] = "idle"
      <4> HIDE DEF Control, Stage, Types, FlagTypes, HeaderTypes, Frames, LockInv, Flags
      <4>1. back[t] = "idle" /\ ThreadTypes
        BY <2>2, Unnested DEF Control, Types
      <4> HIDE DEF ThreadTypes
      <4> QED
        BY <2>2, <4>1, GoesUnnested
    <3>4. \A u \in Threads : u # t => Stage(u) \notin Connecting
      BY <3>1, Connected
    <3> HIDE DEF Stage, Types, FlagTypes, ThreadTypes, HeaderTypes, Frames, InClient, Sending
    <3> QED
      BY <2>2, <3>1, <3>2, <3>3, <3>4
  <2> HIDE DEF G
  <2> QED
    BY <1>10, <2>1, <2>2 DEF PfEnable
<1>11. ASSUME NEW t \in Threads, SetEnabled(t) PROVE G
  <2>1. ASSUME pc[t] = "setEnabled", Goto(t, "idle"), sendLock = None, isEnabled' = TRUE,
                connLock' = None, UNCHANGED <<isPaused, callback, queue, transit, hasPool,
                sendLock, actLock, back, cur, hand, chain, crashed>>
        PROVE  G
    <3>1. Stage(t) = "setEnabled"
      BY <2>1, Unnested
    <3>2. \A u \in Threads : u # t => Stage(u)' = Stage(u) /\ pc'[u] = pc[u]
      BY <2>1
    <3>3. Stage(t)' = "idle" /\ pc'[t] = "idle"
      <4> HIDE DEF Control, Stage, Types, FlagTypes, HeaderTypes, Frames, LockInv, Flags
      <4>1. back[t] = "idle" /\ ThreadTypes
        BY <2>1, Unnested DEF Control, Types
      <4> HIDE DEF ThreadTypes
      <4> QED
        BY <2>1, <4>1, GoesUnnested
    <3>4. \A u \in Threads : u # t => Stage(u) \notin Connecting
      BY <3>1, Connected
    <3> HIDE DEF Stage, Types, FlagTypes, ThreadTypes, HeaderTypes, Frames, InClient, Sending
    <3> QED
      BY <2>1, <3>1, <3>2, <3>3, <3>4
  <2>2. ASSUME pc[t] = "restore", Goto(t, "idle"), sendLock = None, isEnabled' = TRUE, connLock'
                = None, UNCHANGED <<isPaused, callback, queue, transit, hasPool, sendLock,
                actLock, back, cur, hand, chain, crashed>>
        PROVE  G
    <3>1. Stage(t) = "restore"
      BY <2>2, Unnested
    <3>2. \A u \in Threads : u # t => Stage(u)' = Stage(u) /\ pc'[u] = pc[u]
      BY <2>2
    <3>3. Stage(t)' = "idle" /\ pc'[t] = "idle"
      <4> HIDE DEF Control, Stage, Types, FlagTypes, HeaderTypes, Frames, LockInv, Flags
      <4>1. back[t] = "idle" /\ ThreadTypes
        BY <2>2, Unnested DEF Control, Types
      <4> HIDE DEF ThreadTypes
      <4> QED
        BY <2>2, <4>1, GoesUnnested
    <3>4. \A u \in Threads : u # t => Stage(u) \notin Connecting
      BY <3>1, Connected
    <3> HIDE DEF Stage, Types, FlagTypes, ThreadTypes, HeaderTypes, Frames, InClient, Sending
    <3> QED
      BY <2>2, <3>1, <3>2, <3>3, <3>4
  <2> HIDE DEF G
  <2> QED
    BY <1>11, <2>1, <2>2 DEF SetEnabled
<1>12. ASSUME NEW t \in Threads, ClearEnabled(t) PROVE G
  BY <1>12 DEF ClearEnabled, SendersOut
<1>13. ASSUME NEW t \in Threads, DisableLock(t) PROVE G
  BY <1>13 DEF DisableLock
<1>14. ASSUME NEW t \in Threads, PfDisable(t) PROVE G
  BY <1>14 DEF PfDisable
<1>15. ASSUME NEW t \in Threads, DrainTake(t) PROVE G
  BY <1>15 DEF DrainTake, DoCallback
<1>16. ASSUME NEW t \in Threads, DrainDone(t) PROVE G
  BY <1>16 DEF DrainDone
<1>17. ASSUME NEW t \in Threads, FlushQueue(t) PROVE G
  <2>1. ASSUME pc[t] = "flushQueue", Goto(t, "wait"), queue = <<>>, UNCHANGED <<isEnabled,
                isPaused, callback, queue, transit, hasPool, connLock, sendLock, actLock, back,
                cur, hand, chain, crashed>>
        PROVE  G
    <3>1. Stage(t) = "flushQueue"
      BY <2>1, Unnested
    <3>2. \A u \in Threads : u # t => Stage(u)' = Stage(u) /\ pc'[u] = pc[u]
      BY <2>1
    <3>3. Stage(t)' = "wait" /\ pc'[t] = "wait"
      <4> HIDE DEF Control, Stage, Types, FlagTypes, HeaderTypes, Frames, LockInv, Flags
      <4>1. back[t] = "idle" /\ ThreadTypes
        BY <2>1, Unnested DEF Control, Types
      <4> HIDE DEF ThreadTypes
      <4> QED
        BY <2>1, <4>1, GoesUnnested
    <3>4. \A u \in Threads : u # t => Stage(u) \notin Connecting
      BY <3>1, Connected
    <3> HIDE DEF Stage, Types, FlagTypes, ThreadTypes, HeaderTypes, Frames, InClient, Sending
    <3> QED
      BY <2>1, <3>1, <3>2, <3>3, <3>4
  <2>2. ASSUME pc[t] = "flushQueue", Goto(t, "call"), queue # <<>>, queue' = Tail(queue), cur' =
                [cur EXCEPT ![t] = Head(queue)], back' = [back EXCEPT ![t] = "flushQueue"],
                UNCHANGED <<isEnabled, isPaused, callback, transit, hasPool, connLock, sendLock,
                actLock, hand, chain, crashed>>
        PROVE  G
    <3>1. Stage(t) = "flushQueue"
      BY <2>2, Unnested
    <3>2. \A u \in Threads : u # t => Stage(u)' = Stage(u) /\ pc'[u] = pc[u]
      BY <2>2
    <3>3. Stage(t)' = "flushQueue" /\ pc'[t] = "call"
      BY <2>2, Unnested
    <3>4. \A u \in Threads : u # t => Stage(u) \notin Connecting
      BY <3>1, Connected
    <3> HIDE DEF Stage, Types, FlagTypes, ThreadTypes, HeaderTypes, Frames, InClient, Sending
    <3> QED
      BY <2>2, <3>1, <3>2, <3>3, <3>4
  <2> HIDE DEF G
  <2> QED
    BY <1>17, <2>1, <2>2 DEF FlushQueue
<1>18. ASSUME NEW t \in Threads, WaitTransit(t) PROVE G
  <2>1. ASSUME pc[t] = "wait", Goto(t, "idle"), callback' = FALSE, connLock' = None, transit = 0,
                UNCHANGED <<isEnabled, isPaused, queue, transit, hasPool, sendLock, actLock, back,
                cur, hand, chain, crashed>>
        PROVE  G
    <3>1. Stage(t) = "wait"
      BY <2>1, Unnested
    <3>2. \A u \in Threads : u # t => Stage(u)' = Stage(u) /\ pc'[u] = pc[u]
      BY <2>1
    <3>3. Stage(t)' = "idle" /\ pc'[t] = "idle"
      <4> HIDE DEF Control, Stage, Types, FlagTypes, HeaderTypes, Frames, LockInv, Flags
      <4>1. back[t] = "idle" /\ ThreadTypes
        BY <2>1, Unnested DEF Control, Types
      <4> HIDE DEF ThreadTypes
      <4> QED
        BY <2>1, <4>1, GoesUnnested
    <3>4. \A u \in Threads : u # t => Stage(u) \notin Connecting
      BY <3>1, Connected
    <3> HIDE DEF Stage, Types, FlagTypes, ThreadTypes, HeaderTypes, Frames, InClient, Sending
    <3> QED
      BY <2>1, <3>1, <3>2, <3>3, <3>4
  <2> HIDE DEF G
  <2> QED
    BY <1>18, <2>1 DEF WaitTransit, AllBack
<1>19. ASSUME NEW t \in Threads, FlushLock(t) PROVE G
  BY <1>19, FlushLocks
<1>20. ASSUME NEW t \in Threads, PfFlush(t) PROVE G
  BY <1>20 DEF PfFlush, QueueAfterFlush
<1>21. ASSUME NEW t \in Threads, FlushChain(t) PROVE G
  <2>1. ASSUME pc[t] = "chain", Goto(t, "idle"), chain[t] = <<>>, UNCHANGED <<isEnabled,
                isPaused, callback, queue, transit, hasPool, connLock, sendLock, actLock, back,
                cur, hand, chain, crashed>>
        PROVE  G
    <3>1. Stage(t) = "chain"
      BY <2>1, Unnested
    <3>2. \A u \in Threads : u # t => Stage(u)' = Stage(u) /\ pc'[u] = pc[u]
      BY <2>1
    <3>3. Stage(t)' = "idle" /\ pc'[t] = "idle"
      <4> HIDE DEF Control, Stage, Types, FlagTypes, HeaderTypes, Frames, LockInv, Flags
      <4>1. back[t] = "idle" /\ ThreadTypes
        BY <2>1, Unnested DEF Control, Types
      <4> HIDE DEF ThreadTypes
      <4> QED
        BY <2>1, <4>1, GoesUnnested
    <3> HIDE DEF Stage, Types, FlagTypes, ThreadTypes, HeaderTypes, Frames, InClient, Sending
    <3> QED
      BY <2>1, <3>1, <3>2, <3>3
  <2>2. ASSUME pc[t] = "chain", Goto(t, "call"), chain[t] # <<>>, chain' = [chain EXCEPT ![t] =
                Tail(chain[t])], cur' = [cur EXCEPT ![t] = Head(chain[t])], back' = [back EXCEPT
                ![t] = "chain"], UNCHANGED <<isEnabled, isPaused, callback, queue, transit,
                hasPool, connLock, sendLock, actLock, hand, crashed>>
        PROVE  G
    <3>1. Stage(t) = "chain"
      BY <2>2, Unnested
    <3>2. \A u \in Threads : u # t => Stage(u)' = Stage(u) /\ pc'[u] = pc[u]
      BY <2>2
    <3>3. Stage(t)' = "chain" /\ pc'[t] = "call"
      BY <2>2, Unnested
    <3> HIDE DEF Stage, Types, FlagTypes, ThreadTypes, HeaderTypes, Frames, InClient, Sending
    <3> QED
      BY <2>2, <3>1, <3>2, <3>3
  <2> HIDE DEF G
  <2> QED
    BY <1>21, <2>1, <2>2 DEF FlushChain
<1>22. ASSUME NEW t \in Threads, NEW b \in Buffers, SendBuffer(t, b) PROVE G
  BY <1>22 DEF SendBuffer
<1>23. ASSUME NEW t \in Controllers, EnablePort(t) PROVE G
  BY <1>23 DEF EnablePort
<1>24. ASSUME NEW t \in Controllers, DisablePort(t) PROVE G
  BY <1>24 DEF DisablePort
<1>25. ASSUME NEW t \in Controllers, Flush(t) PROVE G
  BY <1>25 DEF Flush
<1>26. ASSUME NEW t \in Controllers, Pause(t) PROVE G
  BY <1>26 DEF Pause
<1>27. ASSUME NEW t \in Controllers, Resume(t) PROVE G
  <2>1. /\ UNCHANGED <<isEnabled, callback, hasPool, pc, back>>
        /\ isEnabled /\ ~isPaused' => queue' = <<>>
        /\ isEnabled \/ queue' = queue
    BY <1>27 DEF Resume, StillPaused
  <2>2. \A u \in Threads : Stage(u)' = Stage(u)
    BY <2>1
  <2> HIDE DEF Stage, Types, Frames, LockInv
  <2> QED
    BY <2>1, <2>2
<1>28. ASSUME ActionLock PROVE G
  BY <1>28 DEF ActionLock
<1>29. ASSUME At(Action, "loop"), DoCallback(Action) PROVE G
  <2>1. ASSUME pc[Action] = "loop", done # <<>>, Goto(Action, "event"), back' = [back EXCEPT
                ![Action] = pc[Action]], UNCHANGED <<isEnabled, isPaused, callback, queue,
                transit, hasPool, connLock, sendLock, actLock, cur, hand, chain, crashed>>
        PROVE  G
    <3>1. Stage(Action) = "loop"
      BY <2>1, Unnested
    <3>2. \A u \in Threads : u # Action => Stage(u)' = Stage(u) /\ pc'[u] = pc[u]
      BY <2>1
    <3>3. Stage(Action)' = "loop" /\ pc'[Action] = "event"
      BY <2>1, Unnested
    <3> HIDE DEF Stage, Types, FlagTypes, ThreadTypes, HeaderTypes, Frames, InClient, Sending
    <3> QED
      BY <2>1, <3>1, <3>2, <3>3
  <2>2. ASSUME pc[Action] = "loop", done # <<>>, Goto(Action, "call"), cur' = [cur EXCEPT
                ![Action] = Head(done)], Head(done) # Event, back' = [back EXCEPT ![Action] =
                pc[Action]], UNCHANGED <<isEnabled, isPaused, callback, queue, transit, hasPool,
                connLock, sendLock, actLock, hand, chain, crashed>>
        PROVE  G
    <3>1. Stage(Action) = "loop"
      BY <2>2, Unnested
    <3>2. \A u \in Threads : u # Action => Stage(u)' = Stage(u) /\ pc'[u] = pc[u]
      BY <2>2
    <3>3. Stage(Action)' = "loop" /\ pc'[Action] = "call"
      BY <2>2, Unnested
    <3> HIDE DEF Stage, Types, FlagTypes, ThreadTypes, HeaderTypes, Frames, InClient, Sending
    <3> QED
      BY <2>2, <3>1, <3>2, <3>3
  <2> HIDE DEF G
  <2> QED
    BY <1>29, <2>1, <2>2 DEF DoCallback
<1>30. ASSUME ActionUnlock PROVE G
  BY <1>30 DEF ActionUnlock
<1>31. ASSUME NEW b \in Buffers, ReturnBuffer(b) PROVE G
  BY <1>31 DEF ReturnBuffer
<1>32. ASSUME ReturnFreedContext PROVE G
  BY <1>32 DEF ReturnFreedContext, Crash
<1>33. ASSUME SendEvent PROVE G
  BY <1>33 DEF SendEvent
<1>34. ASSUME UNCHANGED vars PROVE G
  BY <1>34 DEF vars
<1> QED
  BY <1>1, <1>2, <1>3, <1>4, <1>5, <1>6, <1>7, <1>8, <1>9, <1>10, <1>11, <1>12, <1>13, <1>14,
  <1>15, <1>16, <1>17, <1>18, <1>19, <1>20, <1>21, <1>22, <1>23, <1>24, <1>25, <1>26, <1>27,
  <1>28, <1>29, <1>30, <1>31, <1>32, <1>33, <1>34 DEF Next, InCall, Begin, ActionThread, Crashed

-----------------------------------------------------------------------------
(* Where the headers are.  A step that moves headers takes each from its     *)
(* only place to another, so that it is in one place again.                  *)

Named == {"client", "component", "queue", "done"}

Spot(k) == <<k, None>>

Spots == {Spot(k) : k \in Named} \cup ({"cur", "hand", "chain"} \X Threads)

In(b, p) ==
  \/ p[1] = "client" /\ b \in client
  \/ p[1] = "component" /\ b \in component
  \/ p[1] = "queue" /\ b \in Range(queue)
  \/ p[1] = "done" /\ b \in Range(done)
  \/ p[1] = "cur" /\ b = cur[p[2]] /\ pc[p[2]] = "call"
  \/ p[1] = "hand" /\ b = hand[p[2]]
  \/ p[1] = "chain" /\ b \in Range(chain[p[2]])

Placed == \A b \in Buffers : \E p \in Spots : \A r \in Spots : In(b, r) <=> r = p

NoRepeats ==
  /\ OnceIn(queue, Buffers) /\ OnceIn(done, Buffers)
  /\ \A t \in Threads : OnceIn(chain[t], Buffers)

PlaceInv == Placed /\ NoRepeats

\* The headers of M go to q, and no other header moves.
Moved(M, q) ==
  \A x \in Buffers, r \in Spots : In(x, r)' <=> IF x \in M THEN r = q ELSE In(x, r)

LEMMA MovedPlaced ==
  ASSUME Placed, NEW M, NEW q \in Spots, Moved(M, q)
  PROVE  Placed'
<1> SUFFICES ASSUME NEW x \in Buffers
             PROVE  \E p \in Spots : \A r \in Spots : In(x, r)' <=> r = p
    BY DEF Placed, Spots, Spot, Named, Threads
<1>1. CASE x \in M
  BY <1>1 DEF Moved
<1>2. CASE x \notin M
  BY <1>2 DEF Moved, Placed
<1> QED  BY <1>1, <1>2

LEMMA Alone ==
  ASSUME PlaceInv, NEW b \in Buffers, NEW p \in Spots, In(b, p)
  PROVE  \A r \in Spots : In(b, r) <=> r = p
BY DEF PlaceInv, Placed

LEMMA SpotTypes ==
  /\ \A k \in Named : Spot(k) \in Spots
  /\ \A k \in {"cur", "hand", "chain"}, t \in Threads : <<k, t>> \in Spots
BY DEF Spots

\* To know what a step does to every spot it is enough to know it of the named
\* ones and of those of each thread.
LEMMA MovedBy ==
  ASSUME NEW M, NEW q \in Spots,
         \A x \in Buffers, k \in Named :
           In(x, Spot(k))' <=> IF x \in M THEN Spot(k) = q ELSE In(x, Spot(k)),
         \A x \in Buffers, k \in {"cur", "hand", "chain"}, u \in Threads :
           In(x, <<k, u>>)' <=> IF x \in M THEN <<k, u>> = q ELSE In(x, <<k, u>>)
  PROVE  Moved(M, q)
<1> SUFFICES ASSUME NEW x \in Buffers, NEW r \in Spots
             PROVE  In(x, r)' <=> IF x \in M THEN r = q ELSE In(x, r)
    BY DEF Moved
<1>1. CASE \E k \in Named : r = Spot(k)
  BY <1>1
<1>2. CASE \E k \in {"cur", "hand", "chain"}, u \in Threads : r = <<k, u>>
  BY <1>2
<1> QED
  BY <1>1, <1>2 DEF Spots

\* No header moves.
Quiet ==
  /\ UNCHANGED <<client, component, queue, hand, chain>>
  /\ \A x \in Buffers : x \in Range(done') <=> x \in Range(done)
  /\ OnceIn(done', Buffers)
  /\ \A u \in Threads : /\ pc'[u] = "call" <=> pc[u] = "call"
                        /\ pc[u] = "call" => cur'[u] = cur[u]

LEMMA QuietPlaced ==
  ASSUME PlaceInv, Quiet
  PROVE  PlaceInv'
<1>1. \A x \in Buffers, k \in Named : In(x, Spot(k))' <=> In(x, Spot(k))
  BY DEF In, Spot, Named, Quiet
<1>2. \A x \in Buffers, k \in {"cur", "hand", "chain"}, u \in Threads : In(x, <<k, u>>)'
      <=> In(x, <<k, u>>)
  BY DEF In, Quiet
<1>3. Moved({}, Spot("client"))
  BY <1>1, <1>2, MovedBy, SpotTypes DEF Named
<1>4. NoRepeats'
  BY DEF PlaceInv, NoRepeats, Quiet
<1> QED
  BY <1>3, <1>4, MovedPlaced, SpotTypes DEF PlaceInv, Named

\* A thread takes a header of the client's to send it.
LEMMA SendMoves ==
  ASSUME Control, PlaceInv, NEW t \in Threads, NEW b \in client, client' = client \ {b}, hand' =
         [hand EXCEPT ![t] = b], hand[t] = None, pc[t] # "call", pc' = [pc EXCEPT ![t] =
         "sendLock"], UNCHANGED <<component, queue, done, cur, chain>>
  PROVE  PlaceInv'
<1> USE ThreadsAre
<1> USE DEF Control, Types, ThreadTypes, HeaderTypes
<1>1. b \in Buffers /\ b \in client
  BY SMT
<1>2. \A u \in Threads : hand'[u] = (IF u = t THEN b ELSE hand[u])
      /\ (pc'[u] = "call" <=> pc[u] = "call")
  BY SMT
<1>3. \A r \in Spots : In(b, r) <=> r = Spot("client")
  <2>1. In(b, Spot("client")) /\ Spot("client") \in Spots
    BY <1>1, <1>2, SpotTypes, TailElements DEF In, Spot, Named
  <2> QED
    BY <1>1, <1>2, <2>1, Alone
<1> HIDE DEF Control, Types, ThreadTypes, HeaderTypes
<1>4. ASSUME NEW x \in Buffers, NEW k \in Named
      PROVE  In(x, Spot(k))' <=> IF x \in {b} THEN Spot(k) = <<"hand", t>> ELSE In(x, Spot(k))
  <2>1. In(b, Spot(k)) <=> Spot(k) = Spot("client")
    BY <1>3, SpotTypes
  <2> QED
    BY <1>1, <1>2, <2>1 DEF In, Spot, Named
<1>5. ASSUME NEW x \in Buffers, NEW k \in {"cur", "hand", "chain"}, NEW u \in Threads
      PROVE  In(x, <<k, u>>)' <=> IF x \in {b} THEN <<k, u>> = <<"hand", t>> ELSE In(x, <<k, u>>)
  <2>1. In(b, <<k, u>>) <=> <<k, u>> = Spot("client")
    BY <1>3, SpotTypes
  <2> QED
    BY <1>1, <1>2, <2>1 DEF In, Spot
<1>6. Moved({b}, <<"hand", t>>)
  BY <1>4, <1>5, MovedBy, SpotTypes DEF Named
<1>7. NoRepeats'
  BY <1>1, <1>2 DEF PlaceInv, NoRepeats
<1> QED
  BY <1>6, <1>7, MovedPlaced, SpotTypes DEF PlaceInv, Named

\* A header that is not sent goes back to the client.
LEMMA RefusedMoves ==
  ASSUME Control, PlaceInv, NEW t \in Threads, hand[t] \in Buffers, hand' = [hand EXCEPT ![t] =
         None], pc[t] # "call", pc' = [pc EXCEPT ![t] = Sent(t)], client' = client \cup {hand[t]},
         UNCHANGED <<component, queue, done, cur, chain>>
  PROVE  PlaceInv'
<1> USE ThreadsAre
<1> USE DEF Control, Types, ThreadTypes, HeaderTypes
<1>1. hand[t] \in Buffers
  BY SMT
<1>2. \A u \in Threads : hand'[u] = (IF u = t THEN None ELSE hand[u])
      /\ (pc'[u] = "call" <=> pc[u] = "call")
  BY DEF Sent
<1>3. \A r \in Spots : In(hand[t], r) <=> r = <<"hand", t>>
  <2>1. In(hand[t], <<"hand", t>>) /\ <<"hand", t>> \in Spots
    BY <1>1, <1>2, SpotTypes, TailElements DEF In, Spot, Named
  <2> QED
    BY <1>1, <1>2, <2>1, Alone
<1> HIDE DEF Control, Types, ThreadTypes, HeaderTypes
<1>4. ASSUME NEW x \in Buffers, NEW k \in Named
      PROVE  In(x, Spot(k))' <=> IF x \in {hand[t]} THEN Spot(k) = Spot("client")
          ELSE In(x, Spot(k))
  <2>1. In(hand[t], Spot(k)) <=> Spot(k) = <<"hand", t>>
    BY <1>3, SpotTypes
  <2> QED
    BY <1>1, <1>2, <2>1 DEF In, Spot, Named
<1>5. ASSUME NEW x \in Buffers, NEW k \in {"cur", "hand", "chain"}, NEW u \in Threads
      PROVE  In(x, <<k, u>>)' <=> IF x \in {hand[t]} THEN <<k, u>> = Spot("client")
          ELSE In(x, <<k, u>>)
  <2>1. In(hand[t], <<k, u>>) <=> <<k, u>> = <<"hand", t>>
    BY <1>3, SpotTypes
  <2> QED
    BY <1>1, <1>2, <2>1 DEF In, Spot
<1>6. Moved({hand[t]}, Spot("client"))
  BY <1>4, <1>5, MovedBy, SpotTypes DEF Named
<1>7. NoRepeats'
  BY <1>1, <1>2 DEF PlaceInv, NoRepeats
<1> QED
  BY <1>6, <1>7, MovedPlaced, SpotTypes DEF PlaceInv, Named

\* A header that is sent joins the queue of a paused port ...
LEMMA QueuedMoves ==
  ASSUME Control, PlaceInv, NEW t \in Threads, hand[t] \in Buffers, hand' = [hand EXCEPT ![t] =
         None], pc[t] # "call", pc' = [pc EXCEPT ![t] = Sent(t)], queue' = Append(queue, hand[t]),
         UNCHANGED <<client, component, done, cur, chain>>
  PROVE  PlaceInv'
<1> USE ThreadsAre
<1> USE DEF Control, Types, ThreadTypes, HeaderTypes
<1>1. hand[t] \in Buffers
  BY SMT
<1>2. \A u \in Threads : hand'[u] = (IF u = t THEN None ELSE hand[u])
      /\ (pc'[u] = "call" <=> pc[u] = "call")
  BY DEF Sent
<1>3. \A r \in Spots : In(hand[t], r) <=> r = <<"hand", t>>
  <2>1. In(hand[t], <<"hand", t>>) /\ <<"hand", t>> \in Spots
    BY <1>1, <1>2, SpotTypes, TailElements DEF In, Spot, Named
  <2> QED
    BY <1>1, <1>2, <2>1, Alone
<1>4. hand[t] \notin Range(queue)
  BY <1>3, SpotTypes DEF In, Spot, Named
<1>5. Range(queue') = Range(queue) \cup {hand[t]} /\ OnceIn(queue', Buffers)
  BY <1>1, <1>4, AppendElements, AppendOnce DEF PlaceInv, NoRepeats
<1> HIDE DEF Control, Types, ThreadTypes, HeaderTypes
<1>6. ASSUME NEW x \in Buffers, NEW k \in Named
      PROVE  In(x, Spot(k))' <=> IF x \in {hand[t]} THEN Spot(k) = Spot("queue")
          ELSE In(x, Spot(k))
  <2>1. In(hand[t], Spot(k)) <=> Spot(k) = <<"hand", t>>
    BY <1>3, SpotTypes
  <2> QED
    BY <1>1, <1>2, <1>4, <1>5, <2>1 DEF In, Spot, Named
<1>7. ASSUME NEW x \in Buffers, NEW k \in {"cur", "hand", "chain"}, NEW u \in Threads
      PROVE  In(x, <<k, u>>)' <=> IF x \in {hand[t]} THEN <<k, u>> = Spot("queue")
          ELSE In(x, <<k, u>>)
  <2>1. In(hand[t], <<k, u>>) <=> <<k, u>> = <<"hand", t>>
    BY <1>3, SpotTypes
  <2> QED
    BY <1>1, <1>2, <1>4, <1>5, <2>1 DEF In, Spot
<1>8. Moved({hand[t]}, Spot("queue"))
  BY <1>6, <1>7, MovedBy, SpotTypes DEF Named
<1>9. NoRepeats'
  BY <1>1, <1>2, <1>4, <1>5 DEF PlaceInv, NoRepeats
<1> QED
  BY <1>8, <1>9, MovedPlaced, SpotTypes DEF PlaceInv, Named

\* ... or goes to VideoCore.
LEMMA PassedMoves ==
  ASSUME Control, PlaceInv, NEW t \in Threads, hand[t] \in Buffers, hand' = [hand EXCEPT ![t] =
         None], pc[t] # "call", pc' = [pc EXCEPT ![t] = Sent(t)], component' = component \cup
         {hand[t]}, UNCHANGED <<client, queue, done, cur, chain>>
  PROVE  PlaceInv'
<1> USE ThreadsAre
<1> USE DEF Control, Types, ThreadTypes, HeaderTypes
<1>1. hand[t] \in Buffers
  BY SMT
<1>2. \A u \in Threads : hand'[u] = (IF u = t THEN None ELSE hand[u])
      /\ (pc'[u] = "call" <=> pc[u] = "call")
  BY DEF Sent
<1>3. \A r \in Spots : In(hand[t], r) <=> r = <<"hand", t>>
  <2>1. In(hand[t], <<"hand", t>>) /\ <<"hand", t>> \in Spots
    BY <1>1, <1>2, SpotTypes, TailElements DEF In, Spot, Named
  <2> QED
    BY <1>1, <1>2, <2>1, Alone
<1> HIDE DEF Control, Types, ThreadTypes, HeaderTypes
<1>4. ASSUME NEW x \in Buffers, NEW k \in Named
      PROVE  In(x, Spot(k))' <=> IF x \in {hand[t]} THEN Spot(k) = Spot("component")
          ELSE In(x, Spot(k))
  <2>1. In(hand[t], Spot(k)) <=> Spot(k) = <<"hand", t>>
    BY <1>3, SpotTypes
  <2> QED
    BY <1>1, <1>2, <2>1 DEF In, Spot, Named
<1>5. ASSUME NEW x \in Buffers, NEW k \in {"cur", "hand", "chain"}, NEW u \in Threads
      PROVE  In(x, <<k, u>>)' <=> IF x \in {hand[t]} THEN <<k, u>> = Spot("component")
          ELSE In(x, <<k, u>>)
  <2>1. In(hand[t], <<k, u>>) <=> <<k, u>> = <<"hand", t>>
    BY <1>3, SpotTypes
  <2> QED
    BY <1>1, <1>2, <2>1 DEF In, Spot
<1>6. Moved({hand[t]}, Spot("component"))
  BY <1>4, <1>5, MovedBy, SpotTypes DEF Named
<1>7. NoRepeats'
  BY <1>1, <1>2 DEF PlaceInv, NoRepeats
<1> QED
  BY <1>6, <1>7, MovedPlaced, SpotTypes DEF PlaceInv, Named

\* The client gets the header of the callback.
LEMMA CallMoves ==
  ASSUME Control, PlaceInv, NEW t \in Threads, pc[t] = "call", cur[t] \in Buffers, client' =
         client \cup {cur[t]}, pc' = [pc EXCEPT ![t] = "callback"], UNCHANGED <<component, queue,
         done, cur, hand, chain>>
  PROVE  PlaceInv'
<1> USE ThreadsAre
<1> USE DEF Control, Types, ThreadTypes, HeaderTypes
<1>1. pc[t] = "call" /\ cur[t] \in Buffers
  BY SMT
<1>2. \A u \in Threads : pc'[u] = "call" <=> pc[u] = "call" /\ u # t
  BY SMT
<1>3. \A r \in Spots : In(cur[t], r) <=> r = <<"cur", t>>
  <2>1. In(cur[t], <<"cur", t>>) /\ <<"cur", t>> \in Spots
    BY <1>1, <1>2, SpotTypes, TailElements DEF In, Spot, Named
  <2> QED
    BY <1>1, <1>2, <2>1, Alone
<1> HIDE DEF Control, Types, ThreadTypes, HeaderTypes
<1>4. ASSUME NEW x \in Buffers, NEW k \in Named
      PROVE  In(x, Spot(k))' <=> IF x \in {cur[t]} THEN Spot(k) = Spot("client")
          ELSE In(x, Spot(k))
  <2>1. In(cur[t], Spot(k)) <=> Spot(k) = <<"cur", t>>
    BY <1>3, SpotTypes
  <2> QED
    BY <1>1, <1>2, <2>1 DEF In, Spot, Named
<1>5. ASSUME NEW x \in Buffers, NEW k \in {"cur", "hand", "chain"}, NEW u \in Threads
      PROVE  In(x, <<k, u>>)' <=> IF x \in {cur[t]} THEN <<k, u>> = Spot("client")
          ELSE In(x, <<k, u>>)
  <2>1. In(cur[t], <<k, u>>) <=> <<k, u>> = <<"cur", t>>
    BY <1>3, SpotTypes
  <2> QED
    BY <1>1, <1>2, <2>1 DEF In, Spot
<1>6. Moved({cur[t]}, Spot("client"))
  BY <1>4, <1>5, MovedBy, SpotTypes DEF Named
<1>7. NoRepeats'
  BY <1>1, <1>2 DEF PlaceInv, NoRepeats
<1> QED
  BY <1>6, <1>7, MovedPlaced, SpotTypes DEF PlaceInv, Named

\* The first header that came back is called back.
LEMMA DoneMoves ==
  ASSUME Control, PlaceInv, NEW t \in Threads, done # <<>>, Head(done) # Event, done' =
         Tail(done), cur' = [cur EXCEPT ![t] = Head(done)], pc[t] # "call", pc' = [pc EXCEPT ![t]
         = "call"], UNCHANGED <<client, component, queue, hand, chain>>
  PROVE  PlaceInv'
<1> USE ThreadsAre
<1> USE DEF Control, Types, ThreadTypes, HeaderTypes
<1>1. Head(done) \in Buffers
  BY TailElements
<1>2. /\ Head(done) \in Buffers /\ Head(done) \notin Range(Tail(done))
      /\ OnceIn(Tail(done), Buffers) /\ Range(done) = Range(Tail(done)) \cup {Head(done)}
  BY TailOnce, TailElements DEF PlaceInv, NoRepeats
<1>3. \A u \in Threads : /\ pc'[u] = "call" <=> pc[u] = "call" \/ u = t
                         /\ cur'[u] = IF u = t THEN Head(done) ELSE cur[u]
  BY SMT
<1>4. pc[t] # "call"
  BY SMT
<1>5. \A r \in Spots : In(Head(done), r) <=> r = Spot("done")
  <2>1. In(Head(done), Spot("done")) /\ Spot("done") \in Spots
    BY <1>1, <1>2, <1>3, <1>4, SpotTypes, TailElements DEF In, Spot, Named
  <2> QED
    BY <1>1, <1>2, <1>3, <1>4, <2>1, Alone
<1> HIDE DEF Control, Types, ThreadTypes, HeaderTypes
<1>6. ASSUME NEW x \in Buffers, NEW k \in Named
      PROVE  In(x, Spot(k))' <=> IF x \in {Head(done)} THEN Spot(k) = <<"cur", t>>
          ELSE In(x, Spot(k))
  <2>1. In(Head(done), Spot(k)) <=> Spot(k) = Spot("done")
    BY <1>5, SpotTypes
  <2> QED
    BY <1>1, <1>2, <1>3, <1>4, <2>1 DEF In, Spot, Named
<1>7. ASSUME NEW x \in Buffers, NEW k \in {"cur", "hand", "chain"}, NEW u \in Threads
      PROVE  In(x, <<k, u>>)' <=> IF x \in {Head(done)} THEN <<k, u>> = <<"cur", t>>
          ELSE In(x, <<k, u>>)
  <2>1. In(Head(done), <<k, u>>) <=> <<k, u>> = Spot("done")
    BY <1>5, SpotTypes
  <2> QED
    BY <1>1, <1>2, <1>3, <1>4, <2>1 DEF In, Spot
<1>8. Moved({Head(done)}, <<"cur", t>>)
  BY <1>6, <1>7, MovedBy, SpotTypes DEF Named
<1>9. NoRepeats'
  BY <1>1, <1>2, <1>3, <1>4 DEF PlaceInv, NoRepeats
<1> QED
  BY <1>8, <1>9, MovedPlaced, SpotTypes DEF PlaceInv, Named

\* mmal_port_disable calls back the first header of the queue.
LEMMA FlushMoves ==
  ASSUME Control, PlaceInv, NEW t \in Threads, queue # <<>>, queue' = Tail(queue), cur' = [cur
         EXCEPT ![t] = Head(queue)], pc[t] # "call", pc' = [pc EXCEPT ![t] = "call"], UNCHANGED
         <<client, component, done, hand, chain>>
  PROVE  PlaceInv'
<1> USE ThreadsAre
<1> USE DEF Control, Types, ThreadTypes, HeaderTypes
<1>1. /\ Head(queue) \in Buffers /\ Head(queue) \notin Range(Tail(queue))
      /\ OnceIn(Tail(queue), Buffers) /\ Range(queue) = Range(Tail(queue)) \cup {Head(queue)}
  BY TailOnce, TailElements DEF PlaceInv, NoRepeats
<1>2. \A u \in Threads : /\ pc'[u] = "call" <=> pc[u] = "call" \/ u = t
                         /\ cur'[u] = IF u = t THEN Head(queue) ELSE cur[u]
  BY SMT
<1>3. pc[t] # "call"
  BY SMT
<1>4. \A r \in Spots : In(Head(queue), r) <=> r = Spot("queue")
  <2>1. In(Head(queue), Spot("queue")) /\ Spot("queue") \in Spots
    BY <1>1, <1>2, <1>3, SpotTypes, TailElements DEF In, Spot, Named
  <2> QED
    BY <1>1, <1>2, <1>3, <2>1, Alone
<1> HIDE DEF Control, Types, ThreadTypes, HeaderTypes
<1>5. ASSUME NEW x \in Buffers, NEW k \in Named
      PROVE  In(x, Spot(k))' <=> IF x \in {Head(queue)} THEN Spot(k) = <<"cur", t>>
          ELSE In(x, Spot(k))
  <2>1. In(Head(queue), Spot(k)) <=> Spot(k) = Spot("queue")
    BY <1>4, SpotTypes
  <2> QED
    BY <1>1, <1>2, <1>3, <2>1 DEF In, Spot, Named
<1>6. ASSUME NEW x \in Buffers, NEW k \in {"cur", "hand", "chain"}, NEW u \in Threads
      PROVE  In(x, <<k, u>>)' <=> IF x \in {Head(queue)} THEN <<k, u>> = <<"cur", t>>
          ELSE In(x, <<k, u>>)
  <2>1. In(Head(queue), <<k, u>>) <=> <<k, u>> = Spot("queue")
    BY <1>4, SpotTypes
  <2> QED
    BY <1>1, <1>2, <1>3, <2>1 DEF In, Spot
<1>7. Moved({Head(queue)}, <<"cur", t>>)
  BY <1>5, <1>6, MovedBy, SpotTypes DEF Named
<1>8. NoRepeats'
  BY <1>1, <1>2, <1>3 DEF PlaceInv, NoRepeats
<1> QED
  BY <1>7, <1>8, MovedPlaced, SpotTypes DEF PlaceInv, Named

\* A flush calls back the first header it took off the queue.
LEMMA ChainMoves ==
  ASSUME Control, PlaceInv, NEW t \in Threads, chain[t] # <<>>, chain' = [chain EXCEPT ![t] =
         Tail(@)], cur' = [cur EXCEPT ![t] = Head(chain[t])], pc[t] # "call", pc' = [pc EXCEPT
         ![t] = "call"], UNCHANGED <<client, component, queue, done, hand>>
  PROVE  PlaceInv'
<1> USE ThreadsAre
<1> USE DEF Control, Types, ThreadTypes, HeaderTypes
<1>1. chain[t] \in Seq(Buffers)
  BY SMT
<1>2. /\ Head(chain[t]) \in Buffers /\ Head(chain[t]) \notin Range(Tail(chain[t]))
      /\ OnceIn(Tail(chain[t]), Buffers)
         /\ Range(chain[t]) = Range(Tail(chain[t])) \cup {Head(chain[t])}
  BY <1>1, TailOnce, TailElements DEF PlaceInv, NoRepeats
<1>3. \A u \in Threads : /\ pc'[u] = "call" <=> pc[u] = "call" \/ u = t
                         /\ cur'[u] = IF u = t THEN Head(chain[t]) ELSE cur[u]
  BY SMT
<1>4. \A u \in Threads : chain'[u] = IF u = t THEN Tail(chain[t]) ELSE chain[u]
  BY SMT
<1>5. pc[t] # "call"
  BY SMT
<1>6. \A r \in Spots : In(Head(chain[t]), r) <=> r = <<"chain", t>>
  <2>1. In(Head(chain[t]), <<"chain", t>>) /\ <<"chain", t>> \in Spots
    BY <1>1, <1>2, <1>3, <1>4, <1>5, SpotTypes, TailElements DEF In, Spot, Named
  <2> QED
    BY <1>1, <1>2, <1>3, <1>4, <1>5, <2>1, Alone
<1> HIDE DEF Control, Types, ThreadTypes, HeaderTypes
<1>7. ASSUME NEW x \in Buffers, NEW k \in Named
      PROVE  In(x, Spot(k))' <=> IF x \in {Head(chain[t])} THEN Spot(k) = <<"cur", t>>
          ELSE In(x, Spot(k))
  <2>1. In(Head(chain[t]), Spot(k)) <=> Spot(k) = <<"chain", t>>
    BY <1>6, SpotTypes
  <2> QED
    BY <1>1, <1>2, <1>3, <1>4, <1>5, <2>1 DEF In, Spot, Named
<1>8. ASSUME NEW x \in Buffers, NEW k \in {"cur", "hand", "chain"}, NEW u \in Threads
      PROVE  In(x, <<k, u>>)' <=> IF x \in {Head(chain[t])} THEN <<k, u>> = <<"cur", t>>
          ELSE In(x, <<k, u>>)
  <2>1. In(Head(chain[t]), <<k, u>>) <=> <<k, u>> = <<"chain", t>>
    BY <1>6, SpotTypes
  <2> QED
    BY <1>1, <1>2, <1>3, <1>4, <1>5, <2>1 DEF In, Spot
<1>9. Moved({Head(chain[t])}, <<"cur", t>>)
  BY <1>7, <1>8, MovedBy, SpotTypes DEF Named
<1>10. NoRepeats'
  BY <1>1, <1>2, <1>3, <1>4, <1>5 DEF PlaceInv, NoRepeats
<1> QED
  BY <1>9, <1>10, MovedPlaced, SpotTypes DEF PlaceInv, Named

\* VideoCore gives a header back.
LEMMA ReturnMoves ==
  ASSUME Control, PlaceInv, NEW b \in component, component' = component \ {b}, done' =
         Append(done, b), UNCHANGED <<client, queue, pc, cur, hand, chain>>
  PROVE  PlaceInv'
<1> USE ThreadsAre
<1> USE DEF Control, Types, ThreadTypes, HeaderTypes
<1>1. b \in Buffers /\ b \in component
  BY SMT
<1>2. \A r \in Spots : In(b, r) <=> r = Spot("component")
  <2>1. In(b, Spot("component")) /\ Spot("component") \in Spots
    BY <1>1, SpotTypes, TailElements DEF In, Spot, Named
  <2> QED
    BY <1>1, <2>1, Alone
<1>3. b \notin Range(done)
  BY <1>2, SpotTypes DEF In, Spot, Named
<1>4. Range(done') = Range(done) \cup {b} /\ OnceIn(done', Buffers)
  BY <1>1, <1>3, AppendElements, AppendOnce DEF PlaceInv, NoRepeats
<1> HIDE DEF Control, Types, ThreadTypes, HeaderTypes
<1>5. ASSUME NEW x \in Buffers, NEW k \in Named
      PROVE  In(x, Spot(k))' <=> IF x \in {b} THEN Spot(k) = Spot("done") ELSE In(x, Spot(k))
  <2>1. In(b, Spot(k)) <=> Spot(k) = Spot("component")
    BY <1>2, SpotTypes
  <2> QED
    BY <1>1, <1>3, <1>4, <2>1 DEF In, Spot, Named
<1>6. ASSUME NEW x \in Buffers, NEW k \in {"cur", "hand", "chain"}, NEW u \in Threads
      PROVE  In(x, <<k, u>>)' <=> IF x \in {b} THEN <<k, u>> = Spot("done") ELSE In(x, <<k, u>>)
  <2>1. In(b, <<k, u>>) <=> <<k, u>> = Spot("component")
    BY <1>2, SpotTypes
  <2> QED
    BY <1>1, <1>3, <1>4, <2>1 DEF In, Spot
<1>7. Moved({b}, Spot("done"))
  BY <1>5, <1>6, MovedBy, SpotTypes DEF Named
<1>8. NoRepeats'
  BY <1>1, <1>3, <1>4 DEF PlaceInv, NoRepeats
<1> QED
  BY <1>7, <1>8, MovedPlaced, SpotTypes DEF PlaceInv, Named

\* A flush takes the whole queue off.
LEMMA TakenMoves ==
  ASSUME Control, PlaceInv, NEW t \in Threads, chain[t] = <<>>,
      chain' = [chain EXCEPT ![t] = queue],
         queue' = <<>>, \A u \in Threads : pc'[u] = "call" <=> pc[u] = "call",
         UNCHANGED <<client, component, done, cur, hand>>
  PROVE  PlaceInv'
<1>1. queue \in Seq(Buffers) /\ \A u \in Threads : chain'[u] = IF u = t THEN queue ELSE chain[u]
  BY DEF Control, Types, ThreadTypes, HeaderTypes
<1>2. Range(chain[t]) = {} /\ Range(queue') = {} /\ OnceIn(queue', Buffers)
  <2>1. Range(<<>>) = {} /\ OnceIn(<<>>, Buffers)
    BY EmptySeq
  <2> QED
    BY <2>1, Zenon
<1>3. \A x \in Range(queue), r \in Spots : x \in Buffers /\ (In(x, r) <=> r = Spot("queue"))
  <2>1. \A x \in Range(queue) : x \in Buffers /\ In(x, Spot("queue"))
    BY <1>1, SeqDomain DEF In, Spot
  <2> QED
    BY <2>1, Alone, SpotTypes DEF Named
<1>4. ASSUME NEW x \in Buffers, NEW k \in Named
      PROVE  In(x, Spot(k))' <=> IF x \in Range(queue) THEN Spot(k) = <<"chain", t>>
          ELSE In(x, Spot(k))
  <2>1. x \in Range(queue) => (In(x, Spot(k)) <=> Spot(k) = Spot("queue"))
    BY <1>3, SpotTypes
  <2> QED
    BY <1>2, <2>1 DEF In, Spot, Named
<1>5. ASSUME NEW x \in Buffers, NEW k \in {"cur", "hand", "chain"}, NEW u \in Threads
      PROVE  In(x, <<k, u>>)' <=> IF x \in Range(queue) THEN <<k, u>> = <<"chain", t>>
          ELSE In(x, <<k, u>>)
  <2>1. x \in Range(queue) => (In(x, <<k, u>>) <=> <<k, u>> = Spot("queue"))
    BY <1>3, SpotTypes
  <2> QED
    BY <1>1, <1>2, <2>1 DEF In, Spot
<1>6. Moved(Range(queue), <<"chain", t>>)
  BY <1>4, <1>5, MovedBy, SpotTypes
<1>7. NoRepeats'
  BY <1>1, <1>2 DEF PlaceInv, NoRepeats
<1> QED
  BY <1>6, <1>7, MovedPlaced, SpotTypes DEF PlaceInv

\* Resuming passes the first headers of the queue on to VideoCore.
LEMMA ResumeMoves ==
  ASSUME Control, PlaceInv, NEW n \in 0..Len(queue),
         component' = component \cup {queue[i] : i \in 1..n},
         queue' = SubSeq(queue, n + 1, Len(queue)),
         UNCHANGED <<client, done, pc, cur, hand, chain>>
  PROVE  PlaceInv'
<1> DEFINE M == {queue[i] : i \in 1..n}
<1>1. queue \in Seq(Buffers) /\ OnceIn(queue, Buffers)
  BY DEF Control, Types, HeaderTypes, PlaceInv, NoRepeats
<1>2. M \subseteq Range(queue) /\ Range(queue) \subseteq Buffers
  BY <1>1, ResumeParts, SeqDomain DEF Range
<1>3. OnceIn(queue', Buffers)
  <2>1. queue' \in Seq(Buffers) /\ DOMAIN queue' = 1..(Len(queue) - n)
    BY <1>1, ResumeParts
  <2> SUFFICES ASSUME NEW i \in 1..(Len(queue) - n), NEW j \in 1..(Len(queue) - n),
        queue'[i] = queue'[j]
               PROVE  i = j
    BY <2>1 DEF OnceIn
  <2>2. /\ queue'[i] = queue[i + n] /\ i + n \in DOMAIN queue
        /\ queue'[j] = queue[j + n] /\ j + n \in DOMAIN queue
    BY <1>1, ResumeParts
  <2>3. i + n = j + n
    BY <1>1, <2>2, SeqDomain DEF OnceIn, Range
  <2> QED
    BY <2>3
<1>4. \A x \in Buffers : x \in Range(queue') <=> x \in Range(queue) /\ x \notin M
  <2>1. DOMAIN queue' = 1..(Len(queue) - n) /\ Len(queue) \in Nat
    BY <1>1, ResumeParts
  <2>2. ASSUME NEW x \in Range(queue') PROVE x \in Range(queue) /\ x \notin M
    <3>0. PICK i \in DOMAIN queue' : x = queue'[i]
      BY DEF Range
    <3>1. i \in 1..(Len(queue) - n) /\ x = queue[i + n] /\ i + n \in DOMAIN queue
      BY <1>1, <2>1, <3>0, ResumeParts
    <3>2. ASSUME NEW j \in 1..n, queue[j] = x PROVE FALSE
      <4>1. j \in DOMAIN queue /\ x \in Buffers
        BY <1>1, <1>2, <3>1, ResumeParts DEF Range
      <4>2. j = i + n
        BY <1>1, <3>1, <3>2, <4>1 DEF OnceIn
      <4> QED
        BY <4>2
    <3> QED
      BY <3>1, <3>2 DEF Range
  <2>3. ASSUME NEW x \in Range(queue), x \notin M PROVE x \in Range(queue')
    <3>1. PICK i \in DOMAIN queue : queue[i] = x
      BY DEF Range
    <3>2. i - n \in 1..(Len(queue) - n)
      BY <1>1, <2>3, <3>1, ResumeParts
    <3>3. queue'[i - n] = queue[(i - n) + n] /\ (i - n) + n = i
      BY <1>1, <3>1, <3>2, ResumeParts
    <3> QED
      BY <2>1, <3>1, <3>2, <3>3 DEF Range
  <2> QED
    BY <2>2, <2>3
<1> HIDE DEF M
<1>5. \A x \in M, r \in Spots : x \in Buffers /\ (In(x, r) <=> r = Spot("queue"))
  <2>1. \A x \in M : x \in Buffers /\ In(x, Spot("queue"))
    BY <1>2 DEF In, Spot
  <2> QED
    BY <2>1, Alone, SpotTypes DEF Named
<1>6. component' = component \cup M
  BY DEF M
<1>7. ASSUME NEW x \in Buffers, NEW k \in Named
      PROVE  In(x, Spot(k))' <=> IF x \in M THEN Spot(k) = Spot("component") ELSE In(x, Spot(k))
  <2>1. x \in M => (In(x, Spot(k)) <=> Spot(k) = Spot("queue"))
    BY <1>5, SpotTypes
  <2> QED
    BY <1>4, <1>6, <2>1 DEF In, Spot, Named
<1>8. ASSUME NEW x \in Buffers, NEW k \in {"cur", "hand", "chain"}, NEW u \in Threads
      PROVE  In(x, <<k, u>>)' <=> IF x \in M THEN <<k, u>> = Spot("component")
          ELSE In(x, <<k, u>>)
  <2>1. x \in M => (In(x, <<k, u>>) <=> <<k, u>> = Spot("queue"))
    BY <1>5, SpotTypes
  <2> QED
    BY <2>1 DEF In, Spot
<1>9. Moved(M, Spot("component"))
  BY <1>7, <1>8, MovedBy, SpotTypes DEF Named
<1>10. NoRepeats'
  BY <1>3 DEF PlaceInv, NoRepeats
<1> QED
  BY <1>9, <1>10, MovedPlaced, SpotTypes DEF PlaceInv, Named

\* Most steps leave the headers alone.
LEMMA StillPlaced ==
  ASSUME PlaceInv, UNCHANGED <<client, component, queue, done, hand, chain>>,
         \A u \in Threads : (pc'[u] = "call" <=> pc[u] = "call")
             /\ (pc[u] = "call" => cur'[u] = cur[u])
  PROVE  PlaceInv'
BY QuietPlaced DEF Quiet, PlaceInv, NoRepeats

LEMMA NextPlaced ==
  ASSUME Control, PlaceInv, [Next]_vars
  PROVE  PlaceInv'
<1> USE ThreadsAre
<1> USE DEF At, Goto, Return, Sent, port, headers, locks, calls
<1> USE DEF Control, Types, FlagTypes, ThreadTypes, HeaderTypes
<1> DEFINE G == PlaceInv'
<1>1. ASSUME NEW t \in Threads, SendLock(t) PROVE G
  <2>1. ASSUME UNCHANGED <<client, component, queue, done, hand, chain>>, pc[t] # "call", pc' =
                [pc EXCEPT ![t] = "count"], UNCHANGED cur
        PROVE  G
    BY <2>1, StillPlaced
  <2>2. ASSUME pc[t] = "sendLock", client' = client \cup {hand[t]}, hand' = [hand EXCEPT ![t] =
                None], pc' = [pc EXCEPT ![t] = Sent(t)], UNCHANGED <<component, queue, done, cur,
                chain>>
        PROVE  G
    BY <2>2, RefusedMoves DEF Frames, Sending
  <2> HIDE DEF G
  <2> QED
    BY <1>1, <2>1, <2>2 DEF SendLock, SendEnds
<1>2. ASSUME NEW t \in Threads, CountIn(t) PROVE G
  <2>1. \A u \in Threads : (pc'[u] = "call" <=> pc[u] = "call")
        /\ (pc[u] = "call" => cur'[u] = cur[u])
    BY <1>2 DEF CountIn, Counted
  <2> QED
    BY <1>2, <2>1, StillPlaced DEF CountIn, Counted
<1>3. ASSUME NEW t \in Threads, Pass(t) PROVE G
  <2>1. ASSUME pc[t] = "pass", queue' = Append(queue, hand[t]), hand' = [hand EXCEPT ![t] =
                None], pc' = [pc EXCEPT ![t] = Sent(t)], UNCHANGED <<client, component, done, cur,
                chain>>
        PROVE  G
    BY <2>1, QueuedMoves DEF Frames, Sending
  <2>2. ASSUME pc[t] = "pass", component' = component \cup {hand[t]}, hand' = [hand EXCEPT ![t] =
                None], pc' = [pc EXCEPT ![t] = Sent(t)], UNCHANGED <<client, queue, done, cur,
                chain>>
        PROVE  G
    BY <2>2, PassedMoves DEF Frames, Sending
  <2> HIDE DEF G
  <2> QED
    BY <1>3, <2>1, <2>2 DEF Pass
<1>4. ASSUME NEW t \in Threads, PassFails(t) PROVE G
  <2>1. \A u \in Threads : (pc'[u] = "call" <=> pc[u] = "call")
        /\ (pc[u] = "call" => cur'[u] = cur[u])
    BY <1>4 DEF PassFails
  <2> QED
    BY <1>4, <2>1, StillPlaced DEF PassFails
<1>5. ASSUME NEW t \in Threads, Uncount(t) PROVE G
  <2>1. /\ pc[t] = "uncount" /\ client' = client \cup {hand[t]}
           /\ hand' = [hand EXCEPT ![t] = None]
        /\ pc' = [pc EXCEPT ![t] = Sent(t)] /\ UNCHANGED <<component, queue, done, cur, chain>>
    BY <1>5 DEF Uncount, SendEnds
  <2> QED
    BY <2>1, RefusedMoves DEF Frames, Sending
<1>6. ASSUME NEW t \in Threads, CallClient(t) PROVE G
  <2>1. /\ pc[t] = "call" /\ client' = client \cup {cur[t]} /\ pc' = [pc EXCEPT ![t] = "callback"]
        /\ UNCHANGED <<component, queue, done, cur, hand, chain>>
    BY <1>6 DEF CallClient
  <2> QED
    BY <2>1, CallMoves DEF Frames, InClient
<1>7. ASSUME NEW t \in Threads, ReturnFromCallback(t) PROVE G
  <2>1. \A u \in Threads : (pc'[u] = "call" <=> pc[u] = "call")
        /\ (pc[u] = "call" => cur'[u] = cur[u])
    BY <1>7 DEF Frames, Resting, ReturnFromCallback
  <2> QED
    BY <1>7, <2>1, StillPlaced DEF ReturnFromCallback
<1>8. ASSUME NEW t \in Threads, EventSend(t) PROVE G
  <2>1. \A u \in Threads : (pc'[u] = "call" <=> pc[u] = "call")
        /\ (pc[u] = "call" => cur'[u] = cur[u])
    BY <1>8 DEF Frames, Resting, EventSend
  <2> QED
    BY <1>8, <2>1, StillPlaced DEF EventSend
<1>9. ASSUME NEW t \in Threads, EventCall(t) PROVE G
  <2>1. \A u \in Threads : (pc'[u] = "call" <=> pc[u] = "call")
        /\ (pc[u] = "call" => cur'[u] = cur[u])
    BY <1>9 DEF Frames, Resting, EventCall, Crash
  <2> QED
    BY <1>9, <2>1, StillPlaced DEF EventCall, Crash
<1>10. ASSUME NEW t \in Threads, PfEnable(t) PROVE G
  <2>1. \A u \in Threads : (pc'[u] = "call" <=> pc[u] = "call")
        /\ (pc[u] = "call" => cur'[u] = cur[u])
    BY <1>10 DEF PfEnable
  <2> QED
    BY <1>10, <2>1, StillPlaced DEF PfEnable
<1>11. ASSUME NEW t \in Threads, SetEnabled(t) PROVE G
  <2>1. \A u \in Threads : (pc'[u] = "call" <=> pc[u] = "call")
        /\ (pc[u] = "call" => cur'[u] = cur[u])
    BY <1>11 DEF SetEnabled
  <2> QED
    BY <1>11, <2>1, StillPlaced DEF SetEnabled
<1>12. ASSUME NEW t \in Threads, ClearEnabled(t) PROVE G
  <2>1. \A u \in Threads : (pc'[u] = "call" <=> pc[u] = "call")
        /\ (pc[u] = "call" => cur'[u] = cur[u])
    BY <1>12 DEF ClearEnabled, SendersOut
  <2> QED
    BY <1>12, <2>1, StillPlaced DEF ClearEnabled, SendersOut
<1>13. ASSUME NEW t \in Threads, DisableLock(t) PROVE G
  <2>1. \A u \in Threads : (pc'[u] = "call" <=> pc[u] = "call")
        /\ (pc[u] = "call" => cur'[u] = cur[u])
    BY <1>13 DEF DisableLock
  <2> QED
    BY <1>13, <2>1, StillPlaced DEF DisableLock
<1>14. ASSUME NEW t \in Threads, PfDisable(t) PROVE G
  <2>1. \A u \in Threads : (pc'[u] = "call" <=> pc[u] = "call")
        /\ (pc[u] = "call" => cur'[u] = cur[u])
    BY <1>14 DEF PfDisable
  <2> QED
    BY <1>14, <2>1, StillPlaced DEF PfDisable
<1>15. ASSUME NEW t \in Threads, DrainTake(t) PROVE G
  <2>1. ASSUME pc[t] # "call", done # <<>>, Head(done) = Event, done' = Tail(done), pc' = [pc
                EXCEPT ![t] = "event"], UNCHANGED <<client, component, queue, cur, hand, chain>>
        PROVE  G
    <3>1. done \in Seq(Buffers \cup {Event}) /\ OnceIn(done, Buffers)
      BY DEF PlaceInv, NoRepeats
    <3>2. Range(done) = Range(done') \cup {Event} /\ OnceIn(done', Buffers)
      BY <2>1, <3>1, TailElements, TailOnce
    <3> QED
      BY <2>1, <3>2, QuietPlaced DEF Quiet
  <2>2. ASSUME pc[t] # "call", done # <<>>, Head(done) # Event, done' = Tail(done), cur' = [cur
                EXCEPT ![t] = Head(done)], pc' = [pc EXCEPT ![t] = "call"], UNCHANGED <<client,
                component, queue, hand, chain>>
        PROVE  G
    BY <2>2, DoneMoves
  <2> HIDE DEF G
  <2> QED
    BY <1>15, <2>1, <2>2 DEF DrainTake, DoCallback
<1>16. ASSUME NEW t \in Threads, DrainDone(t) PROVE G
  <2>1. \A u \in Threads : (pc'[u] = "call" <=> pc[u] = "call")
        /\ (pc[u] = "call" => cur'[u] = cur[u])
    BY <1>16 DEF DrainDone
  <2> QED
    BY <1>16, <2>1, StillPlaced DEF DrainDone
<1>17. ASSUME NEW t \in Threads, FlushQueue(t) PROVE G
  <2>1. ASSUME UNCHANGED <<client, component, queue, done, hand, chain>>, pc[t] # "call", pc' =
                [pc EXCEPT ![t] = "wait"], UNCHANGED cur
        PROVE  G
    BY <2>1, StillPlaced
  <2>2. ASSUME pc[t] = "flushQueue", queue # <<>>, queue' = Tail(queue), cur' = [cur EXCEPT ![t]
                = Head(queue)], pc' = [pc EXCEPT ![t] = "call"], UNCHANGED <<client, component,
                done, hand, chain>>
        PROVE  G
    BY <2>2, FlushMoves
  <2> HIDE DEF G
  <2> QED
    BY <1>17, <2>1, <2>2 DEF FlushQueue
<1>18. ASSUME NEW t \in Threads, WaitTransit(t) PROVE G
  <2>1. \A u \in Threads : (pc'[u] = "call" <=> pc[u] = "call")
        /\ (pc[u] = "call" => cur'[u] = cur[u])
    BY <1>18 DEF WaitTransit, AllBack
  <2> QED
    BY <1>18, <2>1, StillPlaced DEF WaitTransit, AllBack
<1>19. ASSUME NEW t \in Threads, FlushLock(t) PROVE G
  <2>1. \A u \in Threads : (pc'[u] = "call" <=> pc[u] = "call")
        /\ (pc[u] = "call" => cur'[u] = cur[u])
    BY <1>19, FlushLocks
  <2> QED
    BY <1>19, FlushLocks, <2>1, StillPlaced
<1>20. ASSUME NEW t \in Threads, PfFlush(t) PROVE G
  <2>1. ASSUME UNCHANGED <<client, component, queue, done, hand, chain>>, pc[t] # "call", pc' =
                [pc EXCEPT ![t] = "idle"], UNCHANGED cur
        PROVE  G
    BY <2>1, StillPlaced
  <2>2. ASSUME pc[t] = "pfFlush", chain' = [chain EXCEPT ![t] = queue], queue' = <<>>, pc' = [pc
                EXCEPT ![t] = "chain"], UNCHANGED <<client, component, done, cur, hand>>
        PROVE  G
    <3>1. chain[t] = <<>>
      BY <2>2 DEF Frames, Stage, Resting, InClient, Sending
    <3>2. \A u \in Threads : pc'[u] = "call" <=> pc[u] = "call"
      BY <2>2
    <3> QED
      BY <2>2, <3>1, <3>2, TakenMoves
  <2> HIDE DEF G
  <2> QED
    BY <1>20, <2>1, <2>2 DEF PfFlush, QueueAfterFlush
<1>21. ASSUME NEW t \in Threads, FlushChain(t) PROVE G
  <2>1. ASSUME UNCHANGED <<client, component, queue, done, hand, chain>>, pc[t] # "call", pc' =
                [pc EXCEPT ![t] = "idle"], UNCHANGED cur
        PROVE  G
    BY <2>1, StillPlaced
  <2>2. ASSUME pc[t] = "chain", chain[t] # <<>>, chain' = [chain EXCEPT ![t] = Tail(@)], cur' =
                [cur EXCEPT ![t] = Head(chain[t])], pc' = [pc EXCEPT ![t] = "call"], UNCHANGED
                <<client, component, queue, done, hand>>
        PROVE  G
    BY <2>2, ChainMoves
  <2> HIDE DEF G
  <2> QED
    BY <1>21, <2>1, <2>2 DEF FlushChain
<1>22. ASSUME NEW t \in Threads, NEW b \in Buffers, SendBuffer(t, b) PROVE G
  <2>1. /\ pc[t] \in {"callback", "idle"} /\ b \in client /\ client' = client \ {b}
        /\ hand' = [hand EXCEPT ![t] = b] /\ pc' = [pc EXCEPT ![t] = "sendLock"]
        /\ UNCHANGED <<component, queue, done, cur, chain>>
    BY <1>22 DEF SendBuffer
  <2>2. hand[t] = None
    BY <2>1 DEF Frames, Sending
  <2> QED
    BY <2>1, <2>2, SendMoves
<1>23. ASSUME NEW t \in Controllers, EnablePort(t) PROVE G
  <2>1. \A u \in Threads : (pc'[u] = "call" <=> pc[u] = "call")
        /\ (pc[u] = "call" => cur'[u] = cur[u])
    BY <1>23 DEF EnablePort
  <2> QED
    BY <1>23, <2>1, StillPlaced DEF EnablePort
<1>24. ASSUME NEW t \in Controllers, DisablePort(t) PROVE G
  <2>1. \A u \in Threads : (pc'[u] = "call" <=> pc[u] = "call")
        /\ (pc[u] = "call" => cur'[u] = cur[u])
    BY <1>24 DEF DisablePort
  <2> QED
    BY <1>24, <2>1, StillPlaced DEF DisablePort
<1>25. ASSUME NEW t \in Controllers, Flush(t) PROVE G
  <2>1. \A u \in Threads : (pc'[u] = "call" <=> pc[u] = "call")
        /\ (pc[u] = "call" => cur'[u] = cur[u])
    BY <1>25 DEF Flush
  <2> QED
    BY <1>25, <2>1, StillPlaced DEF Flush
<1>26. ASSUME NEW t \in Controllers, Pause(t) PROVE G
  <2>1. \A u \in Threads : (pc'[u] = "call" <=> pc[u] = "call")
        /\ (pc[u] = "call" => cur'[u] = cur[u])
    BY <1>26 DEF Pause
  <2> QED
    BY <1>26, <2>1, StillPlaced DEF Pause
<1>27. ASSUME NEW t \in Controllers, Resume(t) PROVE G
  <2>1. ASSUME UNCHANGED <<client, component, queue, done, hand, chain, pc, cur>>
        PROVE  G
    BY <2>1, StillPlaced
  <2>2. ASSUME NEW n \in 0..Len(queue), component' = component \cup {queue[i] : i \in 1..n},
                queue' = SubSeq(queue, n + 1, Len(queue)), UNCHANGED <<client, done, pc, cur,
                hand, chain>>
        PROVE  G
    BY <2>2, ResumeMoves
  <2> HIDE DEF G
  <2> QED
    BY <1>27, <2>1, <2>2 DEF Resume
<1>28. ASSUME ActionLock PROVE G
  <2>1. \A u \in Threads : (pc'[u] = "call" <=> pc[u] = "call")
        /\ (pc[u] = "call" => cur'[u] = cur[u])
    BY <1>28 DEF ActionLock
  <2> QED
    BY <1>28, <2>1, StillPlaced DEF ActionLock
<1>29. ASSUME At(Action, "loop"), DoCallback(Action) PROVE G
  <2>1. ASSUME pc[Action] # "call", done # <<>>, Head(done) = Event, done' = Tail(done), pc' =
                [pc EXCEPT ![Action] = "event"], UNCHANGED <<client, component, queue, cur, hand,
                chain>>
        PROVE  G
    <3>1. done \in Seq(Buffers \cup {Event}) /\ OnceIn(done, Buffers)
      BY DEF PlaceInv, NoRepeats
    <3>2. Range(done) = Range(done') \cup {Event} /\ OnceIn(done', Buffers)
      BY <2>1, <3>1, TailElements, TailOnce
    <3> QED
      BY <2>1, <3>2, QuietPlaced DEF Quiet
  <2>2. ASSUME pc[Action] # "call", done # <<>>, Head(done) # Event, done' = Tail(done), cur' =
                [cur EXCEPT ![Action] = Head(done)], pc' = [pc EXCEPT ![Action] = "call"],
                UNCHANGED <<client, component, queue, hand, chain>>
        PROVE  G
    BY <2>2, DoneMoves
  <2> HIDE DEF G
  <2> QED
    BY <1>29, <2>1, <2>2 DEF DoCallback
<1>30. ASSUME ActionUnlock PROVE G
  <2>1. \A u \in Threads : (pc'[u] = "call" <=> pc[u] = "call")
        /\ (pc[u] = "call" => cur'[u] = cur[u])
    BY <1>30 DEF ActionUnlock
  <2> QED
    BY <1>30, <2>1, StillPlaced DEF ActionUnlock
<1>31. ASSUME NEW b \in Buffers, ReturnBuffer(b) PROVE G
  <2>1. /\ b \in component /\ component' = component \ {b} /\ done' = Append(done, b)
        /\ UNCHANGED <<client, queue, pc, cur, hand, chain>>
    BY <1>31 DEF ReturnBuffer
  <2> QED
    BY <2>1, ReturnMoves
<1>32. ASSUME ReturnFreedContext PROVE G
  BY <1>32, StillPlaced DEF ReturnFreedContext, Crash
<1>33. ASSUME SendEvent PROVE G
  <2>1. done' = Append(done, Event) /\ done \in Seq(Buffers \cup {Event}) /\ OnceIn(done, Buffers)
    BY <1>33 DEF SendEvent, PlaceInv, NoRepeats
  <2>2. Range(done') = Range(done) \cup {Event} /\ OnceIn(done', Buffers)
    <3>1. Event \in Buffers \cup {Event} /\ Event \notin Buffers
      OBVIOUS
    <3>2. Range(Append(done, Event)) = Range(done) \cup {Event}
      <4>1. done \in Seq(Buffers \cup {Event})
        BY <2>1
      <4> HIDE DEF Control, Types, HeaderTypes, FlagTypes, ThreadTypes
      <4> QED
        BY <3>1, <4>1, AppendElements
    <3>3. OnceIn(Append(done, Event), Buffers)
      BY <2>1, <3>1, AppendOnce, Zenon
    <3> QED
      BY <2>1, <3>2, <3>3
  <2>3. UNCHANGED <<client, component, queue, hand, chain, pc, cur>>
    BY <1>33 DEF SendEvent
  <2> QED
    BY <2>2, <2>3, QuietPlaced DEF Quiet
<1>34. ASSUME UNCHANGED vars PROVE G
  BY <1>34, StillPlaced DEF vars
<1> QED
  BY <1>1, <1>2, <1>3, <1>4, <1>5, <1>6, <1>7, <1>8, <1>9, <1>10, <1>11, <1>12, <1>13, <1>14,
  <1>15, <1>16, <1>17, <1>18, <1>19, <1>20, <1>21, <1>22, <1>23, <1>24, <1>25, <1>26, <1>27,
  <1>28, <1>29, <1>30, <1>31, <1>32, <1>33, <1>34 DEF Next, InCall, Begin, ActionThread, Crashed

LEMMA InitControl == Init => Control
<1> SUFFICES ASSUME Init PROVE Control
  OBVIOUS
<1> USE ThreadsAre
<1>1. FlagTypes
  <2>1. transit = 0 /\ events = MaxEvents /\ connLock = None /\ sendLock = None /\ actLock = None
    BY DEF Init
  <2>3. /\ isEnabled \in BOOLEAN /\ isPaused \in BOOLEAN /\ callback \in BOOLEAN
        /\ hasPool \in BOOLEAN /\ crashed \in BOOLEAN
    BY Zenon DEF Init
  <2>4. transit \in Int /\ events \in 0..MaxEvents
    BY <2>1
  <2> QED
    BY <2>1, <2>3, <2>4 DEF FlagTypes
<1>2. ThreadTypes
  BY EmptySeq DEF Init, ThreadTypes, Labels, Sending
<1>3. HeaderTypes
  BY EmptySeq DEF Init, HeaderTypes
<1>4. Frames /\ LockInv /\ Flags
  BY DEF Init, Frames, LockInv, Flags, Stage, InClient, Sending, Resting, Holding, Dispatching,
         Connecting, Emptying
<1> QED
  BY <1>1, <1>2, <1>3, <1>4 DEF Control, Types

LEMMA InitPlaced == Init => PlaceInv
<1> SUFFICES ASSUME Init PROVE PlaceInv
  OBVIOUS
<1> USE ThreadsAre
<1>1. /\ client = Buffers /\ component = {} /\ queue = <<>> /\ done = <<>>
      /\ \A t \in Threads : cur[t] = None /\ hand[t] = None /\ chain[t] = <<>>
  BY DEF Init
<1>2. Range(<<>>) = {} /\ OnceIn(<<>>, Buffers)
  BY EmptySeq
<1>3. Range(queue) = {} /\ Range(done) = {} /\ \A t \in Threads : Range(chain[t]) = {}
  BY <1>1, <1>2, Zenon
<1>4. \A x \in Buffers, k \in Named : In(x, Spot(k)) <=> Spot(k) = Spot("client")
  BY <1>1, <1>3 DEF In, Spot, Named
<1>5. \A x \in Buffers, k \in {"cur", "hand", "chain"}, t \in Threads :
        ~In(x, <<k, t>>) /\ <<k, t>> # Spot("client")
  BY <1>1, <1>3 DEF In, Spot
<1>6. Placed
  <2>1. \A x \in Buffers, r \in Spots : In(x, r) <=> r = Spot("client")
    BY <1>4, <1>5 DEF Spots
  <2> QED
    BY <2>1, SpotTypes DEF Placed, Named
<1>7. NoRepeats
  BY <1>1, <1>2 DEF NoRepeats
<1> QED
  BY <1>6, <1>7 DEF PlaceInv

LEMMA ControlAndPlaces == Spec => [](Control /\ PlaceInv)
<1>1. Init => Control /\ PlaceInv
  BY InitControl, InitPlaced
<1>2. Control /\ PlaceInv /\ [Next]_vars => Control' /\ PlaceInv'
  <2> SUFFICES ASSUME Control, PlaceInv, [Next]_vars PROVE Control' /\ PlaceInv'
    OBVIOUS
  <2>1. Types /\ Frames
    BY DEF Control
  <2>2. FlagTypes' /\ ThreadTypes' /\ HeaderTypes'
    BY <2>1, NextFlagTypes, NextThreadTypes, NextHeaderTypes
  <2>3. Frames' /\ LockInv' /\ Flags'
    BY NextFrames, NextLocks, NextFlags
  <2> QED
    BY <2>2, <2>3, NextPlaced DEF Control, Types
<1> QED
  BY <1>1, <1>2, PTL DEF Spec

LEMMA SpotIsPlace ==
  ASSUME Control, PlaceInv
  PROVE  OnePlace
<1> SUFFICES ASSUME NEW b \in Buffers
             PROVE  \E x : Places(b) = {x}
    BY DEF OnePlace
<1>1. PICK p \in Spots : \A r \in Spots : In(b, r) <=> r = p
  BY DEF PlaceInv, Placed
<1> DEFINE Owned == {<<"client", x>> : x \in client \cap {b}}
           Comps  == {<<"component", x>> : x \in component \cap {b}}
           Queued == {<<"queue", i>> : i \in Positions(queue, b)}
           Backs  == {<<"done", i>> : i \in Positions(done, b)}
           Curs   == {<<"cur", t>> : t \in {u \in Threads : pc[u] = "call" /\ cur[u] = b}}
           Hands  == {<<"hand", t>> : t \in {u \in Threads : hand[u] = b}}
           Chain(t) == {<<"chain", t, i>> : i \in Positions(chain[t], b)}
           Chains == UNION {Chain(t) : t \in Threads}
<1>2. Places(b) = Owned \cup Comps \cup Queued \cup Backs \cup Curs \cup Hands \cup Chains
  BY Zenon DEF Places
<1>3. /\ b \in client <=> p = Spot("client")
      /\ b \in component <=> p = Spot("component")
      /\ b \in Range(queue) <=> p = Spot("queue")
      /\ b \in Range(done) <=> p = Spot("done")
  <2>1. \A k \in Named : In(b, Spot(k)) <=> p = Spot(k)
    BY <1>1, SpotTypes
  <2> QED
    BY <2>1 DEF In, Spot, Named
<1>4. \A t \in Threads : /\ pc[t] = "call" /\ cur[t] = b <=> p = <<"cur", t>>
                         /\ hand[t] = b <=> p = <<"hand", t>>
                         /\ b \in Range(chain[t]) <=> p = <<"chain", t>>
  <2>1. \A k \in {"cur", "hand", "chain"}, t \in Threads : In(b, <<k, t>>) <=> p = <<k, t>>
    BY <1>1, SpotTypes
  <2> QED
    BY <2>1 DEF In
<1>5. ASSUME NEW s, s \in Seq(Buffers \cup {Event}), OnceIn(s, Buffers)
      PROVE  /\ b \in Range(s) => \E i : Positions(s, b) = {i}
             /\ b \notin Range(s) => Positions(s, b) = {}
  <2>1. /\ b \in Range(s) => \E i \in DOMAIN s : {j \in DOMAIN s : s[j] = b} = {i}
        /\ b \notin Range(s) => {j \in DOMAIN s : s[j] = b} = {}
    BY <1>5, OncePosition, Zenon
  <2> QED
    BY <2>1, Zenon DEF Positions
<1>6. /\ queue \in Seq(Buffers \cup {Event}) /\ done \in Seq(Buffers \cup {Event})
      /\ OnceIn(queue, Buffers) /\ OnceIn(done, Buffers)
      /\ \A t \in Threads : chain[t] \in Seq(Buffers \cup {Event}) /\ OnceIn(chain[t], Buffers)
  BY DEF Control, Types, ThreadTypes, HeaderTypes, PlaceInv, NoRepeats
<1>7. /\ IF p = Spot("client") THEN \E x : Owned = {x} ELSE Owned = {}
      /\ IF p = Spot("component") THEN \E x : Comps = {x} ELSE Comps = {}
  BY <1>3
<1>8. /\ IF p = Spot("queue") THEN \E x : Queued = {x} ELSE Queued = {}
      /\ IF p = Spot("done") THEN \E x : Backs = {x} ELSE Backs = {}
  <2>1. ASSUME NEW k, NEW s \in {queue, done}, b \in Range(s) <=> p = Spot(k)
        PROVE  LET X == {<<k, i>> : i \in Positions(s, b)}
               IN  IF p = Spot(k) THEN \E x : X = {x} ELSE X = {}
    <3>1. CASE p = Spot(k)
      <4>1. PICK i : Positions(s, b) = {i}
        BY <1>5, <1>6, <2>1, <3>1
      <4>2. {<<k, j>> : j \in Positions(s, b)} = {<<k, i>>}
        BY <4>1
      <4> QED
        BY <3>1, <4>2
    <3>2. CASE p # Spot(k)
      <4>1. Positions(s, b) = {}
        BY <1>5, <1>6, <2>1, <3>2
      <4> QED
        BY <3>2, <4>1
    <3> QED
      BY <3>1, <3>2
  <2> QED
    BY <1>3, <2>1
<1>9. /\ IF p \in {"cur"} \X Threads THEN Curs = {p} ELSE Curs = {}
      /\ IF p \in {"hand"} \X Threads THEN Hands = {p} ELSE Hands = {}
  <2>1. Curs = {<<"cur", t>> : t \in {u \in Threads : p = <<"cur", u>>}}
    BY <1>4
  <2>2. Hands = {<<"hand", t>> : t \in {u \in Threads : p = <<"hand", u>>}}
    BY <1>4
  <2> HIDE DEF Curs, Hands
  <2>3. ASSUME NEW k
        PROVE  LET X == {<<k, t>> : t \in {u \in Threads : p = <<k, u>>}}
               IN  IF p \in {k} \X Threads THEN X = {p} ELSE X = {}
    OBVIOUS
  <2> QED
    BY <2>1, <2>2, <2>3
<1>10. IF p \in {"chain"} \X Threads THEN \E x : Chains = {x} ELSE Chains = {}
  <2>1. \A t \in Threads : p # <<"chain", t>> => Chain(t) = {}
    BY <1>4, <1>5, <1>6
  <2>2. CASE p \in {"chain"} \X Threads
    <3>1. PICK t \in Threads : p = <<"chain", t>>
      BY <2>2
    <3>2. PICK i : Positions(chain[t], b) = {i}
      BY <1>4, <1>5, <1>6, <3>1
    <3>3. Chain(t) = {<<"chain", t, i>>}
      BY <3>2
    <3>4. \A u \in Threads : u # t => Chain(u) = {}
      BY <2>1, <3>1
    <3> HIDE DEF Chain
    <3>5. Chains = {<<"chain", t, i>>}
      BY <3>3, <3>4
    <3> HIDE DEF Chains
    <3> QED
      BY <2>2, <3>5
  <2>3. CASE p \notin {"chain"} \X Threads
    <3>1. \A t \in Threads : Chain(t) = {}
      BY <2>1, <2>3
    <3> HIDE DEF Chain
    <3>2. Chains = {}
      BY <3>1
    <3> QED
      BY <2>3, <3>2
  <2> QED
    BY <2>2, <2>3
<1> HIDE DEF Owned, Comps, Queued, Backs, Curs, Hands, Chains
<1>11. CASE \E k \in Named : p = Spot(k)
  <2>1. \A k \in {"cur", "hand", "chain"} : p \notin {k} \X Threads
    BY <1>11, ThreadsAre DEF Spot
  <2>2. Curs = {} /\ Hands = {} /\ Chains = {}
    BY <1>9, <1>10, <2>1
  <2>3. PICK k \in Named : p = Spot(k)
    BY <1>11
  <2>4. \A j : p = Spot(j) <=> j = k
    BY <2>3 DEF Spot
  <2>5. k \in {"client", "component", "queue", "done"}
    BY DEF Named
  <2>6. \E x : Owned \cup Comps \cup Queued \cup Backs = {x}
    <3>1. /\ IF k = "client" THEN \E x : Owned = {x} ELSE Owned = {}
          /\ IF k = "component" THEN \E x : Comps = {x} ELSE Comps = {}
          /\ IF k = "queue" THEN \E x : Queued = {x} ELSE Queued = {}
          /\ IF k = "done" THEN \E x : Backs = {x} ELSE Backs = {}
      BY <1>7, <1>8, <2>4
    <3>2. CASE k = "client"
      BY <3>1, <3>2
    <3>3. CASE k = "component"
      BY <3>1, <3>3
    <3>4. CASE k = "queue"
      BY <3>1, <3>4
    <3>5. CASE k = "done"
      BY <3>1, <3>5
    <3> QED
      BY <2>5, <3>2, <3>3, <3>4, <3>5
  <2> QED
    BY <1>2, <2>2, <2>6
<1>12. CASE p \in {"cur", "hand", "chain"} \X Threads
  <2>1. \A k : p # Spot(k)
    BY <1>12, ThreadsAre DEF Spot
  <2>2. \E k \in {"cur", "hand", "chain"} :
          /\ p \in {k} \X Threads
          /\ \A j \in {"cur", "hand", "chain"} : j # k => p \notin {j} \X Threads
    BY <1>12
  <2> QED
    BY <1>2, <1>7, <1>8, <1>9, <1>10, <2>1, <2>2
<1> QED
  BY <1>11, <1>12 DEF Spots

\* However sends, flushes, resumes, callbacks and disables of any number of threads
\* overlap, each of any number of headers is in one place: it is never sent twice,
\* called back twice or dropped.
THEOREM HeadersPlaced == Spec => []OnePlace
BY ControlAndPlaces, SpotIsPlace, PTL

\* A port that is enabled, has its pool and is not paused has nothing in its internal
\* queue, so no header is overtaken by a later one.
THEOREM NoneOvertaken == Spec => []NoOvertaking
<1>1. Control => NoOvertaking
  BY DEF Control, Flags, NoOvertaking
<1> QED
  BY ControlAndPlaces, <1>1, PTL

-----------------------------------------------------------------------------
(* How many headers the port has.                                           *)

Calling  == {t \in Threads : cur[t] # None}
Passing == {t \in Threads : pc[t] \in {"pass", "uncount"}}
Chained == {x \in Threads \X Buffers : x[2] \in Range(chain[x[1]])}

Total ==
  Len(queue) + Cardinality(component) + Cardinality(PlacesOf(done, Buffers))
  + Cardinality(Calling) + Cardinality(Passing) + Cardinality(Chained)

LEMMA TransitSum == TransitExact <=> transit = Total
<1>1. \A x \in Threads \X Buffers : Positions(chain[x[1]], x[2]) # {}
      <=> x[2] \in Range(chain[x[1]])
  BY DEF Positions, Range
<1>2. Chained = {x \in Threads \X Buffers : Positions(chain[x[1]], x[2]) # {}}
  BY <1>1 DEF Chained
<1> QED
  BY <1>2 DEF TransitExact, Total, PlacesOf, Calling, Passing

LEMMA PrimedSum ==
  ASSUME transit' = Total'
  PROVE  TransitExact'
<1>1. \A x \in Threads \X Buffers :
        Positions(chain'[x[1]], x[2]) # {} <=> x[2] \in Range(chain'[x[1]])
  BY DEF Positions, Range
<1>2. Chained' = {x \in Threads \X Buffers : Positions(chain'[x[1]], x[2]) # {}}
  BY <1>1 DEF Chained
<1> QED
  BY <1>2 DEF TransitExact, Total, PlacesOf, Calling, Passing

LEMMA CountTypes ==
  ASSUME Types
  PROVE  /\ queue \in Seq(Buffers) /\ Len(queue) \in Nat
         /\ IsFiniteSet(component) /\ Cardinality(component) \in Nat
         /\ done \in Seq(Buffers \cup {Event}) /\ Cardinality(PlacesOf(done, Buffers)) \in Nat
         /\ IsFiniteSet(Calling) /\ Cardinality(Calling) \in Nat
         /\ IsFiniteSet(Passing) /\ Cardinality(Passing) \in Nat
         /\ IsFiniteSet(Chained) /\ Cardinality(Chained) \in Nat
<1>1. queue \in Seq(Buffers) /\ done \in Seq(Buffers \cup {Event}) /\ component \subseteq Buffers
  BY DEF Types, HeaderTypes
<1>2. IsFiniteSet(component) /\ IsFiniteSet(Calling) /\ IsFiniteSet(Passing)
  BY <1>1, ThreadsAre, FS_Subset DEF Calling, Passing
<1>3. IsFiniteSet(Chained)
  <2>1. Chained \subseteq Threads \X Buffers
    BY DEF Chained
  <2> QED
    BY <2>1, ThreadsAre, FS_Subset, FS_Product
<1> QED
  BY <1>1, <1>2, <1>3, SeqDomain, CountType, FS_CardinalityType

LEMMA CountNats ==
  ASSUME Control
  PROVE  /\ Len(queue) \in Nat /\ Cardinality(component) \in Nat
         /\ Cardinality(PlacesOf(done, Buffers)) \in Nat /\ Cardinality(Calling) \in Nat
         /\ Cardinality(Passing) \in Nat /\ Cardinality(Chained) \in Nat
BY CountTypes DEF Control

\* What one thread does changes what the threads have by that thread at most.
LEMMA CallingStep ==
  ASSUME Types, NEW t \in Threads, \A u \in Threads : u # t => cur'[u] = cur[u]
  PROVE  Cardinality(Calling') = Cardinality(Calling) + One(cur'[t] # None) - One(cur[t] # None)
<1>1. Calling' \ {t} = Calling \ {t}
  BY DEF Calling
<1>2. (t \in Calling' <=> cur'[t] # None) /\ (t \in Calling <=> cur[t] # None)
  BY DEF Calling
<1> QED
  BY <1>1, <1>2, DifferInOne, CountTypes DEF One

LEMMA PassingStep ==
  ASSUME Types, NEW t \in Threads, \A u \in Threads : u # t => pc'[u] = pc[u]
  PROVE  Cardinality(Passing') =
           Cardinality(Passing) + One(pc'[t] \in {"pass", "uncount"}) -
               One(pc[t] \in {"pass", "uncount"})
<1>1. Passing' \ {t} = Passing \ {t}
  BY DEF Passing
<1>2. /\ t \in Passing' <=> pc'[t] \in {"pass", "uncount"}
      /\ t \in Passing <=> pc[t] \in {"pass", "uncount"}
  BY DEF Passing
<1> QED
  BY <1>1, <1>2, DifferInOne, CountTypes DEF One

\* No thread joins those between the count and VideoCore, or leaves them.
SamePassing == \A u \in Threads : pc'[u] \in {"pass", "uncount"} <=> pc[u] \in {"pass", "uncount"}

LEMMA PassingSame ==
  ASSUME SamePassing
  PROVE  Passing' = Passing
BY DEF SamePassing, Passing

LEMMA StillCounted ==
  ASSUME TransitExact, UNCHANGED <<transit, queue, component, done, cur, chain>>, SamePassing
  PROVE  TransitExact'
<1>1. Passing' = Passing /\ Calling' = Calling /\ Chained' = Chained
  BY PassingSame DEF Calling, Chained
<1>2. Total' = Total
  BY <1>1 DEF Total
<1>3. transit = Total
  BY TransitSum
<1>4. transit' = Total'
  BY <1>2, <1>3
<1> QED
  BY <1>4, PrimedSum

LEMMA CountInCounted ==
  ASSUME Control, TransitExact, NEW t \in Threads, CountIn(t)
  PROVE  TransitExact'
<1>1. /\ pc[t] = "count" /\ pc'[t] = "pass" /\ \A u \in Threads : u # t => pc'[u] = pc[u]
      /\ transit' = transit + 1 /\ UNCHANGED <<queue, component, done, cur, chain>>
  BY DEF CountIn, Counted, At, Goto, headers, calls, Control, Types, ThreadTypes
<1>2. Cardinality(Passing') = Cardinality(Passing) + 1
  <2>1. Cardinality(Passing') =
          Cardinality(Passing) + One(pc'[t] \in {"pass", "uncount"}) -
              One(pc[t] \in {"pass", "uncount"})
    BY <1>1, PassingStep DEF Control
  <2>2. One(pc'[t] \in {"pass", "uncount"}) = 1 /\ One(pc[t] \in {"pass", "uncount"}) = 0
    BY <1>1 DEF One
  <2> QED
    BY <2>1, <2>2, CountTypes DEF Control
<1>3. Calling' = Calling /\ Chained' = Chained
  BY <1>1 DEF Calling, Chained
<1> QED
  BY <1>1, <1>2, <1>3, TransitSum, PrimedSum, CountTypes DEF Total, Control

LEMMA PassCounted ==
  ASSUME Control, PlaceInv, TransitExact, NEW t \in Threads, Pass(t)
  PROVE  TransitExact'
<1>1. /\ pc[t] = "pass" /\ pc'[t] \notin {"pass", "uncount"}
      /\ \A u \in Threads : u # t => pc'[u] = pc[u]
      /\ UNCHANGED <<transit, done, cur, chain>> /\ hand[t] \in Buffers
  BY DEF Pass, At, Goto, Sent, Control, Frames, Sending, Types, ThreadTypes
<1>2. Cardinality(Passing') = Cardinality(Passing) - 1
  <2>1. Cardinality(Passing') =
          Cardinality(Passing) + One(pc'[t] \in {"pass", "uncount"}) -
              One(pc[t] \in {"pass", "uncount"})
    BY <1>1, PassingStep DEF Control
  <2>2. One(pc'[t] \in {"pass", "uncount"}) = 0 /\ One(pc[t] \in {"pass", "uncount"}) = 1
    BY <1>1 DEF One
  <2> QED
    BY <2>1, <2>2, CountTypes DEF Control
<1>3. Calling' = Calling /\ Chained' = Chained
  BY <1>1 DEF Calling, Chained
<1>4. CASE queue' = Append(queue, hand[t]) /\ component' = component
  <2>1. Len(queue') = Len(queue) + 1
    BY <1>1, <1>4, AppendElements, CountTypes DEF Control
  <2>2. Total' = Total
    BY <1>1, <1>2, <1>3, <1>4, <2>1, CountNats DEF Total
  <2> QED
    BY <1>1, <2>2, TransitSum, PrimedSum
<1>5. CASE component' = component \cup {hand[t]} /\ queue' = queue
  <2>1. hand[t] \notin component
    <3>1. In(hand[t], <<"hand", t>>) /\ <<"hand", t>> \in Spots /\ Spot("component") \in Spots
      BY SpotTypes DEF In, Named
    <3>2. ~In(hand[t], Spot("component"))
      BY <1>1, <3>1, Alone DEF Spot
    <3> QED
      BY <3>2 DEF In, Spot
  <2>2. Cardinality(component') = Cardinality(component) + 1
    BY <1>5, <2>1, FS_AddElement, CountTypes DEF Control
  <2>3. /\ Len(queue') = Len(queue)
        /\ Cardinality(PlacesOf(done', Buffers)) = Cardinality(PlacesOf(done, Buffers))
        /\ Cardinality(Calling') = Cardinality(Calling)
        /\ Cardinality(Chained') = Cardinality(Chained)
    BY <1>1, <1>3, <1>5
  <2>4. Total' = Total
    BY <1>2, <2>2, <2>3, CountNats DEF Total
  <2> QED
    BY <1>1, <2>4, TransitSum, PrimedSum
<1> QED
  BY <1>4, <1>5 DEF Pass

LEMMA UncountCounted ==
  ASSUME Control, TransitExact, NEW t \in Threads, Uncount(t)
  PROVE  TransitExact'
<1>1. /\ pc[t] = "uncount" /\ pc'[t] \notin {"pass", "uncount"}
      /\ \A u \in Threads : u # t => pc'[u] = pc[u]
      /\ transit' = transit - 1 /\ UNCHANGED <<queue, component, done, cur, chain>>
  BY DEF Uncount, SendEnds, At, Goto, Sent, Control, Types, ThreadTypes
<1>2. Cardinality(Passing') = Cardinality(Passing) - 1
  <2>1. Cardinality(Passing') =
          Cardinality(Passing) + One(pc'[t] \in {"pass", "uncount"}) -
              One(pc[t] \in {"pass", "uncount"})
    BY <1>1, PassingStep DEF Control
  <2>2. One(pc'[t] \in {"pass", "uncount"}) = 0 /\ One(pc[t] \in {"pass", "uncount"}) = 1
    BY <1>1 DEF One
  <2> QED
    BY <2>1, <2>2, CountTypes DEF Control
<1>3. Calling' = Calling /\ Chained' = Chained
  BY <1>1 DEF Calling, Chained
<1> QED
  BY <1>1, <1>2, <1>3, TransitSum, PrimedSum, CountTypes DEF Total, Control

LEMMA ReturnCounted ==
  ASSUME Control, TransitExact, NEW t \in Threads, ReturnFromCallback(t)
  PROVE  TransitExact'
<1>1. /\ cur[t] # None /\ cur'[t] = None /\ \A u \in Threads : u # t => cur'[u] = cur[u]
      /\ transit' = transit - 1 /\ UNCHANGED <<queue, component, done, chain>>
  BY DEF ReturnFromCallback, At, headers, Control, Frames, InClient, Types, ThreadTypes
<1>2. SamePassing
  BY DEF ReturnFromCallback, At, Return, Goto, SamePassing, Control, Frames, Resting, Types,
      ThreadTypes
<1>3. Cardinality(Calling') = Cardinality(Calling) - 1
  BY <1>1, CallingStep, CountTypes DEF One, Control
<1>4. Passing' = Passing /\ Chained' = Chained
  BY <1>1, <1>2, PassingSame DEF Chained
<1> QED
  BY <1>1, <1>3, <1>4, TransitSum, PrimedSum, CountTypes DEF Total, Control

LEMMA CalledCounted ==
  ASSUME Control, TransitExact, NEW t \in Threads, cur[t] = None, DoCallback(t),
         pc[t] \notin {"pass", "uncount"}
  PROVE  TransitExact'
<1>1. /\ done # <<>> /\ done' = Tail(done) /\ UNCHANGED <<transit, queue, component, chain>>
      /\ \A u \in Threads : u # t => cur'[u] = cur[u]
  BY DEF DoCallback, port, Control, Types, ThreadTypes
<1>2. SamePassing
  BY DEF DoCallback, Goto, SamePassing, Control, Types, ThreadTypes
<1>3. Passing' = Passing /\ Chained' = Chained
  BY <1>1, <1>2, PassingSame DEF Chained
<1>4. Cardinality(PlacesOf(done', Buffers)) =
      Cardinality(PlacesOf(done, Buffers)) - One(Head(done) \in Buffers)
  BY <1>1, CountTail, CountTypes DEF Control
<1>5. cur'[t] # None <=> Head(done) \in Buffers
  <2>1. Head(done) \in Buffers \cup {Event} /\ Event \notin Buffers /\ None \notin Buffers
    BY <1>1, TailElements, CountTypes, ThreadsAre DEF Control
  <2>2. \/ Head(done) = Event /\ cur' = cur
        \/ Head(done) # Event /\ cur' = [cur EXCEPT ![t] = Head(done)]
    BY DEF DoCallback
  <2> QED
    BY <2>1, <2>2 DEF Control, Types, ThreadTypes
<1>6. Cardinality(Calling') = Cardinality(Calling) + One(Head(done) \in Buffers)
  BY <1>1, <1>5, CallingStep, CountTypes DEF One, Control
<1>7. One(Head(done) \in Buffers) \in Nat
  BY DEF One
<1> QED
  BY <1>1, <1>3, <1>4, <1>6, <1>7, TransitSum, PrimedSum, CountTypes DEF Total, Control

LEMMA GivenBackCounted ==
  ASSUME Control, TransitExact, NEW b \in Buffers, ReturnBuffer(b)
  PROVE  TransitExact'
<1>1. /\ b \in component /\ component' = component \ {b} /\ done' = Append(done, b)
      /\ UNCHANGED <<transit, queue, pc, cur, chain>>
  BY DEF ReturnBuffer, port, calls
<1>2. Cardinality(component') = Cardinality(component) - 1
  BY <1>1, FS_RemoveElement, CountTypes DEF Control
<1>3. Cardinality(PlacesOf(done', Buffers)) = Cardinality(PlacesOf(done, Buffers)) + 1
  BY <1>1, CountAppend, CountTypes DEF One, Control
<1>4. Passing' = Passing /\ Chained' = Chained /\ Calling' = Calling
  BY <1>1 DEF Passing, Chained, Calling
<1> QED
  BY <1>1, <1>2, <1>3, <1>4, TransitSum, PrimedSum, CountTypes DEF Total, Control

LEMMA EventCounted ==
  ASSUME Control, TransitExact, SendEvent
  PROVE  TransitExact'
<1>1. done' = Append(done, Event) /\ UNCHANGED <<transit, component, queue, pc, cur, chain>>
  BY DEF SendEvent, port, calls
<1>2. Cardinality(PlacesOf(done', Buffers)) = Cardinality(PlacesOf(done, Buffers))
  BY <1>1, CountAppend, CountTypes, ThreadsAre DEF One, Control
<1>3. Passing' = Passing /\ Chained' = Chained /\ Calling' = Calling
  BY <1>1 DEF Passing, Chained, Calling
<1> QED
  BY <1>1, <1>2, <1>3, TransitSum, PrimedSum, CountTypes DEF Total, Control

LEMMA FlushQueueCounted ==
  ASSUME Control, TransitExact, NEW t \in Threads, FlushQueue(t)
  PROVE  TransitExact'
<1>1. SamePassing /\ UNCHANGED <<transit, component, done, chain>> /\ pc[t] = "flushQueue"
  BY DEF FlushQueue, At, Goto, headers, SamePassing, Control, Types, ThreadTypes
<1>2. CASE queue = <<>>
  BY <1>1, <1>2, StillCounted DEF FlushQueue
<1>3. CASE queue # <<>>
  <2>1. /\ queue' = Tail(queue) /\ cur[t] = None /\ cur'[t] = Head(queue)
        /\ \A u \in Threads : u # t => cur'[u] = cur[u]
    BY <1>1, <1>3 DEF FlushQueue, Control, Frames, InClient, Sending, Types, ThreadTypes
  <2>2. Len(queue') = Len(queue) - 1 /\ cur'[t] # None
    BY <1>3, <2>1, TailElements, CountTypes, ThreadsAre DEF Control
  <2>3. Cardinality(Calling') = Cardinality(Calling) + 1
    BY <2>1, <2>2, CallingStep, CountTypes DEF One, Control
  <2>4. Passing' = Passing /\ Chained' = Chained
    BY <1>1, PassingSame DEF Chained
  <2> QED
    BY <1>1, <2>2, <2>3, <2>4, TransitSum, PrimedSum, CountTypes DEF Total, Control
<1> QED
  BY <1>2, <1>3

LEMMA FlushChainCounted ==
  ASSUME Control, PlaceInv, TransitExact, NEW t \in Threads, FlushChain(t)
  PROVE  TransitExact'
<1>1. SamePassing /\ UNCHANGED <<transit, component, done, queue>> /\ pc[t] = "chain"
  BY DEF FlushChain, At, Goto, port, headers, SamePassing, Control, Types, ThreadTypes
<1>2. CASE chain[t] = <<>>
  BY <1>1, <1>2, StillCounted DEF FlushChain
<1>3. CASE chain[t] # <<>>
  <2> DEFINE x == <<t, Head(chain[t])>>
  <2>1. /\ cur[t] = None /\ cur'[t] = Head(chain[t]) /\ chain'[t] = Tail(chain[t])
        /\ \A u \in Threads : u # t => cur'[u] = cur[u] /\ chain'[u] = chain[u]
    BY <1>1, <1>3 DEF FlushChain, Control, Frames, InClient, Sending, Types, ThreadTypes
  <2>2. chain[t] \in Seq(Buffers) /\ OnceIn(chain[t], Buffers)
    BY DEF Control, Types, ThreadTypes, PlaceInv, NoRepeats
  <2>3. /\ Head(chain[t]) \in Buffers
           /\ Range(chain[t]) = Range(Tail(chain[t])) \cup {Head(chain[t])}
        /\ Head(chain[t]) \notin Range(Tail(chain[t]))
    BY <1>3, <2>2, TailElements, TailOnce
  <2>4. Cardinality(Calling') = Cardinality(Calling) + 1
    BY <2>1, <2>3, CallingStep, CountTypes, ThreadsAre DEF One, Control
  <2>5. x \in Chained /\ Chained' = Chained \ {x}
    <3>1. ASSUME NEW u \in Threads, NEW b \in Buffers
          PROVE  b \in Range(chain'[u]) <=> b \in Range(chain[u]) /\ <<u, b>> # x
      BY <2>1, <2>3
    <3> QED
      BY <2>3, <3>1 DEF Chained
  <2> HIDE DEF x
  <2>6. Cardinality(Chained') = Cardinality(Chained) - 1
    BY <2>5, FS_RemoveElement, CountTypes DEF Control
  <2>7. Passing' = Passing
    BY <1>1, PassingSame
  <2> QED
    BY <1>1, <2>4, <2>6, <2>7, TransitSum, PrimedSum, CountTypes DEF Total, Control
<1> QED
  BY <1>2, <1>3

LEMMA PfFlushCounted ==
  ASSUME Control, PlaceInv, TransitExact, NEW t \in Threads, PfFlush(t)
  PROVE  TransitExact'
<1>1. SamePassing /\ UNCHANGED <<transit, component, done, cur>> /\ pc[t] = "pfFlush"
  BY DEF PfFlush, At, Goto, headers, SamePassing, Control, Types, ThreadTypes
<1>2. CASE UNCHANGED <<queue, chain>>
  BY <1>1, <1>2, StillCounted
<1>3. CASE chain' = [chain EXCEPT ![t] = queue] /\ queue' = <<>>
  <2>1. chain[t] = <<>>
    BY <1>1 DEF Control, Frames, Stage, Resting, InClient, Sending
  <2>2. chain'[t] = queue /\ \A u \in Threads : u # t => chain'[u] = chain[u]
    BY <1>3 DEF Control, Types, ThreadTypes
  <2>3. /\ queue \in Seq(Buffers) /\ OnceIn(queue, Buffers)
        /\ Range(queue) \subseteq Buffers /\ Range(chain[t]) = {}
    BY <2>1, CountTypes, SeqDomain DEF Control, Types, ThreadTypes, PlaceInv, NoRepeats
  <2>4. Chained' = Chained \cup ({t} \X Range(queue)) /\ Chained \cap ({t} \X Range(queue)) = {}
    <3>1. ASSUME NEW u \in Threads, NEW b \in Buffers
          PROVE  b \in Range(chain'[u]) <=> b \in Range(chain[u]) \/ (u = t /\ b \in Range(queue))
      BY <2>2, <2>3
    <3> QED
      BY <2>3, <3>1 DEF Chained
  <2>5. IsFiniteSet({t} \X Range(queue)) /\ Cardinality({t} \X Range(queue)) = Len(queue)
    <3>1. IsFiniteSet({t}) /\ Cardinality({t}) = 1
      BY FS_Singleton
    <3>2. IsFiniteSet(Range(queue)) /\ Cardinality(Range(queue)) = Len(queue)
      BY <2>3, OnceCardinality
    <3>3. /\ IsFiniteSet({t} \X Range(queue))
          /\ Cardinality({t} \X Range(queue)) = 1 * Len(queue)
      BY <3>1, <3>2, FS_Product
    <3> QED
      BY <3>3, CountTypes DEF Control
  <2>6. Cardinality(Chained') = Cardinality(Chained) + Len(queue)
    <3>1. Cardinality(Chained \cup ({t} \X Range(queue))) =
            Cardinality(Chained) + Cardinality({t} \X Range(queue)) - Cardinality({})
      BY <2>4, <2>5, FS_Union, CountTypes DEF Control
    <3> QED
      BY <2>4, <2>5, <3>1, FS_EmptySet, CountTypes DEF Control
  <2>7. Passing' = Passing /\ Calling' = Calling /\ Len(queue') = 0
    BY <1>1, <1>3, PassingSame DEF Calling
  <2> QED
    BY <1>1, <2>6, <2>7, TransitSum, PrimedSum, CountTypes DEF Total, Control
<1> QED
  BY <1>2, <1>3 DEF PfFlush, QueueAfterFlush

LEMMA ResumeCounted ==
  ASSUME Control, PlaceInv, TransitExact, NEW t \in Controllers, Resume(t)
  PROVE  TransitExact'
<1>1. UNCHANGED <<transit, done, pc, cur, chain>>
  BY DEF Resume, calls
<1>2. CASE UNCHANGED <<queue, component>>
  BY <1>1, <1>2, StillCounted DEF SamePassing
<1>3. ASSUME NEW n \in 0..Len(queue), component' = component \cup {queue[i] : i \in 1..n},
             queue' = SubSeq(queue, n + 1, Len(queue))
      PROVE  TransitExact'
  <2> DEFINE M == {queue[i] : i \in 1..n}
             f == [i \in 1..n |-> queue[i]]
  <2>1. queue \in Seq(Buffers) /\ OnceIn(queue, Buffers) /\ Len(queue) \in Nat /\ n \in Nat
        /\ Len(queue') = Len(queue) - n
    BY <1>3, CountTypes, ResumeParts DEF Control, PlaceInv, NoRepeats
  <2>2. \A i \in 1..n : i \in DOMAIN queue /\ queue[i] \in Buffers
    BY <2>1, ResumeParts
  <2>3. f \in Seq(Buffers) /\ Len(f) = n /\ OnceIn(f, Buffers) /\ Range(f) = M
    <3>1. f \in [1..n -> Buffers]
      BY <2>2
    <3>2. f \in Seq(Buffers) /\ Len(f) = n
      BY <2>1, <3>1, SequenceOf
    <3>3. OnceIn(f, Buffers)
      BY <2>1, <2>2 DEF OnceIn
    <3>4. Range(f) = M
      BY DEF Range
    <3> QED
      BY <3>2, <3>3, <3>4
  <2> HIDE DEF f
  <2>4. IsFiniteSet(M) /\ Cardinality(M) = n
    BY <2>3, OnceCardinality
  <2>5. component \cap M = {}
    <3> SUFFICES ASSUME NEW b \in M PROVE b \notin component
      OBVIOUS
    <3>1. b \in Buffers /\ In(b, Spot("queue"))
      BY <2>2 DEF In, Spot, Range
    <3>2. ~In(b, Spot("component"))
      BY <3>1, Alone, SpotTypes DEF Spot, Named
    <3> QED
      BY <3>2 DEF In, Spot
  <2> HIDE DEF M
  <2>6. Cardinality(component') = Cardinality(component) + n
    <3>1. component' = component \cup M
      BY <1>3 DEF M
    <3>2. Cardinality(component \cup M) = Cardinality(component) + n - Cardinality({})
      BY <2>4, <2>5, FS_Union, CountTypes DEF Control
    <3> QED
      BY <2>1, <3>1, <3>2, FS_EmptySet, CountTypes DEF Control
  <2>7. Passing' = Passing /\ Calling' = Calling /\ Chained' = Chained
    BY <1>1 DEF Passing, Calling, Chained
  <2> QED
    BY <1>1, <2>1, <2>6, <2>7, TransitSum, PrimedSum, CountTypes DEF Total, Control
<1> QED
  BY <1>2, <1>3 DEF Resume

LEMMA NextTransit ==
  ASSUME Control, PlaceInv, TransitExact, [Next]_vars
  PROVE  TransitExact'
<1> USE ThreadsAre
<1> USE DEF At, Goto, Return, Sent, port, headers, locks, calls
<1> USE DEF Control, Types, ThreadTypes
<1> DEFINE G == TransitExact'
<1>1. ASSUME NEW t \in Threads, SendLock(t) PROVE G
  <2>1. SamePassing
    BY <1>1 DEF SamePassing, SendLock, SendEnds
  <2> QED
    BY <1>1, <2>1, StillCounted DEF SendLock, SendEnds
<1>2. ASSUME NEW t \in Threads, CountIn(t) PROVE G
  BY <1>2, CountInCounted
<1>3. ASSUME NEW t \in Threads, Pass(t) PROVE G
  BY <1>3, PassCounted
<1>4. ASSUME NEW t \in Threads, PassFails(t) PROVE G
  <2>1. SamePassing
    BY <1>4 DEF SamePassing, PassFails
  <2> QED
    BY <1>4, <2>1, StillCounted DEF PassFails
<1>5. ASSUME NEW t \in Threads, Uncount(t) PROVE G
  BY <1>5, UncountCounted
<1>6. ASSUME NEW t \in Threads, CallClient(t) PROVE G
  <2>1. SamePassing
    BY <1>6 DEF SamePassing, CallClient
  <2> QED
    BY <1>6, <2>1, StillCounted DEF CallClient
<1>7. ASSUME NEW t \in Threads, ReturnFromCallback(t) PROVE G
  BY <1>7, ReturnCounted
<1>8. ASSUME NEW t \in Threads, EventSend(t) PROVE G
  <2>1. SamePassing
    BY <1>8 DEF SamePassing, EventSend, Frames, Resting
  <2> QED
    BY <1>8, <2>1, StillCounted DEF EventSend
<1>9. ASSUME NEW t \in Threads, EventCall(t) PROVE G
  <2>1. SamePassing
    BY <1>9 DEF SamePassing, EventCall, Crash, Frames, Resting
  <2> QED
    BY <1>9, <2>1, StillCounted DEF EventCall, Crash
<1>10. ASSUME NEW t \in Threads, PfEnable(t) PROVE G
  <2>1. SamePassing
    BY <1>10 DEF SamePassing, PfEnable
  <2> QED
    BY <1>10, <2>1, StillCounted DEF PfEnable
<1>11. ASSUME NEW t \in Threads, SetEnabled(t) PROVE G
  <2>1. SamePassing
    BY <1>11 DEF SamePassing, SetEnabled
  <2> QED
    BY <1>11, <2>1, StillCounted DEF SetEnabled
<1>12. ASSUME NEW t \in Threads, ClearEnabled(t) PROVE G
  <2>1. SamePassing
    BY <1>12 DEF SamePassing, ClearEnabled, SendersOut
  <2> QED
    BY <1>12, <2>1, StillCounted DEF ClearEnabled, SendersOut
<1>13. ASSUME NEW t \in Threads, DisableLock(t) PROVE G
  <2>1. SamePassing
    BY <1>13 DEF SamePassing, DisableLock
  <2> QED
    BY <1>13, <2>1, StillCounted DEF DisableLock
<1>14. ASSUME NEW t \in Threads, PfDisable(t) PROVE G
  <2>1. SamePassing
    BY <1>14 DEF SamePassing, PfDisable
  <2> QED
    BY <1>14, <2>1, StillCounted DEF PfDisable
<1>15. ASSUME NEW t \in Threads, DrainTake(t) PROVE G
  <2>1. pc[t] \in {"drain", "drainFailed"} /\ DoCallback(t) /\ cur[t] = None
    BY <1>15 DEF DrainTake, Frames, InClient, Sending
  <2> QED
    BY <2>1, CalledCounted
<1>16. ASSUME NEW t \in Threads, DrainDone(t) PROVE G
  <2>1. SamePassing
    BY <1>16 DEF SamePassing, DrainDone
  <2> QED
    BY <1>16, <2>1, StillCounted DEF DrainDone
<1>17. ASSUME NEW t \in Threads, FlushQueue(t) PROVE G
  BY <1>17, FlushQueueCounted
<1>18. ASSUME NEW t \in Threads, WaitTransit(t) PROVE G
  <2>1. SamePassing
    BY <1>18 DEF SamePassing, WaitTransit, AllBack
  <2> QED
    BY <1>18, <2>1, StillCounted DEF WaitTransit, AllBack
<1>19. ASSUME NEW t \in Threads, FlushLock(t) PROVE G
  <2>1. SamePassing
    BY <1>19, FlushLocks DEF SamePassing
  <2> QED
    BY <1>19, FlushLocks, <2>1, StillCounted
<1>20. ASSUME NEW t \in Threads, PfFlush(t) PROVE G
  BY <1>20, PfFlushCounted
<1>21. ASSUME NEW t \in Threads, FlushChain(t) PROVE G
  BY <1>21, FlushChainCounted
<1>22. ASSUME NEW t \in Threads, NEW b \in Buffers, SendBuffer(t, b) PROVE G
  <2>1. SamePassing
    BY <1>22 DEF SamePassing, SendBuffer
  <2> QED
    BY <1>22, <2>1, StillCounted DEF SendBuffer
<1>23. ASSUME NEW t \in Controllers, EnablePort(t) PROVE G
  <2>1. SamePassing
    BY <1>23 DEF SamePassing, EnablePort
  <2> QED
    BY <1>23, <2>1, StillCounted DEF EnablePort
<1>24. ASSUME NEW t \in Controllers, DisablePort(t) PROVE G
  <2>1. SamePassing
    BY <1>24 DEF SamePassing, DisablePort
  <2> QED
    BY <1>24, <2>1, StillCounted DEF DisablePort
<1>25. ASSUME NEW t \in Controllers, Flush(t) PROVE G
  <2>1. SamePassing
    BY <1>25 DEF SamePassing, Flush
  <2> QED
    BY <1>25, <2>1, StillCounted DEF Flush
<1>26. ASSUME NEW t \in Controllers, Pause(t) PROVE G
  <2>1. SamePassing
    BY <1>26 DEF SamePassing, Pause
  <2> QED
    BY <1>26, <2>1, StillCounted DEF Pause
<1>27. ASSUME NEW t \in Controllers, Resume(t) PROVE G
  BY <1>27, ResumeCounted
<1>28. ASSUME ActionLock PROVE G
  <2>1. SamePassing
    BY <1>28 DEF SamePassing, ActionLock
  <2> QED
    BY <1>28, <2>1, StillCounted DEF ActionLock
<1>29. ASSUME At(Action, "loop"), DoCallback(Action) PROVE G
  <2>1. pc[Action] = "loop" /\ cur[Action] = None
    BY <1>29 DEF Frames, InClient, Sending
  <2> QED
    BY <1>29, <2>1, CalledCounted
<1>30. ASSUME ActionUnlock PROVE G
  <2>1. SamePassing
    BY <1>30 DEF SamePassing, ActionUnlock
  <2> QED
    BY <1>30, <2>1, StillCounted DEF ActionUnlock
<1>31. ASSUME NEW b \in Buffers, ReturnBuffer(b) PROVE G
  BY <1>31, GivenBackCounted
<1>32. ASSUME ReturnFreedContext PROVE G
  BY <1>32, StillCounted DEF ReturnFreedContext, Crash, SamePassing
<1>33. ASSUME SendEvent PROVE G
  BY <1>33, EventCounted
<1>34. ASSUME UNCHANGED vars PROVE G
  BY <1>34, StillCounted DEF vars, SamePassing
<1> HIDE DEF Control, Types, ThreadTypes, Goto, Return, Sent, port, headers, locks, calls
<1> QED
  BY <1>1, <1>2, <1>3, <1>4, <1>5, <1>6, <1>7, <1>8, <1>9, <1>10, <1>11, <1>12, <1>13, <1>14,
  <1>15, <1>16, <1>17, <1>18, <1>19, <1>20, <1>21, <1>22, <1>23, <1>24, <1>25, <1>26, <1>27,
  <1>28, <1>29, <1>30, <1>31, <1>32, <1>33, <1>34 DEF Next, InCall, Begin, ActionThread, Crashed

-----------------------------------------------------------------------------
(* A port whose callback is cleared has no header.                          *)

Idle == ~callback => transit = 0

LEMMA InUse ==
  ASSUME Control, TransitExact
  PROVE  /\ transit \in Nat
         /\ \A t \in Threads : cur[t] # None => transit # 0
<1>1. transit \in Nat
  BY TransitSum, CountTypes DEF Total, Control
<1>2. ASSUME NEW t \in Threads, cur[t] # None PROVE transit # 0
  <2>1. Calling # {}
    BY <1>2 DEF Calling
  <2>2. Cardinality(Calling) # 0
    BY <2>1, FS_EmptySet, CountTypes DEF Control
  <2> QED
    BY <2>2, TransitSum, CountTypes DEF Total, Control
<1> QED
  BY <1>1, <1>2

LEMMA NextIdle ==
  ASSUME Control, TransitExact, Idle, [Next]_vars
  PROVE  Idle'
<1> USE ThreadsAre
<1> USE DEF At, Goto, Return, Sent, port, headers, locks, calls
<1> USE DEF Idle, Control, Types, FlagTypes, ThreadTypes, Flags
<1> DEFINE G == Idle'
<1>1. ASSUME NEW t \in Threads, SendLock(t) PROVE G
  BY <1>1 DEF SendLock, SendEnds
<1>2. ASSUME NEW t \in Threads, CountIn(t) PROVE G
  BY <1>2 DEF CountIn, Counted
<1>3. ASSUME NEW t \in Threads, Pass(t) PROVE G
  BY <1>3 DEF Pass
<1>4. ASSUME NEW t \in Threads, PassFails(t) PROVE G
  BY <1>4 DEF PassFails
<1>5. ASSUME NEW t \in Threads, Uncount(t) PROVE G
  BY <1>5 DEF Uncount, SendEnds
<1>6. ASSUME NEW t \in Threads, CallClient(t) PROVE G
  BY <1>6 DEF CallClient
<1>7. ASSUME NEW t \in Threads, ReturnFromCallback(t) PROVE G
  <2>1. cur[t] # None /\ callback' = callback
    BY <1>7 DEF ReturnFromCallback, Frames, InClient
  <2> QED
    BY <2>1, InUse
<1>8. ASSUME NEW t \in Threads, EventSend(t) PROVE G
  BY <1>8 DEF EventSend
<1>9. ASSUME NEW t \in Threads, EventCall(t) PROVE G
  BY <1>9 DEF EventCall, Crash
<1>10. ASSUME NEW t \in Threads, PfEnable(t) PROVE G
  BY <1>10 DEF PfEnable
<1>11. ASSUME NEW t \in Threads, SetEnabled(t) PROVE G
  BY <1>11 DEF SetEnabled
<1>12. ASSUME NEW t \in Threads, ClearEnabled(t) PROVE G
  BY <1>12 DEF ClearEnabled, SendersOut
<1>13. ASSUME NEW t \in Threads, DisableLock(t) PROVE G
  BY <1>13 DEF DisableLock
<1>14. ASSUME NEW t \in Threads, PfDisable(t) PROVE G
  BY <1>14 DEF PfDisable
<1>15. ASSUME NEW t \in Threads, DrainTake(t) PROVE G
  BY <1>15 DEF DrainTake, DoCallback
<1>16. ASSUME NEW t \in Threads, DrainDone(t) PROVE G
  BY <1>16 DEF DrainDone
<1>17. ASSUME NEW t \in Threads, FlushQueue(t) PROVE G
  BY <1>17 DEF FlushQueue
<1>18. ASSUME NEW t \in Threads, WaitTransit(t) PROVE G
  BY <1>18 DEF WaitTransit, AllBack
<1>19. ASSUME NEW t \in Threads, FlushLock(t) PROVE G
  BY <1>19, FlushLocks
<1>20. ASSUME NEW t \in Threads, PfFlush(t) PROVE G
  BY <1>20 DEF PfFlush, QueueAfterFlush
<1>21. ASSUME NEW t \in Threads, FlushChain(t) PROVE G
  BY <1>21 DEF FlushChain
<1>22. ASSUME NEW t \in Threads, NEW b \in Buffers, SendBuffer(t, b) PROVE G
  BY <1>22 DEF SendBuffer
<1>23. ASSUME NEW t \in Controllers, EnablePort(t) PROVE G
  BY <1>23 DEF EnablePort
<1>24. ASSUME NEW t \in Controllers, DisablePort(t) PROVE G
  BY <1>24 DEF DisablePort
<1>25. ASSUME NEW t \in Controllers, Flush(t) PROVE G
  BY <1>25 DEF Flush
<1>26. ASSUME NEW t \in Controllers, Pause(t) PROVE G
  BY <1>26 DEF Pause
<1>27. ASSUME NEW t \in Controllers, Resume(t) PROVE G
  BY <1>27 DEF Resume, StillPaused
<1>28. ASSUME ActionLock PROVE G
  BY <1>28 DEF ActionLock
<1>29. ASSUME At(Action, "loop"), DoCallback(Action) PROVE G
  BY <1>29 DEF DoCallback
<1>30. ASSUME ActionUnlock PROVE G
  BY <1>30 DEF ActionUnlock
<1>31. ASSUME NEW b \in Buffers, ReturnBuffer(b) PROVE G
  BY <1>31 DEF ReturnBuffer
<1>32. ASSUME ReturnFreedContext PROVE G
  BY <1>32 DEF ReturnFreedContext, Crash
<1>33. ASSUME SendEvent PROVE G
  BY <1>33 DEF SendEvent
<1>34. ASSUME UNCHANGED vars PROVE G
  BY <1>34 DEF vars
<1> QED
  BY <1>1, <1>2, <1>3, <1>4, <1>5, <1>6, <1>7, <1>8, <1>9, <1>10, <1>11, <1>12, <1>13, <1>14,
  <1>15, <1>16, <1>17, <1>18, <1>19, <1>20, <1>21, <1>22, <1>23, <1>24, <1>25, <1>26, <1>27,
  <1>28, <1>29, <1>30, <1>31, <1>32, <1>33, <1>34 DEF Next, InCall, Begin, ActionThread, Crashed

LEMMA InitTransit == Init => TransitExact
<1> SUFFICES ASSUME Init PROVE TransitExact
  OBVIOUS
<1> USE ThreadsAre
<1>1. /\ queue = <<>> /\ component = {} /\ done = <<>> /\ transit = 0
      /\ \A t \in Threads : cur[t] = None /\ chain[t] = <<>> /\ pc[t] = "idle"
  BY DEF Init
<1>2. Calling = {} /\ Passing = {}
  BY <1>1 DEF Calling, Passing
<1>3. Chained = {}
  <2>1. Range(<<>>) = {}
    BY EmptySeq
  <2>2. \A t \in Threads : Range(chain[t]) = {}
    BY <1>1, <2>1, Zenon
  <2> QED
    BY <2>2 DEF Chained
<1>4. Len(queue) = 0 /\ Cardinality(PlacesOf(done, Buffers)) = 0 /\ Cardinality({}) = 0
  BY <1>1, EmptySeq, CountType, FS_EmptySet
<1> QED
  BY <1>1, <1>2, <1>3, <1>4, TransitSum DEF Total

PortInv == Control /\ PlaceInv /\ TransitExact /\ Idle

LEMMA CountsHold == Spec => []PortInv
<1>1. Init => PortInv
  BY InitControl, InitPlaced, InitTransit DEF PortInv, Init, Idle
<1>2. Control /\ PlaceInv /\ TransitExact /\ Idle /\ [Next]_vars => TransitExact' /\ Idle'
  BY NextTransit, NextIdle
<1>3. TransitExact /\ Idle /\ Control /\ PlaceInv /\ [Next]_vars /\ Control' /\ PlaceInv'
      => PortInv'
  BY <1>2 DEF PortInv
<1>4. Init => TransitExact /\ Idle
  BY <1>1 DEF PortInv
<1>5. Control /\ PlaceInv /\ TransitExact /\ Idle => PortInv
  BY DEF PortInv
<1> QED
  BY ControlAndPlaces, <1>2, <1>4, <1>5, PTL DEF Spec

\* Every variable has its type for any number of threads and headers; in particular
\* the count of headers in transit never goes below zero.
THEOREM PortTypes == Spec => []TypeOK
<1>1. PortInv => TypeOK
  BY InUse DEF PortInv, Control, Types, FlagTypes, ThreadTypes, HeaderTypes, TypeOK
<1> QED
  BY CountsHold, <1>1, PTL

\* transit_buffer_headers is the number of headers with the port: those in its
\* queue, with VideoCore, on the way back, in callbacks, in a send that has counted,
\* and taken off the queue by a flush.
THEOREM TransitCounted == Spec => []TransitExact
BY CountsHold, PTL DEF PortInv

LEMMA DefinedWhenCalled == PortInv => CallbackDefined
<1> SUFFICES ASSUME PortInv, NEW t \in Threads, pc[t] = "call" PROVE callback
  BY DEF CallbackDefined
<1>1. cur[t] # None
  BY DEF PortInv, Control, Frames, InClient
<1> QED
  BY <1>1, InUse DEF PortInv, Idle

\* However the calls overlap, a thread about to hand a header to the client's
\* callback finds the callback set: mmal_port_disable clears it only after every
\* header, those of a concurrent flush included, has come back.
THEOREM CallbackSet == Spec => []CallbackDefined
BY CountsHold, DefinedWhenCalled, PTL

LEMMA EmptyWhenCleared == PortInv => DisabledEmpty
<1> SUFFICES ASSUME PortInv, ~callback, NEW b \in Buffers, b \notin client
             PROVE  \E t \in Threads : hand[t] = b /\ pc[t] = "sendLock"
  BY DEF DisabledEmpty
<1>1. transit = 0 /\ transit = Total
  BY TransitSum DEF PortInv, Idle
<1>2. /\ Len(queue) = 0 /\ Cardinality(component) = 0
         /\ Cardinality(PlacesOf(done, Buffers)) = 0
      /\ Cardinality(Calling) = 0 /\ Cardinality(Passing) = 0 /\ Cardinality(Chained) = 0
  BY <1>1, CountTypes DEF Total, PortInv, Control
<1>3. component = {} /\ Calling = {} /\ Passing = {} /\ Chained = {}
  <2>1. /\ IsFiniteSet(component) /\ IsFiniteSet(Calling) /\ IsFiniteSet(Passing)
        /\ IsFiniteSet(Chained)
    BY CountTypes DEF PortInv, Control
  <2> QED
    BY <1>2, <2>1, FS_EmptySet
<1>4. b \notin Range(queue) /\ b \notin Range(done)
  BY <1>2, CountTypes, CountType, SeqDomain DEF PortInv, Control
<1>5. PICK p \in Spots : In(b, p)
  BY DEF PortInv, PlaceInv, Placed
<1>6. \A k \in Named : p # Spot(k)
  BY <1>3, <1>4, <1>5 DEF In, Spot, Named
<1>7. PICK k \in {"cur", "hand", "chain"}, t \in Threads : p = <<k, t>>
  BY <1>5, <1>6 DEF Spots
<1>8. k # "cur"
  BY <1>3, <1>5, <1>7, ThreadsAre DEF In, Calling
<1>9. k # "chain"
  <2>1. <<t, b>> \notin Chained
    BY <1>3
  <2>2. b \notin Range(chain[t])
    BY <2>1 DEF Chained
  <2> QED
    BY <1>5, <1>7, <2>2 DEF In
<1>10. hand[t] = b
  BY <1>5, <1>7, <1>8, <1>9 DEF In
<1>11. pc[t] \in Sending /\ pc[t] \notin {"pass", "uncount"} /\ pc[t] # "count"
  BY <1>3, <1>10, ThreadsAre DEF Passing, PortInv, Control, Frames, Flags
<1> QED
  BY <1>10, <1>11 DEF Sending

\* When mmal_port_disable has cleared the callback, the port has given every header
\* back: each is the client's, in its hands or in a send that will be refused.
THEOREM ClearedIsEmpty == Spec => []DisabledEmpty
BY CountsHold, EmptyWhenCleared, PTL

-----------------------------------------------------------------------------
(* The promise of the port to its client, step by step                      *)

\* What each action of HeaderPort says of the port
LEMMA PromiseSteps ==
  /\ Promise!Init <=> /\ isEnabled \in BOOLEAN /\ callback \in BOOLEAN /\ Lent = {}
                      /\ isEnabled => callback
  /\ UNCHANGED <<isEnabled, callback, Lent>> => UNCHANGED Promise!vars
  /\ callback' = TRUE /\ UNCHANGED <<isEnabled, Lent>> => Promise!Next
  /\ callback /\ isEnabled' = TRUE /\ UNCHANGED <<callback, Lent>> => Promise!Next
  /\ isEnabled' = FALSE /\ UNCHANGED <<callback, Lent>> => Promise!Next
  /\ \A b \in Buffers :
       /\ isEnabled /\ b \notin Lent /\ Lent' = Lent \cup {b} /\ UNCHANGED <<isEnabled, callback>>
       => Promise!Next
  /\ \A b \in Buffers :
       /\ callback /\ b \in Lent /\ Lent' = Lent \ {b} /\ UNCHANGED <<isEnabled, callback>>
       => Promise!Next
  /\ ~isEnabled /\ Lent = {} /\ callback' = FALSE /\ UNCHANGED <<isEnabled, Lent>> => Promise!Next
<1>1. Promise!Init <=> /\ isEnabled \in BOOLEAN /\ callback \in BOOLEAN /\ Lent = {}
                       /\ isEnabled => callback
  BY DEF Promise!Init
<1>2. UNCHANGED <<isEnabled, callback, Lent>> => UNCHANGED Promise!vars
  BY DEF Promise!vars
<1>3. isEnabled' = FALSE /\ UNCHANGED <<callback, Lent>> => Promise!Next
  BY DEF Promise!Next, Promise!Stop
<1>4. ~isEnabled /\ Lent = {} /\ callback' = FALSE /\ UNCHANGED <<isEnabled, Lent>>
        => Promise!Next
  BY DEF Promise!Next, Promise!Close
<1>5. ASSUME NEW b \in Buffers, isEnabled, b \notin Lent, Lent' = Lent \cup {b},
             UNCHANGED <<isEnabled, callback>>
      PROVE  Promise!Next
  BY <1>5 DEF Promise!Next, Promise!Take
<1>6. ASSUME NEW b \in Buffers, callback, b \in Lent, Lent' = Lent \ {b},
             UNCHANGED <<isEnabled, callback>>
      PROVE  Promise!Next
  BY <1>6 DEF Promise!Next, Promise!GiveBack
<1>7. ASSUME callback' = TRUE, UNCHANGED <<isEnabled, Lent>> PROVE Promise!Next
  BY <1>7 DEF Promise!Next, Promise!Open
<1>8. ASSUME callback, isEnabled' = TRUE, UNCHANGED <<callback, Lent>> PROVE Promise!Next
  BY <1>8 DEF Promise!Next, Promise!Accept
<1> QED
  BY <1>1, <1>2, <1>3, <1>4, <1>5, <1>6, <1>7, <1>8

\* A thread that is not offering a header goes on, and offers none.
LEMMA LentSame ==
  ASSUME NEW t \in Threads, client' = client, pc[t] # "sendLock", pc'[t] # "sendLock",
         \A u \in Threads : u # t => pc'[u] = pc[u] /\ hand'[u] = hand[u]
  PROVE  Lent' = Lent
<1>1. \A u \in Threads : Offered(u)' = Offered(u)
  BY DEF Offered
<1> QED
  BY <1>1 DEF Lent

\* Where a header is that a thread offers, sends or is about to call back
LEMMA InHand ==
  ASSUME Control, PlaceInv, NEW t \in Threads, hand[t] # None
  PROVE  /\ hand[t] \in Buffers /\ hand[t] \notin client
         /\ \A u \in Threads : hand[u] = hand[t] => u = t
<1>1. hand[t] \in Buffers
  BY DEF Control, Types, ThreadTypes
<1>2. In(hand[t], <<"hand", t>>) /\ <<"hand", t>> \in Spots
  BY SpotTypes DEF In
<1>3. \A r \in Spots : In(hand[t], r) <=> r = <<"hand", t>>
  BY <1>1, <1>2, Alone
<1>4. hand[t] \notin client
  BY <1>3, SpotTypes DEF In, Spot, Named
<1>5. ASSUME NEW u \in Threads, hand[u] = hand[t] PROVE u = t
  <2>1. In(hand[t], <<"hand", u>>) /\ <<"hand", u>> \in Spots
    BY <1>5, SpotTypes DEF In
  <2> QED
    BY <1>3, <2>1
<1> QED
  BY <1>1, <1>4, <1>5

LEMMA InCallback ==
  ASSUME Control, PlaceInv, NEW t \in Threads, pc[t] = "call"
  PROVE  /\ cur[t] \in Buffers /\ cur[t] \notin client
         /\ \A u \in Threads : hand[u] # cur[t]
<1>1. cur[t] \in Buffers
  BY DEF Control, Types, ThreadTypes, Frames, InClient
<1>2. In(cur[t], <<"cur", t>>) /\ <<"cur", t>> \in Spots
  BY SpotTypes DEF In
<1>3. \A r \in Spots : In(cur[t], r) <=> r = <<"cur", t>>
  BY <1>1, <1>2, Alone
<1>4. cur[t] \notin client
  BY <1>3, SpotTypes DEF In, Spot, Named
<1>5. ASSUME NEW u \in Threads, hand[u] = cur[t] PROVE FALSE
  <2>1. In(cur[t], <<"hand", u>>) /\ <<"hand", u>> \in Spots
    BY <1>5, SpotTypes DEF In
  <2> QED
    BY <1>3, <2>1
<1> QED
  BY <1>1, <1>4, <1>5

\* A header passes from the client to the port when is_enabled is found set.
LEMMA SendLockLent ==
  ASSUME Control, PlaceInv, NEW t \in Threads, SendLock(t)
  PROVE  Promise!Next \/ UNCHANGED Promise!vars
<1> USE ThreadsAre
<1>1. pc[t] = "sendLock" /\ hand[t] # None /\ UNCHANGED <<isEnabled, callback>>
  BY DEF SendLock, At, port, Control, Frames, Sending
<1>2. /\ hand[t] \in Buffers /\ hand[t] \notin client
      /\ \A u \in Threads : hand[u] = hand[t] => u = t
  BY <1>1, InHand
<1>3. hand[t] \notin Lent
  BY <1>1 DEF Lent, Offered
<1>4. CASE isEnabled
  <2>1. /\ client' = client /\ hand' = hand /\ pc'[t] = "count"
        /\ \A u \in Threads : u # t => pc'[u] = pc[u]
    BY <1>4 DEF SendLock, Goto, Control, Types, ThreadTypes
  <2>2. Offered(t)' = None /\ \A u \in Threads : u # t => Offered(u)' = Offered(u)
    BY <2>1 DEF Offered
  <2>3. Lent' = Lent \cup {hand[t]}
    <3>1. ASSUME NEW b \in Buffers PROVE b \in Lent' <=> b \in Lent \cup {hand[t]}
      <4>1. CASE b = hand[t]
        BY <1>2, <2>1, <2>2, <4>1 DEF Lent, Offered
      <4>2. CASE b # hand[t]
        BY <1>1, <2>1, <2>2, <4>2 DEF Lent, Offered
      <4> QED
        BY <4>1, <4>2
    <3> QED
      BY <1>2, <3>1 DEF Lent
  <2> QED
    BY <1>1, <1>2, <1>3, <1>4, <2>3, PromiseSteps
<1>5. CASE ~isEnabled
  <2>1. /\ client' = client \cup {hand[t]} /\ pc'[t] \in {"idle", "return"}
        /\ \A u \in Threads : u # t => pc'[u] = pc[u] /\ hand'[u] = hand[u]
    BY <1>5 DEF SendLock, SendEnds, Sent, Goto, Control, Types, ThreadTypes
  <2>2. Offered(t)' = None /\ \A u \in Threads : u # t => Offered(u)' = Offered(u)
    BY <2>1 DEF Offered
  <2>3. Lent' = Lent
    <3>1. ASSUME NEW b \in Buffers PROVE b \in Lent' <=> b \in Lent
      BY <1>1, <1>2, <2>1, <2>2 DEF Lent, Offered
    <3> QED
      BY <3>1 DEF Lent
  <2> QED
    BY <1>1, <2>3, PromiseSteps
<1> QED
  BY <1>4, <1>5

\* Offering a header is nothing to the port yet.
LEMMA SendBufferLent ==
  ASSUME Control, PlaceInv, NEW t \in Threads, NEW b \in Buffers, SendBuffer(t, b)
  PROVE  UNCHANGED <<isEnabled, callback, Lent>>
<1> USE ThreadsAre
<1>1. /\ client' = client \ {b} /\ b \in client /\ hand'[t] = b /\ pc'[t] = "sendLock"
      /\ pc[t] # "sendLock" /\ UNCHANGED <<isEnabled, callback>>
      /\ \A u \in Threads : u # t => pc'[u] = pc[u] /\ hand'[u] = hand[u]
  BY DEF SendBuffer, At, Goto, port, Control, Types, ThreadTypes
<1>2. /\ Offered(t)' = b /\ Offered(t) = None
      /\ \A u \in Threads : u # t => Offered(u)' = Offered(u)
  BY <1>1 DEF Offered
<1>3. ASSUME NEW c \in Buffers PROVE c \in Lent' <=> c \in Lent
  BY <1>1, <1>2 DEF Lent
<1>4. Lent' = Lent
  BY <1>3 DEF Lent
<1> QED
  BY <1>1, <1>4

\* A send that has counted fails, or the client's callback gets the header.
LEMMA UncountLent ==
  ASSUME Control, PlaceInv, NEW t \in Threads, Uncount(t)
  PROVE  Promise!Next
<1> USE ThreadsAre
<1>1. /\ client' = client \cup {hand[t]} /\ pc'[t] \in {"idle", "return"}
      /\ pc[t] = "uncount" /\ hand[t] # None /\ hand'[t] = None
      /\ UNCHANGED <<isEnabled, callback>>
      /\ \A u \in Threads : u # t => pc'[u] = pc[u] /\ hand'[u] = hand[u]
  BY DEF Uncount, SendEnds, Sent, At, Goto, Control, Types, ThreadTypes, Frames, Sending
<1>2. /\ hand[t] \in Buffers /\ hand[t] \notin client
      /\ \A u \in Threads : hand[u] = hand[t] => u = t
  BY <1>1, InHand
<1>3. \A u \in Threads : Offered(u)' = Offered(u) /\ Offered(u) # hand[t]
  BY <1>1, <1>2 DEF Offered
<1>4. hand[t] \in Lent /\ Lent' = Lent \ {hand[t]}
  BY <1>1, <1>2, <1>3 DEF Lent
<1>5. callback
  BY <1>1 DEF Control, Flags
<1> QED
  BY <1>1, <1>2, <1>4, <1>5, PromiseSteps

LEMMA CallClientLent ==
  ASSUME Control, PlaceInv, CallbackDefined, NEW t \in Threads, CallClient(t)
  PROVE  Promise!Next
<1> USE ThreadsAre
<1>1. /\ client' = client \cup {cur[t]} /\ pc'[t] = "callback" /\ pc[t] = "call" /\ hand' = hand
      /\ UNCHANGED <<isEnabled, callback>>
      /\ \A u \in Threads : u # t => pc'[u] = pc[u]
  BY DEF CallClient, At, Goto, port, calls, Control, Types, ThreadTypes
<1>2. /\ cur[t] \in Buffers /\ cur[t] \notin client
      /\ \A u \in Threads : hand[u] # cur[t]
  BY <1>1, InCallback
<1>3. \A u \in Threads : Offered(u)' = Offered(u) /\ Offered(u) # cur[t]
  BY <1>1, <1>2 DEF Offered
<1>4. cur[t] \in Lent /\ Lent' = Lent \ {cur[t]}
  BY <1>1, <1>2, <1>3 DEF Lent
<1>5. callback
  BY <1>1 DEF CallbackDefined
<1> QED
  BY <1>1, <1>2, <1>4, <1>5, PromiseSteps

\* Every step of the port is a step of the promise, or nothing to the client.
LEMMA NextPromise ==
  ASSUME Control, PlaceInv, CallbackDefined, DisabledEmpty', [Next]_vars
  PROVE  Promise!Next \/ UNCHANGED Promise!vars
<1> USE ThreadsAre
<1> USE DEF At, Goto, Return, Sent, port, headers, locks, calls
<1> USE DEF Control, Types, FlagTypes, ThreadTypes, Frames, Resting
<1> DEFINE G == Promise!Next \/ UNCHANGED Promise!vars
<1>1. ASSUME NEW t \in Threads, SendLock(t) PROVE G
  BY <1>1, SendLockLent
<1>2. ASSUME NEW t \in Threads, CountIn(t) PROVE G
  <2>1. pc[t] # "sendLock" /\ pc'[t] # "sendLock" /\ UNCHANGED <<isEnabled, callback, client>>
        /\ \A u \in Threads : u # t => pc'[u] = pc[u] /\ hand'[u] = hand[u]
    BY <1>2 DEF CountIn, Counted
  <2> QED
    BY <2>1, LentSame, PromiseSteps
<1>3. ASSUME NEW t \in Threads, Pass(t) PROVE G
  <2>1. pc[t] # "sendLock" /\ pc'[t] # "sendLock" /\ UNCHANGED <<isEnabled, callback, client>>
        /\ \A u \in Threads : u # t => pc'[u] = pc[u] /\ hand'[u] = hand[u]
    BY <1>3 DEF Pass
  <2> QED
    BY <2>1, LentSame, PromiseSteps
<1>4. ASSUME NEW t \in Threads, PassFails(t) PROVE G
  <2>1. pc[t] # "sendLock" /\ pc'[t] # "sendLock" /\ UNCHANGED <<isEnabled, callback, client>>
        /\ \A u \in Threads : u # t => pc'[u] = pc[u] /\ hand'[u] = hand[u]
    BY <1>4 DEF PassFails
  <2> QED
    BY <2>1, LentSame, PromiseSteps
<1>5. ASSUME NEW t \in Threads, Uncount(t) PROVE G
  BY <1>5, UncountLent
<1>6. ASSUME NEW t \in Threads, CallClient(t) PROVE G
  BY <1>6, CallClientLent
<1>7. ASSUME NEW t \in Threads, ReturnFromCallback(t) PROVE G
  <2>1. pc[t] # "sendLock" /\ pc'[t] # "sendLock" /\ UNCHANGED <<isEnabled, callback, client>>
        /\ \A u \in Threads : u # t => pc'[u] = pc[u] /\ hand'[u] = hand[u]
    BY <1>7 DEF ReturnFromCallback
  <2> QED
    BY <2>1, LentSame, PromiseSteps
<1>8. ASSUME NEW t \in Threads, EventSend(t) PROVE G
  <2>1. pc[t] # "sendLock" /\ pc'[t] # "sendLock" /\ UNCHANGED <<isEnabled, callback, client>>
        /\ \A u \in Threads : u # t => pc'[u] = pc[u] /\ hand'[u] = hand[u]
    BY <1>8 DEF EventSend
  <2> QED
    BY <2>1, LentSame, PromiseSteps
<1>9. ASSUME NEW t \in Threads, EventCall(t) PROVE G
  <2>1. pc[t] # "sendLock" /\ pc'[t] # "sendLock" /\ UNCHANGED <<isEnabled, callback, client>>
        /\ \A u \in Threads : u # t => pc'[u] = pc[u] /\ hand'[u] = hand[u]
    BY <1>9 DEF EventCall, Crash
  <2> QED
    BY <2>1, LentSame, PromiseSteps
<1>10. ASSUME NEW t \in Threads, PfEnable(t) PROVE G
  <2>1. pc[t] # "sendLock" /\ pc'[t] # "sendLock" /\ UNCHANGED <<isEnabled, callback, client>>
        /\ \A u \in Threads : u # t => pc'[u] = pc[u] /\ hand'[u] = hand[u]
    BY <1>10 DEF PfEnable
  <2> QED
    BY <2>1, LentSame, PromiseSteps
<1>11. ASSUME NEW t \in Threads, SetEnabled(t) PROVE G
  <2>1. pc[t] # "sendLock" /\ pc'[t] # "sendLock" /\ client' = client
        /\ \A u \in Threads : u # t => pc'[u] = pc[u] /\ hand'[u] = hand[u]
    BY <1>11 DEF SetEnabled
  <2>2. isEnabled' = TRUE /\ callback' = callback /\ Stage(t) \in {"setEnabled", "restore"}
    BY <1>11, Unnested DEF SetEnabled, InClient, Sending
  <2>3. callback
    BY <2>2 DEF Flags, Connecting, Emptying
  <2> QED
    BY <2>1, <2>2, <2>3, LentSame, PromiseSteps
<1>12. ASSUME NEW t \in Threads, ClearEnabled(t) PROVE G
  <2>1. pc[t] # "sendLock" /\ pc'[t] # "sendLock" /\ client' = client
        /\ \A u \in Threads : u # t => pc'[u] = pc[u] /\ hand'[u] = hand[u]
    BY <1>12 DEF ClearEnabled
  <2>2. isEnabled' = FALSE /\ callback' = callback
    BY <1>12 DEF ClearEnabled, Stage, Connecting, Emptying
  <2> QED
    BY <2>1, <2>2, LentSame, PromiseSteps
<1>13. ASSUME NEW t \in Threads, DisableLock(t) PROVE G
  <2>1. pc[t] # "sendLock" /\ pc'[t] # "sendLock" /\ UNCHANGED <<isEnabled, callback, client>>
        /\ \A u \in Threads : u # t => pc'[u] = pc[u] /\ hand'[u] = hand[u]
    BY <1>13 DEF DisableLock
  <2> QED
    BY <2>1, LentSame, PromiseSteps
<1>14. ASSUME NEW t \in Threads, PfDisable(t) PROVE G
  <2>1. pc[t] # "sendLock" /\ pc'[t] # "sendLock" /\ UNCHANGED <<isEnabled, callback, client>>
        /\ \A u \in Threads : u # t => pc'[u] = pc[u] /\ hand'[u] = hand[u]
    BY <1>14 DEF PfDisable
  <2> QED
    BY <2>1, LentSame, PromiseSteps
<1>15. ASSUME NEW t \in Threads, DrainTake(t) PROVE G
  <2>1. pc[t] # "sendLock" /\ pc'[t] # "sendLock" /\ UNCHANGED <<isEnabled, callback, client>>
        /\ \A u \in Threads : u # t => pc'[u] = pc[u] /\ hand'[u] = hand[u]
    BY <1>15 DEF DrainTake, DoCallback
  <2> QED
    BY <2>1, LentSame, PromiseSteps
<1>16. ASSUME NEW t \in Threads, DrainDone(t) PROVE G
  <2>1. pc[t] # "sendLock" /\ pc'[t] # "sendLock" /\ UNCHANGED <<isEnabled, callback, client>>
        /\ \A u \in Threads : u # t => pc'[u] = pc[u] /\ hand'[u] = hand[u]
    BY <1>16 DEF DrainDone
  <2> QED
    BY <2>1, LentSame, PromiseSteps
<1>17. ASSUME NEW t \in Threads, FlushQueue(t) PROVE G
  <2>1. pc[t] # "sendLock" /\ pc'[t] # "sendLock" /\ UNCHANGED <<isEnabled, callback, client>>
        /\ \A u \in Threads : u # t => pc'[u] = pc[u] /\ hand'[u] = hand[u]
    BY <1>17 DEF FlushQueue
  <2> QED
    BY <2>1, LentSame, PromiseSteps
<1>18. ASSUME NEW t \in Threads, WaitTransit(t) PROVE G
  <2>1. pc[t] # "sendLock" /\ pc'[t] # "sendLock" /\ client' = client
        /\ \A u \in Threads : u # t => pc'[u] = pc[u] /\ hand'[u] = hand[u]
    BY <1>18 DEF WaitTransit
  <2>2. callback' = FALSE /\ isEnabled' = isEnabled /\ Stage(t) = "wait"
    BY <1>18, Unnested DEF WaitTransit, InClient, Sending
  <2>3. ~isEnabled
    BY <2>2 DEF Flags, Connecting
  <2>4. \A b \in Buffers : b \in client' \/ \E u \in Threads : hand'[u] = b /\ pc'[u] = "sendLock"
    BY <2>2 DEF DisabledEmpty
  <2>5. ASSUME NEW b \in Buffers PROVE b \notin Lent'
    <3>1. b \in client' \/ \E u \in Threads : Offered(u)' = b
      BY <2>4 DEF Offered
    <3> QED
      BY <3>1 DEF Lent
  <2>6. Lent' = {}
    BY <2>5 DEF Lent
  <2> QED
    BY <2>1, <2>2, <2>3, <2>6, LentSame, PromiseSteps
<1>19. ASSUME NEW t \in Threads, FlushLock(t) PROVE G
  <2>1. pc[t] # "sendLock" /\ pc'[t] # "sendLock" /\ UNCHANGED <<isEnabled, callback, client>>
        /\ \A u \in Threads : u # t => pc'[u] = pc[u] /\ hand'[u] = hand[u]
    BY <1>19, FlushLocks
  <2> QED
    BY <2>1, LentSame, PromiseSteps
<1>20. ASSUME NEW t \in Threads, PfFlush(t) PROVE G
  <2>1. pc[t] # "sendLock" /\ pc'[t] # "sendLock" /\ UNCHANGED <<isEnabled, callback, client>>
        /\ \A u \in Threads : u # t => pc'[u] = pc[u] /\ hand'[u] = hand[u]
    BY <1>20 DEF PfFlush
  <2> QED
    BY <2>1, LentSame, PromiseSteps
<1>21. ASSUME NEW t \in Threads, FlushChain(t) PROVE G
  <2>1. pc[t] # "sendLock" /\ pc'[t] # "sendLock" /\ UNCHANGED <<isEnabled, callback, client>>
        /\ \A u \in Threads : u # t => pc'[u] = pc[u] /\ hand'[u] = hand[u]
    BY <1>21 DEF FlushChain
  <2> QED
    BY <2>1, LentSame, PromiseSteps
<1>22. ASSUME NEW t \in Threads, NEW b \in Buffers, SendBuffer(t, b) PROVE G
  BY <1>22, SendBufferLent, PromiseSteps
<1>23. ASSUME NEW t \in Controllers, EnablePort(t) PROVE G
  <2>1. pc[t] # "sendLock" /\ pc'[t] # "sendLock" /\ client' = client
        /\ \A u \in Threads : u # t => pc'[u] = pc[u] /\ hand'[u] = hand[u]
    BY <1>23 DEF EnablePort
  <2>2. callback' = TRUE /\ isEnabled' = isEnabled
    BY <1>23 DEF EnablePort, Stage, Connecting, Emptying
  <2> QED
    BY <2>1, <2>2, LentSame, PromiseSteps
<1>24. ASSUME NEW t \in Controllers, DisablePort(t) PROVE G
  <2>1. pc[t] # "sendLock" /\ pc'[t] # "sendLock" /\ UNCHANGED <<isEnabled, callback, client>>
        /\ \A u \in Threads : u # t => pc'[u] = pc[u] /\ hand'[u] = hand[u]
    BY <1>24 DEF DisablePort
  <2> QED
    BY <2>1, LentSame, PromiseSteps
<1>25. ASSUME NEW t \in Controllers, Flush(t) PROVE G
  <2>1. pc[t] # "sendLock" /\ pc'[t] # "sendLock" /\ UNCHANGED <<isEnabled, callback, client>>
        /\ \A u \in Threads : u # t => pc'[u] = pc[u] /\ hand'[u] = hand[u]
    BY <1>25 DEF Flush
  <2> QED
    BY <2>1, LentSame, PromiseSteps
<1>26. ASSUME NEW t \in Controllers, Pause(t) PROVE G
  <2>1. UNCHANGED <<isEnabled, callback, client, pc, hand>>
    BY <1>26 DEF Pause
  <2>2. Lent' = Lent
    BY <2>1 DEF Lent, Offered
  <2> QED
    BY <2>1, <2>2, PromiseSteps
<1>27. ASSUME NEW t \in Controllers, Resume(t) PROVE G
  <2>1. UNCHANGED <<isEnabled, callback, client, pc, hand>>
    BY <1>27 DEF Resume
  <2>2. Lent' = Lent
    BY <2>1 DEF Lent, Offered
  <2> QED
    BY <2>1, <2>2, PromiseSteps
<1>28. ASSUME ActionLock PROVE G
  <2>1. pc[Action] # "sendLock" /\ pc'[Action] # "sendLock" /\ UNCHANGED <<isEnabled, callback, client>>
        /\ \A u \in Threads : u # Action => pc'[u] = pc[u] /\ hand'[u] = hand[u]
    BY <1>28 DEF ActionLock
  <2> QED
    BY <2>1, LentSame, PromiseSteps
<1>29. ASSUME At(Action, "loop"), DoCallback(Action) PROVE G
  <2>1. pc[Action] # "sendLock" /\ pc'[Action] # "sendLock" /\ UNCHANGED <<isEnabled, callback, client>>
        /\ \A u \in Threads : u # Action => pc'[u] = pc[u] /\ hand'[u] = hand[u]
    BY <1>29 DEF DoCallback
  <2> QED
    BY <2>1, LentSame, PromiseSteps
<1>30. ASSUME ActionUnlock PROVE G
  <2>1. pc[Action] # "sendLock" /\ pc'[Action] # "sendLock" /\ UNCHANGED <<isEnabled, callback, client>>
        /\ \A u \in Threads : u # Action => pc'[u] = pc[u] /\ hand'[u] = hand[u]
    BY <1>30 DEF ActionUnlock
  <2> QED
    BY <2>1, LentSame, PromiseSteps
<1>31. ASSUME NEW b \in Buffers, ReturnBuffer(b) PROVE G
  <2>1. UNCHANGED <<isEnabled, callback, client, pc, hand>>
    BY <1>31 DEF ReturnBuffer
  <2>2. Lent' = Lent
    BY <2>1 DEF Lent, Offered
  <2> QED
    BY <2>1, <2>2, PromiseSteps
<1>32. ASSUME ReturnFreedContext PROVE G
  <2>1. UNCHANGED <<isEnabled, callback, client, pc, hand>>
    BY <1>32 DEF ReturnFreedContext, Crash
  <2>2. Lent' = Lent
    BY <2>1 DEF Lent, Offered
  <2> QED
    BY <2>1, <2>2, PromiseSteps
<1>33. ASSUME SendEvent PROVE G
  <2>1. UNCHANGED <<isEnabled, callback, client, pc, hand>>
    BY <1>33 DEF SendEvent
  <2>2. Lent' = Lent
    BY <2>1 DEF Lent, Offered
  <2> QED
    BY <2>1, <2>2, PromiseSteps
<1>34. ASSUME UNCHANGED vars PROVE G
  <2>1. UNCHANGED <<isEnabled, callback, client, pc, hand>>
    BY <1>34 DEF vars
  <2>2. Lent' = Lent
    BY <2>1 DEF Lent, Offered
  <2> QED
    BY <2>1, <2>2, PromiseSteps
<1> QED
  BY <1>1, <1>2, <1>3, <1>4, <1>5, <1>6, <1>7, <1>8, <1>9, <1>10, <1>11, <1>12, <1>13, <1>14,
  <1>15, <1>16, <1>17, <1>18, <1>19, <1>20, <1>21, <1>22, <1>23, <1>24, <1>25, <1>26, <1>27,
  <1>28, <1>29, <1>30, <1>31, <1>32, <1>33, <1>34 DEF Next, InCall, Begin, ActionThread, Crashed

\* For every set of threads and headers the port keeps its promise: it takes headers
\* only while is_enabled is set, calls each back while the callback is set, and drops the
\* callback only when none is left, however sends, flushes and disables overlap.
THEOREM PortImplemented == Spec => ImplementsPort
<1>1. Init => Promise!Init
  <2> SUFFICES ASSUME Init PROVE Promise!Init
    OBVIOUS
  <2>1. isEnabled = FALSE /\ callback = FALSE /\ client = Buffers
    BY DEF Init
  <2>2. Lent = {}
    BY <2>1 DEF Lent
  <2> QED
    BY <2>1, <2>2, PromiseSteps
<1>2. PortInv => Control /\ PlaceInv
  BY DEF PortInv
<1>3. Control /\ PlaceInv /\ CallbackDefined /\ DisabledEmpty' /\ [Next]_vars
        => [Promise!Next]_Promise!vars
  BY NextPromise
<1> QED
  BY <1>1, <1>2, <1>3, CountsHold, DefinedWhenCalled, EmptyWhenCleared, PTL
     DEF Spec, ImplementsPort, Promise!Spec

-----------------------------------------------------------------------------
(* Who waits for whom.  The holder of send_lock waits for nobody; who runs a *)
(* callback or dispatches waits at most for the holder of send_lock; and the *)
(* others wait only for these.                                               *)

LEMMA WaitsAre ==
  ASSUME NEW t \in Threads, NEW u \in WaitsFor(t)
  PROVE  /\ u \in Threads
         /\ \/ /\ u = sendLock
               /\ pc[t] \in {"sendLock", "setEnabled", "disable", "restore", "flushSecond"}
            \/ u = actLock /\ (pc[t] \in {"disableLock", "flushFirst"} \/ pc[t] = "idle")
            \/ pc[t] = "wait" /\ (cur[u] # None \/ chain[u] # <<>> \/ pc[u] \in {"pass", "uncount"})
<1>1. /\ FlushAt[1] = "flushFirst" /\ FlushAt[2] = "flushSecond"
      /\ FlushOrder[1] = "action" /\ FlushOrder[2] = "send"
  BY DEF FlushAt, FlushOrder
<1>2. \A i \in 1..2 : i = 1 \/ i = 2
  OBVIOUS
<1>3. /\ \A i \in 1..2 : pc[t] = FlushAt[i] /\ FlushOrder[i] = "send" => pc[t] = "flushSecond"
      /\ \A i \in 1..2 : pc[t] = FlushAt[i] /\ FlushOrder[i] = "action" => pc[t] = "flushFirst"
  BY <1>1, <1>2
<1> QED
  BY <1>3 DEF WaitsFor

LEMMA NobodyStuck ==
  ASSUME Control
  PROVE  NoWaitCycle
<1> SUFFICES ASSUME NEW S \in SUBSET Threads, S # {}
             PROVE  \E t \in S : WaitsFor(t) \cap S = {}
  BY DEF NoWaitCycle
<1> DEFINE Free == {t \in Threads : WaitsFor(t) = {}}
           Near == {t \in Threads : WaitsFor(t) \subseteq Free}
           Busy == InClient \cup Sending \cup Dispatching \cup {"event", "eventCall", "chain"}
<1>1. sendLock \in Threads => sendLock \in Free
  <2> SUFFICES ASSUME sendLock \in Threads, NEW u \in WaitsFor(sendLock) PROVE FALSE
    OBVIOUS
  <2>1. pc[sendLock] \in Holding
    BY DEF Control, LockInv
  <2> QED
    BY <2>1, WaitsAre DEF Holding
<1>2. ASSUME NEW t \in Threads, pc[t] \in Busy PROVE t \in Near
  <2> SUFFICES ASSUME NEW u \in WaitsFor(t) PROVE u \in Free
    OBVIOUS
  <2>1. u = sendLock /\ u \in Threads
    BY <1>2, WaitsAre DEF InClient, Sending, Dispatching
  <2> QED
    BY <1>1, <2>1
<1>3. ASSUME NEW t \in Threads, NEW u \in WaitsFor(t) PROVE u \in Near
  <2>1. u \in Threads
    BY <1>3, WaitsAre
  <2>2. CASE u = sendLock
    <3>1. pc[u] \in Holding
      BY <2>1, <2>2 DEF Control, LockInv
    <3> QED
      BY <1>2, <2>1, <3>1 DEF Holding, Sending, Dispatching
  <2>3. CASE u = actLock
    <3>1. Stage(u) \in Dispatching
      BY <2>1, <2>3 DEF Control, LockInv
    <3>2. back[u] # "idle" => pc[u] \in InClient \cup Sending \cup {"event", "eventCall"}
      BY <2>1 DEF Control, Frames
    <3> QED
      BY <1>2, <2>1, <3>1, <3>2 DEF Stage
  <2>4. CASE cur[u] # None \/ chain[u] # <<>> \/ pc[u] \in {"pass", "uncount"}
    <3>1. pc[u] \in InClient \cup Sending \cup {"event", "eventCall", "chain"}
      BY <2>1, <2>4 DEF Control, Frames, Stage, Sending
    <3> QED
      BY <1>2, <2>1, <3>1
  <2> QED
    BY <1>3, <2>2, <2>3, <2>4, WaitsAre
<1> HIDE DEF Free, Near
<1>4. CASE S \cap Free # {}
  <2>1. PICK t \in S : t \in Free
    BY <1>4
  <2> QED
    BY <2>1 DEF Free
<1>5. CASE S \cap Free = {} /\ S \cap Near # {}
  <2>1. PICK t \in S : t \in Near
    BY <1>5
  <2> QED
    BY <1>5, <2>1 DEF Near
<1>6. CASE S \cap Near = {}
  <2>1. PICK t \in S : TRUE
    OBVIOUS
  <2>2. WaitsFor(t) \cap S = {}
    BY <1>3, <1>6
  <2> QED
    BY <2>2
<1> QED
  BY <1>4, <1>5, <1>6

\* The order in which a flush, a disable, a send and the action thread take the
\* locks, and the wait for the headers in transit, admit no circle of threads each
\* waiting for another, whatever the number of threads.
THEOREM NoDeadlock == Spec => []NoWaitCycle
BY ControlAndPlaces, NobodyStuck, PTL

=============================================================================
