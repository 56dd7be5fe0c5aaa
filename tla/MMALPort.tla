------------------------------ MODULE MMALPort -------------------------------
(***************************************************************************)
(* One port of a VideoCore component (mmal_port.c with the port functions  *)
(* of mmal_vc_api.c): client threads send buffer headers, controlling      *)
(* threads enable, disable, flush, pause and resume the port, and the      *)
(* action thread hands headers and events back through the callback, which *)
(* may send again.                                                         *)
(*                                                                         *)
(* The locks are send_lock, the component's action_mutex and               *)
(* connection_lock; the port's lock is taken inside connection_lock by the *)
(* same two calls and so is left out.                                      *)
(***************************************************************************)
EXTENDS Integers, Sequences, FiniteSets

CONSTANTS
  Clients,      \* threads that send
  Controllers,  \* threads that enable, disable, flush, pause and resume
  Buffers,      \* the client's buffer headers
  None,         \* no header, no thread
  Event,        \* an event header of the port
  MaxEvents,    \* events VideoCore sends
  Failing       \* the calls to VideoCore that may fail

Action  == "action"
Threads == Clients \cup Controllers \cup {Action}

ASSUME PortThreads ==
  /\ IsFiniteSet(Threads) /\ None \notin Threads
  /\ Clients \cap Controllers = {} /\ Action \notin Clients \cup Controllers

ASSUME PortHeaders ==
  /\ IsFiniteSet(Buffers) /\ None \notin Buffers /\ Event \notin Buffers \cup {None}
  /\ MaxEvents \in Nat /\ Failing \subseteq {"enable", "disable", "send", "flush"}

VARIABLES
  isEnabled,   \* port->is_enabled
  isPaused,    \* core->is_paused
  callback,    \* core->buffer_header_callback is set
  queue,       \* core->queue_first: headers received while paused
  transit,     \* core->transit_buffer_headers
  hasPool,     \* module->has_pool: headers can be sent to VideoCore
  component,   \* headers VideoCore holds
  done,        \* callback_queue: what came back and waits for its callback
  events,      \* events still to come
  client,      \* headers in the hands of the client
  connLock, sendLock, actLock,  \* the holder of each lock
  pc,          \* where each thread is
  back,        \* where a thread goes on after a callback
  cur,         \* the header of the callback a thread runs
  hand,        \* the header a thread is sending
  chain,       \* headers a flush has taken off the queue
  crashed      \* a thread called a NULL callback, or used a freed context

port    == <<isEnabled, isPaused, callback, queue, transit, hasPool>>
headers == <<component, done, events, client>>
locks   == <<connLock, sendLock, actLock>>
calls   == <<back, cur, hand, chain>>
vars    == <<port, headers, locks, pc, calls, crashed>>

Sending == {"sendLock", "count", "pass", "uncount"}
Labels  == Sending \cup
  {"idle", "loop", "call", "callback", "return", "event", "eventCall",
   "enable", "setEnabled", "disable", "disableLock", "pfDisable", "drain", "drainFailed",
   "restore", "flushQueue", "wait", "flushFirst", "flushSecond", "pfFlush", "chain"}

\* Every variable has its type; in particular the count of headers in transit never goes
\* below zero, which mmal_port_buffer_header_callback verifies (mmal_port.c:905).
TypeOK ==
  /\ isEnabled \in BOOLEAN /\ isPaused \in BOOLEAN /\ callback \in BOOLEAN
  /\ hasPool \in BOOLEAN /\ crashed \in BOOLEAN
  /\ queue \in Seq(Buffers) /\ done \in Seq(Buffers \cup {Event})
  /\ transit \in Nat /\ events \in 0..MaxEvents
  /\ component \subseteq Buffers /\ client \subseteq Buffers
  /\ {connLock, sendLock, actLock} \subseteq Threads \cup {None}
  /\ pc \in [Threads -> Labels] /\ back \in [Threads -> Labels]
  /\ cur \in [Threads -> Buffers \cup {None}] /\ hand \in [Threads -> Buffers \cup {None}]
  /\ chain \in [Threads -> Seq(Buffers)]

Init ==
  /\ isEnabled = FALSE /\ isPaused = FALSE /\ callback = FALSE /\ hasPool = FALSE
  /\ queue = <<>> /\ transit = 0
  /\ component = {} /\ done = <<>> /\ events = MaxEvents /\ client = Buffers
  /\ connLock = None /\ sendLock = None /\ actLock = None
  /\ pc = [t \in Threads |-> "idle"] /\ back = [t \in Threads |-> "idle"]
  /\ cur = [t \in Threads |-> None] /\ hand = [t \in Threads |-> None]
  /\ chain = [t \in Threads |-> <<>>]
  /\ crashed = FALSE

At(t, label)   == ~crashed /\ pc[t] = label
Goto(t, label) == pc' = [pc EXCEPT ![t] = label]
Return(t)      == Goto(t, back[t]) /\ back' = [back EXCEPT ![t] = "idle"]
Crash          == crashed' = TRUE /\ UNCHANGED <<port, headers, locks, pc, calls>>

-----------------------------------------------------------------------------
(* mmal_port_send_buffer, by a client or from the callback.                 *)

\* Where a thread goes on after a send
Sent(t) == IF cur[t] = None THEN "idle" ELSE "return"

SendBuffer(t, b) ==
  /\ At(t, "callback") \/ (t \in Clients /\ At(t, "idle"))
  /\ b \in client /\ client' = client \ {b}
  /\ hand' = [hand EXCEPT ![t] = b] /\ Goto(t, "sendLock")
  /\ UNCHANGED <<port, component, done, events, locks, back, cur, chain, crashed>>

\* The caller keeps a header that is not sent.
SendEnds(t) ==
  /\ client' = client \cup {hand[t]} /\ hand' = [hand EXCEPT ![t] = None]
  /\ Goto(t, Sent(t))

\* LOCK_SENDING, and the test of is_enabled
SendLock(t) ==
  /\ At(t, "sendLock") /\ sendLock = None
  /\ \/ isEnabled /\ sendLock' = t /\ Goto(t, "count") /\ UNCHANGED <<client, hand>>
     \/ ~isEnabled /\ SendEnds(t) /\ UNCHANGED sendLock
  /\ UNCHANGED <<port, component, done, events, connLock, actLock, back, cur, chain, crashed>>

\* Mutant: the header is not counted in.
CountedNot == transit

\* IN_TRANSIT_INCREMENT
Counted == transit + 1

CountIn(t) ==
  /\ At(t, "count") /\ transit' = Counted /\ Goto(t, "pass")
  /\ UNCHANGED <<isEnabled, isPaused, callback, queue, hasPool, headers, locks, calls, crashed>>

\* To the internal queue of a paused port, or to VideoCore
Pass(t) ==
  /\ At(t, "pass")
  /\ \/ isPaused /\ queue' = Append(queue, hand[t]) /\ UNCHANGED component
     \/ ~isPaused /\ hasPool /\ component' = component \cup {hand[t]} /\ UNCHANGED queue
  /\ hand' = [hand EXCEPT ![t] = None] /\ sendLock' = None /\ Goto(t, Sent(t))
  /\ UNCHANGED <<isEnabled, isPaused, callback, transit, hasPool, done, events, client,
                 connLock, actLock, back, cur, chain, crashed>>

PassFails(t) ==
  /\ At(t, "pass") /\ ~isPaused /\ (hasPool => "send" \in Failing)
  /\ Goto(t, "uncount")
  /\ UNCHANGED <<port, headers, locks, calls, crashed>>

Uncount(t) ==
  /\ At(t, "uncount") /\ transit' = transit - 1 /\ sendLock' = None /\ SendEnds(t)
  /\ UNCHANGED <<isEnabled, isPaused, callback, queue, hasPool, component, done, events,
                 connLock, actLock, back, cur, chain, crashed>>

-----------------------------------------------------------------------------
(* mmal_port_buffer_header_callback and mmal_port_event_send                *)

\* The client's callback gets the header; a NULL callback is called blindly.
CallClient(t) ==
  /\ At(t, "call") /\ crashed' = ~callback
  /\ client' = client \cup {cur[t]} /\ Goto(t, "callback")
  /\ UNCHANGED <<port, component, done, events, locks, calls>>

\* The callback returns, having sent a header or not: IN_TRANSIT_DECREMENT.
ReturnFromCallback(t) ==
  /\ At(t, "callback") \/ At(t, "return")
  /\ transit' = transit - 1 /\ cur' = [cur EXCEPT ![t] = None] /\ Return(t)
  /\ UNCHANGED <<isEnabled, isPaused, callback, queue, hasPool, headers, locks, hand, chain,
                 crashed>>

\* "if (port->priv->core->buffer_header_callback)": else the event is lost.
EventSend(t) ==
  /\ At(t, "event")
  /\ \/ callback /\ Goto(t, "eventCall") /\ UNCHANGED back
     \/ ~callback /\ Return(t)
  /\ UNCHANGED <<port, headers, locks, cur, hand, chain, crashed>>

\* The pointer may be read again for the call, without a lock.
EventCall(t) ==
  /\ At(t, "eventCall")
  /\ \/ Return(t) /\ UNCHANGED <<port, headers, locks, cur, hand, chain, crashed>>
     \/ ~callback /\ Crash

\* mmal_vc_do_callback
DoCallback(t) ==
  /\ ~crashed /\ done # <<>> /\ done' = Tail(done)
  /\ back' = [back EXCEPT ![t] = pc[t]]
  /\ IF Head(done) = Event
     THEN Goto(t, "event") /\ UNCHANGED cur
     ELSE Goto(t, "call") /\ cur' = [cur EXCEPT ![t] = Head(done)]
  /\ UNCHANGED <<port, component, events, client, locks, hand, chain, crashed>>

\* mmal_component_action_thread_func and mmal_vc_do_callback_loop
ActionLock ==
  /\ At(Action, "idle") /\ done # <<>> /\ actLock = None
  /\ actLock' = Action /\ Goto(Action, "loop")
  /\ UNCHANGED <<port, headers, connLock, sendLock, calls, crashed>>

ActionUnlock ==
  /\ At(Action, "loop") /\ done = <<>>
  /\ actLock' = None /\ Goto(Action, "idle")
  /\ UNCHANGED <<port, headers, connLock, sendLock, calls, crashed>>

-----------------------------------------------------------------------------
(* VideoCore, external: it gives headers back in any order.                 *)

ReturnBuffer(b) ==
  /\ ~crashed /\ b \in component /\ hasPool
  /\ component' = component \ {b} /\ done' = Append(done, b)
  /\ UNCHANGED <<port, events, client, locks, pc, calls, crashed>>

\* The context of the header was in the block pool that a failed disable deleted.
ReturnFreedContext == ~crashed /\ component # {} /\ ~hasPool /\ Crash

SendEvent ==
  /\ ~crashed /\ events > 0 /\ events' = events - 1 /\ done' = Append(done, Event)
  /\ UNCHANGED <<port, component, client, locks, pc, calls, crashed>>

-----------------------------------------------------------------------------
(* mmal_port_enable and mmal_port_disable of a port that is not connected   *)

EnablePort(t) ==
  /\ At(t, "idle") /\ connLock = None /\ ~isEnabled
  /\ connLock' = t /\ callback' = TRUE /\ Goto(t, "enable")
  /\ UNCHANGED <<isEnabled, isPaused, queue, transit, hasPool, headers, sendLock, actLock,
                 calls, crashed>>

\* A failure leaves the callback set, and has_pool too unless no pool could be made.
PfEnable(t) ==
  /\ At(t, "enable")
  /\ \/ hasPool' = TRUE /\ Goto(t, "setEnabled") /\ UNCHANGED connLock
     \/ "enable" \in Failing /\ hasPool' \in {hasPool, TRUE} /\ connLock' = None /\ Goto(t, "idle")
  /\ UNCHANGED <<isEnabled, isPaused, callback, queue, transit, headers, sendLock, actLock,
                 calls, crashed>>

SetEnabled(t) ==
  /\ At(t, "setEnabled") \/ At(t, "restore")
  /\ sendLock = None
  /\ isEnabled' = TRUE /\ connLock' = None /\ Goto(t, "idle")
  /\ UNCHANGED <<isPaused, callback, queue, transit, hasPool, headers, sendLock, actLock,
                 calls, crashed>>

DisablePort(t) ==
  /\ At(t, "idle") /\ connLock = None /\ isEnabled
  /\ connLock' = t /\ Goto(t, "disable")
  /\ UNCHANGED <<port, headers, sendLock, actLock, calls, crashed>>

\* Mutant: is_enabled is cleared without send_lock.
SendersOutAlways == TRUE

\* LOCK_SENDING in mmal_port_disable_internal
SendersOut == sendLock = None

ClearEnabled(t) ==
  /\ At(t, "disable") /\ SendersOut
  /\ isEnabled' = FALSE /\ Goto(t, "disableLock")
  /\ UNCHANGED <<isPaused, callback, queue, transit, hasPool, headers, locks, calls, crashed>>

DisableLock(t) ==
  /\ At(t, "disableLock") /\ actLock = None
  /\ actLock' = t /\ Goto(t, "pfDisable")
  /\ UNCHANGED <<port, headers, connLock, sendLock, calls, crashed>>

\* mmal_vc_port_disable: VideoCore answers when it has returned every header.
PfDisable(t) ==
  /\ At(t, "pfDisable") /\ hasPool' = FALSE
  /\ \/ component = {} /\ Goto(t, "drain")
     \/ "disable" \in Failing /\ Goto(t, "drainFailed")
  /\ UNCHANGED <<isEnabled, isPaused, callback, queue, transit, headers, locks, calls, crashed>>

DrainTake(t) == (At(t, "drain") \/ At(t, "drainFailed")) /\ DoCallback(t)

DrainDone(t) ==
  /\ done = <<>> /\ actLock' = None
  /\ \/ At(t, "drain") /\ Goto(t, "flushQueue")
     \/ At(t, "drainFailed") /\ Goto(t, "restore")
  /\ UNCHANGED <<port, headers, connLock, sendLock, calls, crashed>>

\* "Flush our internal queue"
FlushQueue(t) ==
  /\ At(t, "flushQueue")
  /\ IF queue = <<>>
     THEN Goto(t, "wait") /\ UNCHANGED <<queue, cur, back>>
     ELSE /\ queue' = Tail(queue) /\ cur' = [cur EXCEPT ![t] = Head(queue)]
          /\ back' = [back EXCEPT ![t] = "flushQueue"] /\ Goto(t, "call")
  /\ UNCHANGED <<isEnabled, isPaused, callback, transit, hasPool, headers, locks, hand, chain,
                 crashed>>

\* Mutant: mmal_port_disable does not wait.
AllBackAlways == TRUE

\* IN_TRANSIT_WAIT
AllBack == transit = 0

WaitTransit(t) ==
  /\ At(t, "wait") /\ AllBack
  /\ callback' = FALSE /\ connLock' = None /\ Goto(t, "idle")
  /\ UNCHANGED <<isEnabled, isPaused, queue, transit, hasPool, headers, sendLock, actLock,
                 calls, crashed>>

-----------------------------------------------------------------------------
(* mmal_port_flush and mmal_port_pause                                      *)

Flush(t) ==
  /\ At(t, "idle") /\ Goto(t, "flushFirst")
  /\ UNCHANGED <<port, headers, locks, calls, crashed>>

\* Mutant: send_lock first.
FlushOrderSwapped == <<"send", "action">>

\* "N.B. must take action lock *before* sending lock"
FlushOrder == <<"action", "send">>

FlushAt == <<"flushFirst", "flushSecond", "pfFlush">>

FlushLock(t) ==
  /\ \E i \in 1..2 :
       /\ At(t, FlushAt[i]) /\ Goto(t, FlushAt[i + 1])
       /\ \/ FlushOrder[i] = "action" /\ actLock = None /\ actLock' = t /\ UNCHANGED sendLock
          \/ FlushOrder[i] = "send" /\ sendLock = None /\ sendLock' = t /\ UNCHANGED actLock
  /\ UNCHANGED <<port, headers, connLock, calls, crashed>>

\* Mutant: queue_first is not reset.
QueueAfterFlushKept == queue

QueueAfterFlush == <<>>

\* A disabled port has nothing to flush, and a failure leaves the queue alone. VideoCore
\* may answer before it has returned its headers.
PfFlush(t) ==
  /\ At(t, "pfFlush") /\ sendLock' = None /\ actLock' = None
  /\ \/ ~isEnabled /\ Goto(t, "idle") /\ UNCHANGED <<queue, chain>>
     \/ isEnabled /\ "flush" \in Failing /\ Goto(t, "idle") /\ UNCHANGED <<queue, chain>>
     \/ isEnabled /\ chain' = [chain EXCEPT ![t] = queue] /\ queue' = QueueAfterFlush
        /\ Goto(t, "chain")
  /\ UNCHANGED <<isEnabled, isPaused, callback, transit, hasPool, headers, connLock, back, cur,
                 hand, crashed>>

\* The callbacks of the headers taken off the queue run without a lock.
FlushChain(t) ==
  /\ At(t, "chain")
  /\ IF chain[t] = <<>>
     THEN Goto(t, "idle") /\ UNCHANGED <<chain, cur, back>>
     ELSE /\ chain' = [chain EXCEPT ![t] = Tail(@)]
          /\ cur' = [cur EXCEPT ![t] = Head(chain[t])]
          /\ back' = [back EXCEPT ![t] = "chain"] /\ Goto(t, "call")
  /\ UNCHANGED <<port, headers, locks, hand, crashed>>

Pause(t) ==
  /\ At(t, "idle") /\ sendLock = None /\ ~isPaused /\ isPaused' = TRUE
  /\ UNCHANGED <<isEnabled, callback, queue, transit, hasPool, headers, locks, pc, calls, crashed>>

\* Mutant: the port is no longer paused although a header could not be sent.
StillPausedNot(left) == FALSE

StillPaused(left) == left # <<>>

\* Resuming sends the queue to VideoCore, as far as that goes.
Resume(t) ==
  /\ At(t, "idle") /\ sendLock = None /\ isPaused
  /\ \/ ~isEnabled /\ isPaused' = FALSE /\ UNCHANGED <<queue, component>>
     \/ /\ isEnabled
        /\ \E n \in 0..Len(queue) :
             /\ n < Len(queue) => ~hasPool \/ "send" \in Failing
             /\ n > 0 => hasPool
             /\ component' = component \cup {queue[i] : i \in 1..n}
             /\ queue' = SubSeq(queue, n + 1, Len(queue))
             /\ isPaused' = StillPaused(SubSeq(queue, n + 1, Len(queue)))
  /\ UNCHANGED <<isEnabled, callback, transit, hasPool, done, events, client, locks, pc, calls,
                 crashed>>

-----------------------------------------------------------------------------

\* What a thread does once it has begun
InCall(t) ==
  \/ SendLock(t) \/ CountIn(t) \/ Pass(t) \/ PassFails(t) \/ Uncount(t)
  \/ CallClient(t) \/ ReturnFromCallback(t) \/ EventSend(t) \/ EventCall(t)
  \/ PfEnable(t) \/ SetEnabled(t)
  \/ ClearEnabled(t) \/ DisableLock(t) \/ PfDisable(t) \/ DrainTake(t) \/ DrainDone(t)
  \/ FlushQueue(t) \/ WaitTransit(t)
  \/ FlushLock(t) \/ PfFlush(t) \/ FlushChain(t)

Begin(t) ==
  EnablePort(t) \/ DisablePort(t) \/ Flush(t) \/ Pause(t) \/ Resume(t)

ActionThread == ActionLock \/ (At(Action, "loop") /\ DoCallback(Action)) \/ ActionUnlock

Crashed == crashed /\ UNCHANGED vars

Next ==
  \/ \E t \in Threads : InCall(t) \/ \E b \in Buffers : SendBuffer(t, b)
  \/ \E t \in Controllers : Begin(t)
  \/ ActionThread
  \/ \E b \in Buffers : ReturnBuffer(b)
  \/ ReturnFreedContext \/ SendEvent \/ Crashed

Spec == Init /\ [][Next]_vars

-----------------------------------------------------------------------------
(* Properties                                                               *)

Positions(s, b) == {i \in DOMAIN s : s[i] = b}

\* The places that hold header b. A header in a callback that has not been
\* entered is with its thread; afterwards it is the client's.
Places(b) ==
  {<<"client", x>> : x \in client \cap {b}} \cup {<<"component", x>> : x \in component \cap {b}} \cup
  {<<"queue", i>> : i \in Positions(queue, b)} \cup {<<"done", i>> : i \in Positions(done, b)} \cup
  {<<"cur", t>> : t \in {u \in Threads : pc[u] = "call" /\ cur[u] = b}} \cup
  {<<"hand", t>> : t \in {u \in Threads : hand[u] = b}} \cup
  UNION {{<<"chain", t, i>> : i \in Positions(chain[t], b)} : t \in Threads}

\* However sends, flushes, resumes, callbacks and disables overlap, a header is in
\* one place: it is never sent twice, called back twice or dropped.
OnePlace == \A b \in Buffers : \E p \in Places(b) : Places(b) = {p}

\* transit_buffer_headers counts the headers with the port: those sent and not
\* called back, those of callbacks in progress, and a send that has counted.
TransitExact ==
  transit =
    Len(queue) + Cardinality(component)
    + Cardinality({i \in DOMAIN done : done[i] \in Buffers})
    + Cardinality({t \in Threads : cur[t] # None})
    + Cardinality({t \in Threads : pc[t] \in {"pass", "uncount"}})
    + Cardinality({x \in Threads \X Buffers : Positions(chain[x[1]], x[2]) # {}})

\* Nobody calls back a header through a NULL callback: mmal_port_disable clears it
\* only after every header, those of a concurrent flush included, has come back.
CallbackDefined == \A t \in Threads : pc[t] = "call" => callback

\* A port whose callback is cleared is empty: every header is the client's, in its
\* hands or on the way to a refusal.
DisabledEmpty ==
  ~callback => \A b \in Buffers : b \in client \/ \E t \in Threads : hand[t] = b /\ pc[t] = "sendLock"

\* Headers wait in the internal queue only while the port is paused, so none is
\* overtaken by a later one, unless a disable has failed.
NoOvertaking == isEnabled /\ hasPool /\ ~isPaused => queue = <<>>

\* The threads that thread t cannot go on without: the holder of the lock it is at,
\* or those with a header in transit
WaitsFor(t) ==
  {u \in Threads :
     \/ u = sendLock /\ (pc[t] \in {"sendLock", "setEnabled", "disable", "restore"} \/
                         \E i \in 1..2 : pc[t] = FlushAt[i] /\ FlushOrder[i] = "send")
     \/ u = actLock /\ (pc[t] = "disableLock" \/ (t = Action /\ pc[t] = "idle" /\ done # <<>>) \/
                        \E i \in 1..2 : pc[t] = FlushAt[i] /\ FlushOrder[i] = "action")
     \/ pc[t] = "wait" /\ (cur[u] # None \/ chain[u] # <<>> \/ pc[u] \in {"pass", "uncount"})}

\* Sends from callbacks, flushes, disables that wait for headers in transit and the
\* action thread never wait for each other in a circle.
NoWaitCycle ==
  ~crashed => \A S \in SUBSET Threads :
                S # {} => \E t \in S : WaitsFor(t) \cap S = {}

-----------------------------------------------------------------------------
(* What the port promises its client, as an abstract specification.         *)

\* The header a thread offers to the port, before is_enabled is tested
Offered(t) == IF pc[t] = "sendLock" THEN hand[t] ELSE None

\* A header is with the port from that test until its callback, or until the send
\* fails.
Lent == {b \in Buffers : b \notin client /\ \A t \in Threads : Offered(t) # b}

Promise == INSTANCE HeaderPort WITH
  Headers <- Buffers, accepting <- isEnabled, calling <- callback, lent <- Lent

\* Through pauses, flushes, failed calls and sends from callbacks, each step of the port is
\* one that HeaderPort allows, or changes nothing for the client: headers are taken only
\* while is_enabled is set and called back only while the callback is, and the callback
\* is cleared only when all have come back.
ImplementsPort == Promise!Spec


=============================================================================
