---------------------------- MODULE MMALConnection ----------------------------
(***************************************************************************)
(* Connections between an output and an input port that are not tunnelled  *)
(* (util/mmal_connection.c): the pool of headers of each, the queue of what *)
(* the output port has produced, and the operations that enable, disable    *)
(* and reconfigure a connection, each by one thread a step at a time.       *)
(*                                                                          *)
(* A header is one of its pool's headers: the module counts them.  The      *)
(* ports are external here (MMALPort models them): a port is enabled or     *)
(* not, and holds headers that it gives back by its callback.               *)
(***************************************************************************)
EXTENDS Integers, Sequences, FiniteSets, FiniteSetsExt, Functions

CONSTANTS
  Connections, \* the connections
  Threads,     \* the threads that enable and disable them
  MaxBuffers,  \* the most buffers a format asks for
  Formats,     \* for each connection, the numbers of buffers its formats ask for
  EventNum,    \* the size of the event pool of an output port
  Forwarding,  \* the connections whose input port supports format change events
  MaxSema,     \* a value of the semaphore that stands for itself and all above
  Faulty,      \* the connections that fail
  Failing      \* what may fail: "array", "payload", "out", "in", "disable", "commit", "send"

Faults == {"array", "payload", "out", "in", "disable", "commit", "send"}

ASSUME ConnectionAssumption ==
  /\ IsFiniteSet(Connections) /\ Connections # {} /\ Forwarding \subseteq Connections
  /\ Faulty \subseteq Connections
  /\ Formats \in [Connections -> SUBSET (1..MaxBuffers)]
  /\ MaxBuffers \in Nat \ {0} /\ EventNum \in Nat /\ MaxSema \in Nat \ {0}
  /\ Failing \subseteq Faults

VARIABLES
  is_enabled, \* of each connection
  poolQueue,  \* the number of headers in pool->queue
  headers,    \* pool->headers_num
  allocated,  \* headers_alloc_num of the pool
  queue,      \* connection->queue: Data, or the number of buffers an event asks for
  eventPool,  \* the number of event headers the output port has left
  out, in,    \* the ports: is_enabled, whether a callback is set, the number of headers
              \* and of events they hold
  wanted,     \* out->buffer_num_recommended
  bufferNum,  \* out->buffer_num
  calling,    \* the callbacks that have queued a header and not yet told the client
  sema,       \* the semaphore that the client's callback posts
  op,         \* the operation each thread is in
  stranded    \* history: the connections that a failed enable left with their output port
              \* enabled or with headers in their queue

status == <<is_enabled, stranded>>
sizes  == <<headers, allocated, wanted, bufferNum>>
pools  == <<poolQueue, sizes>>
ports  == <<out, in, eventPool>>
connections    == <<status, pools, queue, ports>>
connectionVars == <<connections, calling, sema, op>>

Data    == 0
Ports   == {"out", "in", "event"}
OpLabels ==
  {"none", "enable", "resize", "enableOut", "enableIn", "undoOut", "undoWait", "disable",
   "disableIn", "waitIn", "disableOut", "waitOut", "flush", "check", "commit"}

\* A pool that is resized while its port has headers counts them anew, so that the headers
\* about may become more than the pool has.
ConnectionTypeOK ==
  /\ is_enabled \in [Connections -> BOOLEAN]
  /\ poolQueue \in [Connections -> Nat]
  /\ headers \in [Connections -> 0..MaxBuffers] /\ allocated \in [Connections -> 0..MaxBuffers]
  /\ queue \in [Connections -> Seq(0..MaxBuffers)]
  /\ eventPool \in [Connections -> 0..EventNum]
  /\ out \in [Connections -> [on : BOOLEAN, cb : BOOLEAN, has : Nat]]
  /\ in \in [Connections -> [on : BOOLEAN, has : Nat, events : 0..EventNum]]
  /\ wanted \in [Connections -> 1..MaxBuffers] /\ bufferNum \in [Connections -> 0..MaxBuffers]
  /\ calling \subseteq Connections \X Ports /\ sema \in 0..MaxSema
  /\ stranded \subseteq Connections
  /\ op \in [Threads -> [pc : OpLabels, cx : Connections, event : 0..MaxBuffers, ok : BOOLEAN]]

ConnectionInit ==
  /\ is_enabled = [c \in Connections |-> FALSE]
  /\ poolQueue = [c \in Connections |-> 0] /\ headers = poolQueue /\ allocated = poolQueue
  /\ queue = [c \in Connections |-> <<>>]
  /\ eventPool = [c \in Connections |-> EventNum]
  /\ out = [c \in Connections |-> [on |-> FALSE, cb |-> FALSE, has |-> 0]]
  /\ in = [c \in Connections |-> [on |-> FALSE, has |-> 0, events |-> 0]]
  /\ wanted = [c \in Connections |-> 1] /\ bufferNum = poolQueue
  /\ calling = {} /\ sema = 0 /\ stranded = {}
  /\ op = [t \in Threads |->
            [pc |-> "none", cx |-> CHOOSE c \in Connections : TRUE, event |-> 0, ok |-> TRUE]]

\* The callback of the client: it posts the semaphore.
Posted == IF sema < MaxSema THEN sema + 1 ELSE sema

May(c, fault) == c \in Faulty /\ fault \in Failing

\* mmal_buffer_header_release of a header of the connection, data or event.
Release(c, item) ==
  IF item = Data
  THEN /\ poolQueue' = [poolQueue EXCEPT ![c] = @ + 1] /\ sema' = Posted
       /\ UNCHANGED eventPool
  ELSE /\ eventPool' = [eventPool EXCEPT ![c] = @ + 1]
       /\ UNCHANGED <<poolQueue, sema>>

-----------------------------------------------------------------------------
(* The operations: a thread t that is in one is at op[t].pc on connection   *)
(* op[t].cx.                                                                 *)

Free(t)       == op[t].pc = "none"
Start(t, label, c, event) ==
  /\ Free(t)
  /\ op' = [op EXCEPT ![t] = [pc |-> label, cx |-> c, event |-> event, ok |-> TRUE]]
In(t, label)  == op[t].pc = label
OpGoto(t, label) == op' = [op EXCEPT ![t].pc = label]
Return(t, ok) == op' = [op EXCEPT ![t].pc = "none", ![t].event = 0, ![t].ok = ok]

\* is_enabled is written last, also when the operation has failed.
MarkEnabled(c, b) == is_enabled' = [is_enabled EXCEPT ![c] = b]

\* mmal_connection_enable: nothing to do, or the requirements of the ports.
Enable(t) ==
  LET c == op[t].cx IN
  /\ In(t, "enable")
  /\ IF is_enabled[c] THEN Return(t, TRUE) /\ UNCHANGED bufferNum
     ELSE OpGoto(t, "resize") /\ bufferNum' = [bufferNum EXCEPT ![c] = wanted[c]]
  /\ UNCHANGED <<status, poolQueue, headers, allocated, wanted, queue, ports, calling, sema>>

\* What the queue of a pool keeps when mmal_pool_resize takes headers_num headers off it.
Drained(c) == Max({poolQueue[c] - headers[c], 0})

\* mmal_pool_resize: when the number or the size of the buffers changes, the headers
\* in the queue are taken off it, initialised anew and queued.  The payload of a
\* header that cannot be allocated ends the pool there, and nobody looks at it.
Resize(t) ==
  LET c == op[t].cx
      n == bufferNum[c]
  IN
  /\ In(t, "resize") /\ OpGoto(t, "enableOut")
  /\ \/ n = headers[c] /\ UNCHANGED <<poolQueue, headers, allocated>>
     \/ \E kept \in 0..n :
          /\ kept = n \/ May(c, "payload")
          /\ poolQueue' = [poolQueue EXCEPT ![c] = Drained(c) + kept]
          /\ headers' = [headers EXCEPT ![c] = kept]
          /\ allocated' = [allocated EXCEPT ![c] = Max({n, @})]
  /\ UNCHANGED <<status, wanted, bufferNum, queue, ports, calling, sema>>

\* The headers are freed and more of them cannot be allocated.
ResizeFails(t) ==
  LET c == op[t].cx IN
  /\ In(t, "resize") /\ May(c, "array") /\ bufferNum[c] > allocated[c]
  /\ Return(t, FALSE) /\ MarkEnabled(c, FALSE)
  /\ poolQueue' = [poolQueue EXCEPT ![c] = Drained(c)]
  /\ headers' = [headers EXCEPT ![c] = 0] /\ allocated' = [allocated EXCEPT ![c] = 0]
  /\ UNCHANGED <<stranded, wanted, bufferNum, queue, ports, calling, sema>>

\* mmal_port_enable(out): a port that is enabled already refuses.
EnableOut(t) ==
  LET c == op[t].cx IN
  /\ In(t, "enableOut")
  /\ \/ /\ ~out[c].on /\ OpGoto(t, "enableIn") /\ UNCHANGED is_enabled
        /\ out' = [out EXCEPT ![c].on = TRUE, ![c].cb = TRUE]
     \/ out[c].on /\ Return(t, FALSE) /\ MarkEnabled(c, FALSE) /\ UNCHANGED out
     \/ /\ ~out[c].on /\ May(c, "out") /\ Return(t, FALSE) /\ MarkEnabled(c, FALSE)
        /\ \E cb \in {out[c].cb, TRUE} : out' = [out EXCEPT ![c].cb = cb]
  /\ UNCHANGED <<stranded, pools, queue, in, eventPool, calling, sema>>

\* mmal_port_enable(in), which ends the operation when it succeeds.
EnableIn(t) ==
  LET c == op[t].cx IN
  /\ In(t, "enableIn")
  /\ \/ /\ ~in[c].on /\ Return(t, TRUE) /\ MarkEnabled(c, TRUE)
        /\ in' = [in EXCEPT ![c].on = TRUE]
     \/ /\ in[c].on \/ May(c, "in")
        /\ OpGoto(t, "undoOut") /\ UNCHANGED <<in, is_enabled>>
  /\ UNCHANGED <<pools, queue, out, eventPool, calling, sema, stranded>>

\* A port to be disabled: it is enabled, and its component agrees.
Refuses(c, port) == ~port.on \/ May(c, "disable")

\* The error path of mmal_connection_enable disables the output port and ignores the
\* result.
UndoOut(t) ==
  LET c == op[t].cx IN
  /\ In(t, "undoOut")
  /\ \/ /\ out[c].on /\ OpGoto(t, "undoWait")
        /\ out' = [out EXCEPT ![c].on = FALSE] /\ UNCHANGED status
     \/ /\ Refuses(c, out[c]) /\ Return(t, FALSE) /\ MarkEnabled(c, FALSE)
        /\ stranded' = stranded \cup {c} /\ UNCHANGED out
  /\ UNCHANGED <<pools, queue, in, eventPool, calling, sema>>

\* mmal_port_disable(out) returns once the port has given back what it held and the
\* callbacks have returned.
OutIdle(c) == out[c].has = 0 /\ <<c, "out">> \notin calling
InIdle(c)  == in[c].has = 0 /\ in[c].events = 0 /\ <<c, "in">> \notin calling

\* Nobody empties the queue, in which headers are that came back meanwhile.
UndoWait(t) ==
  LET c == op[t].cx IN
  /\ In(t, "undoWait") /\ OutIdle(c)
  /\ Return(t, FALSE) /\ MarkEnabled(c, FALSE)
  /\ stranded' = IF Data \in Range(queue[c]) THEN stranded \cup {c} ELSE stranded
  /\ out' = [out EXCEPT ![c].cb = FALSE]
  /\ UNCHANGED <<pools, queue, in, eventPool, calling, sema>>

\* mmal_connection_disable, as it is called and as the first half of a reconfiguration:
\* what follows when it has succeeded.
AfterDisable(t) == IF op[t].event = 0 THEN Return(t, TRUE) ELSE OpGoto(t, "commit")

Disable(t) ==
  /\ In(t, "disable")
  /\ IF is_enabled[op[t].cx] THEN OpGoto(t, "disableIn") ELSE AfterDisable(t)
  /\ UNCHANGED <<connections, calling, sema>>

\* A port that does not let itself be disabled ends the operation, with the
\* connection enabled.
DisableIn(t) ==
  LET c == op[t].cx IN
  /\ In(t, "disableIn")
  /\ \/ /\ in[c].on /\ OpGoto(t, "waitIn") /\ UNCHANGED is_enabled
        /\ in' = [in EXCEPT ![c].on = FALSE]
     \/ Refuses(c, in[c]) /\ Return(t, FALSE) /\ MarkEnabled(c, TRUE) /\ UNCHANGED in
  /\ UNCHANGED <<stranded, pools, queue, out, eventPool, calling, sema>>

WaitIn(t) ==
  /\ In(t, "waitIn") /\ InIdle(op[t].cx)
  /\ OpGoto(t, "disableOut")
  /\ UNCHANGED <<connections, calling, sema>>

DisableOut(t) ==
  LET c == op[t].cx IN
  /\ In(t, "disableOut")
  /\ \/ /\ out[c].on /\ OpGoto(t, "waitOut") /\ UNCHANGED is_enabled
        /\ out' = [out EXCEPT ![c].on = FALSE]
     \/ Refuses(c, out[c]) /\ Return(t, FALSE) /\ MarkEnabled(c, TRUE) /\ UNCHANGED out
  /\ UNCHANGED <<stranded, pools, queue, in, eventPool, calling, sema>>

WaitOut(t) ==
  LET c == op[t].cx IN
  /\ In(t, "waitOut") /\ OutIdle(c)
  /\ OpGoto(t, "flush")
  /\ out' = [out EXCEPT ![c].cb = FALSE]
  /\ UNCHANGED <<status, pools, queue, in, eventPool, calling, sema>>

\* Mutant: one header is released and not all.
FlushOne(t) ==
  LET c == op[t].cx IN
  /\ In(t, "flush") /\ OpGoto(t, "check")
  /\ IF queue[c] = <<>> THEN UNCHANGED <<poolQueue, eventPool, sema, queue>>
     ELSE queue' = [queue EXCEPT ![c] = Tail(@)] /\ Release(c, Head(queue[c]))
  /\ UNCHANGED <<status, sizes, out, in, calling>>

\* Every header in the connection's queue is released: to its pool, whose callback
\* tells the client, or to the event pool.
Flush(t) ==
  LET c == op[t].cx IN
  /\ In(t, "flush")
  /\ IF queue[c] = <<>>
     THEN OpGoto(t, "check") /\ UNCHANGED <<poolQueue, eventPool, sema, queue>>
     ELSE /\ UNCHANGED op
          /\ queue' = [queue EXCEPT ![c] = Tail(@)]
          /\ Release(c, Head(queue[c]))
  /\ UNCHANGED <<status, sizes, out, in, calling>>

\* After the assertion on the length of the pool's queue.
Disabled(t) ==
  /\ In(t, "check") /\ AfterDisable(t) /\ MarkEnabled(op[t].cx, FALSE)
  /\ UNCHANGED <<pools, queue, ports, calling, sema, stranded>>

\* mmal_connection_reconfigure, between the halves: the new format on both ports.
Commit(t) ==
  LET c == op[t].cx IN
  /\ In(t, "commit")
  /\ \/ /\ op' = [op EXCEPT ![t].pc = "enable", ![t].event = 0]
        /\ wanted' = [wanted EXCEPT ![c] = op[t].event]
     \/ /\ May(c, "commit") /\ Return(t, FALSE)
        /\ wanted' \in {wanted, [wanted EXCEPT ![c] = op[t].event]}
  /\ UNCHANGED <<status, poolQueue, headers, allocated, bufferNum, queue, ports, calling, sema>>

Operation(t) ==
  \/ Enable(t) \/ Resize(t) \/ ResizeFails(t) \/ EnableOut(t) \/ EnableIn(t) \/ UndoOut(t)
  \/ UndoWait(t) \/ Disable(t) \/ DisableIn(t) \/ WaitIn(t) \/ DisableOut(t) \/ WaitOut(t)
  \/ Flush(t) \/ Disabled(t) \/ Commit(t)

-----------------------------------------------------------------------------
(* The ports.  Each gives headers back one after the other.                 *)

\* The output port fills a header, or gives it back empty when it is disabled:
\* mmal_connection_bh_out_cb queues it.
OutCallback(c) ==
  /\ out[c].has > 0 /\ <<c, "out">> \notin calling
  /\ out' = [out EXCEPT ![c].has = @ - 1]
  /\ queue' = [queue EXCEPT ![c] = Append(@, Data)]
  /\ calling' = calling \cup {<<c, "out">>}
  /\ UNCHANGED <<status, pools, in, eventPool, sema, op>>

\* The output port tells of a format that needs n buffers.
EventCallback(c, n) ==
  /\ out[c].cb /\ eventPool[c] > 0 /\ <<c, "event">> \notin calling
  /\ eventPool' = [eventPool EXCEPT ![c] = @ - 1]
  /\ queue' = [queue EXCEPT ![c] = Append(@, n)]
  /\ calling' = calling \cup {<<c, "event">>}
  /\ UNCHANGED <<status, pools, out, in, sema, op>>

\* The input port is done with a header: mmal_connection_bh_in_cb releases it, and the
\* callback of the pool, mmal_connection_bh_release_cb, queues it.
InCallback(c) ==
  /\ in[c].has > 0 /\ <<c, "in">> \notin calling
  /\ in' = [in EXCEPT ![c].has = @ - 1]
  /\ poolQueue' = [poolQueue EXCEPT ![c] = @ + 1]
  /\ calling' = calling \cup {<<c, "in">>}
  /\ UNCHANGED <<status, sizes, queue, out, eventPool, sema, op>>

\* The input port is done with an event that was sent on to it.
InEventCallback(c) ==
  /\ in[c].events > 0
  /\ in' = [in EXCEPT ![c].events = @ - 1]
  /\ eventPool' = [eventPool EXCEPT ![c] = @ + 1]
  /\ UNCHANGED <<status, pools, queue, out, calling, sema, op>>

\* Mutant: the callback of the pool does not tell the client.
PostOut(c, port) ==
  /\ <<c, port>> \in calling
  /\ calling' = calling \ {<<c, port>>}
  /\ sema' = IF port = "in" THEN sema ELSE Posted
  /\ UNCHANGED <<connections, op>>

\* connection->callback, the last thing a callback does.
Post(c, port) ==
  /\ <<c, port>> \in calling
  /\ calling' = calling \ {<<c, port>>}
  /\ sema' = Posted
  /\ UNCHANGED <<connections, op>>

PortStep(c) ==
  \/ OutCallback(c) \/ InCallback(c) \/ InEventCallback(c)
  \/ \E port \in Ports : Post(c, port)
=============================================================================
