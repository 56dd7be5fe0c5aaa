------------------------------ MODULE MMALGraph ------------------------------
(***************************************************************************)
(* A graph of connections (util/mmal_graph.c): the worker thread, which     *)
(* keeps the headers of all connections moving, and the application, which  *)
(* enables, disables and destroys the graph.                                *)
(*                                                                          *)
(* A connection is neither tunnelled nor direct, and the graph is not built *)
(* into a component.  The application enables and disables the graph in     *)
(* turns and destroys it when it is disabled.                               *)
(***************************************************************************)
EXTENDS MMALConnection

CONSTANTS
  ConnectionNum, \* connection_num; the connections are 0..ConnectionNum-1
  App, Worker,   \* the threads
  Held,          \* the connections the application keeps a reference to
  MaxEnables     \* how often the application enables the graph

ASSUME GraphAssumption ==
  /\ ConnectionNum \in Nat \ {0} /\ Connections = 0..(ConnectionNum - 1)
  /\ App # Worker /\ Threads = {App, Worker}
  /\ Held \subseteq Connections /\ MaxEnables \in Nat

VARIABLES
  app,          \* where the application is
  next,         \* the connection its loop is at
  enables,      \* how often it has enabled the graph
  stop_thread,
  worker,       \* where the worker is
  visited,      \* the number of connections the worker's loop has been to
  connection_current,
  run_again,
  hand,         \* the header the worker has taken off a queue
  refused,      \* history: the connections whose output port refused the last header
  skipped,      \* history: the connections the timeout made the worker leave last
  clashed,      \* history: the connections the worker began to reconfigure while the
                \* application was enabling them
  refcount,     \* of each connection
  held,         \* the connections the application still has a reference to
  freed         \* the connections destroyed

refs       == <<refcount, held, freed>>
appVars    == <<app, next, enables, refs>>
loop       == <<visited, connection_current>>
history    == <<refused, skipped, clashed>>
workerVars == <<worker, loop, run_again, hand, history>>
vars == <<connectionVars, appVars, workerVars, stop_thread>>

Nothing == MaxBuffers + 1 \* in the worker's hand

AppLabels ==
  {"idle", "enabling", "enabled", "running", "stopping", "joining", "aborting", "abortJoin",
   "disabling", "disabled", "destroying", "destroyed", "gone", "dropped"}
WorkerLabels == {"exited", "wait", "fill", "send", "drain", "process", "reconfigure"}

TypeOK ==
  /\ ConnectionTypeOK
  /\ app \in AppLabels /\ next \in 0..ConnectionNum /\ enables \in 0..MaxEnables
  /\ stop_thread \in BOOLEAN
  /\ worker \in WorkerLabels /\ visited \in 0..(ConnectionNum - 1)
  /\ connection_current \in Connections /\ run_again \in BOOLEAN
  /\ hand \in 0..Nothing
  /\ refused \subseteq Connections /\ skipped \subseteq Connections /\ clashed \subseteq Connections
  /\ refcount \in [Connections -> 0..2] /\ held \subseteq Held /\ freed \subseteq Connections

Init ==
  /\ ConnectionInit
  /\ app = "idle" /\ next = 0 /\ enables = 0 /\ stop_thread = FALSE
  /\ worker = "exited" /\ visited = 0 /\ connection_current = 0 /\ run_again = FALSE
  /\ hand = Nothing /\ refused = {} /\ skipped = {} /\ clashed = {}
  /\ refcount = [c \in Connections |-> IF c \in Held THEN 2 ELSE 1]
  /\ held = Held /\ freed = {}

-----------------------------------------------------------------------------
(* The application.                                                         *)

AppGoto(from, to) == app = from /\ app' = to

\* A loop over the connections: call an operation on the next one, or end.
Call(from, label, to) ==
  /\ app = from /\ next < ConnectionNum
  /\ Start(App, label, next, 0) /\ app' = to

\* mmal_graph_enable creates the worker's thread first.
GraphEnable ==
  /\ AppGoto("idle", "enabling") /\ enables < MaxEnables
  /\ enables' = enables + 1 /\ next' = 0 /\ worker' = "wait"
  /\ UNCHANGED <<connectionVars, loop, run_again, hand, history, refs, stop_thread>>

EnableNext ==
  /\ Call("enabling", "enable", "enabled")
  /\ UNCHANGED <<connections, calling, sema, next, enables, refs, workerVars, stop_thread>>

\* A connection that cannot be enabled ends the loop.
EnableCheck ==
  /\ app = "enabled" /\ Free(App)
  /\ IF op[App].ok THEN app' = "enabling" /\ next' = next + 1
     ELSE app' = "aborting" /\ UNCHANGED next
  /\ UNCHANGED <<connectionVars, enables, refs, workerVars, stop_thread>>

\* The post that makes the worker fill the output ports.
EnableDone ==
  /\ AppGoto("enabling", "running") /\ next = ConnectionNum
  /\ sema' = Posted
  /\ UNCHANGED <<connections, calling, op, next, enables, refs, workerVars, stop_thread>>

GraphDisable ==
  /\ AppGoto("running", "stopping")
  /\ UNCHANGED <<connectionVars, next, enables, refs, workerVars, stop_thread>>

\* graph_stop_worker_thread, from mmal_graph_disable or the error path of
\* mmal_graph_enable.
StopWorker ==
  /\ AppGoto("stopping", "joining") \/ AppGoto("aborting", "abortJoin")
  /\ stop_thread' = TRUE /\ sema' = Posted
  /\ UNCHANGED <<connections, calling, op, next, enables, refs, workerVars>>

JoinWorker ==
  /\ worker = "exited"
  /\ AppGoto("joining", "disabling") \/ AppGoto("abortJoin", "idle")
  /\ next' = 0
  /\ UNCHANGED <<connectionVars, enables, refs, workerVars, stop_thread>>

DisableNext ==
  /\ Call("disabling", "disable", "disabled")
  /\ UNCHANGED <<connections, calling, sema, next, enables, refs, workerVars, stop_thread>>

\* The first connection that cannot be disabled ends the loop, as does the last one.
DisableCheck ==
  /\ app = "disabled" /\ Free(App)
  /\ IF op[App].ok /\ next + 1 < ConnectionNum THEN app' = "disabling" /\ next' = next + 1
     ELSE app' = "idle" /\ UNCHANGED next
  /\ UNCHANGED <<connectionVars, enables, refs, workerVars, stop_thread>>

GraphDestroy ==
  /\ AppGoto("idle", "destroying") /\ next' = 0
  /\ UNCHANGED <<connectionVars, enables, refs, workerVars, stop_thread>>

\* mmal_connection_release: the last reference destroys the connection, which is
\* disabled first.
ReleaseConnection(c, delayed, destroys) ==
  /\ refcount' = [refcount EXCEPT ![c] = @ - 1]
  /\ IF refcount[c] > 1 THEN app' = delayed /\ UNCHANGED op
     ELSE Start(App, "disable", c, 0) /\ app' = destroys

DestroyNext ==
  /\ app = "destroying"
  /\ IF next < ConnectionNum
     THEN ReleaseConnection(next, "destroying", "destroyed") /\ next' = next + 1
     ELSE app' = "gone" /\ UNCHANGED <<op, refcount, next>>
  /\ UNCHANGED <<connections, calling, sema, enables, held, freed, workerVars, stop_thread>>

\* Mutant: a connection that could not be disabled is destroyed all the same.
DestroyAlways ==
  /\ Free(App)
  /\ AppGoto("destroyed", "destroying") \/ AppGoto("dropped", "gone")
  /\ freed' = freed \cup {op[App].cx}
  /\ UNCHANGED <<connectionVars, next, enables, refcount, held, workerVars, stop_thread>>

\* mmal_connection_destroy_internal gives up when the connection is not disabled.
DestroyConnection ==
  /\ Free(App)
  /\ AppGoto("destroyed", "destroying") \/ AppGoto("dropped", "gone")
  /\ freed' = IF op[App].ok THEN freed \cup {op[App].cx} ELSE freed
  /\ UNCHANGED <<connectionVars, next, enables, refcount, held, workerVars, stop_thread>>

\* The application gives up its own reference to a connection, after the graph.
Drop(c) ==
  /\ app = "gone" /\ c \in held
  /\ held' = held \ {c}
  /\ ReleaseConnection(c, app, "dropped")
  /\ UNCHANGED <<connections, calling, sema, next, enables, freed, workerVars, stop_thread>>

AppStep ==
  \/ EnableNext \/ EnableCheck \/ EnableDone \/ StopWorker \/ JoinWorker \/ DisableNext
  \/ DisableCheck \/ DestroyNext \/ DestroyConnection

-----------------------------------------------------------------------------
(* graph_worker_thread and graph_do_processing.                             *)

Current == (connection_current + visited) % ConnectionNum
AtLast  == visited = ConnectionNum - 1

\* The semaphore's top value stands for itself and all above.
Wake ==
  /\ worker = "wait" /\ sema > 0
  /\ sema' \in {sema - 1} \cup ({sema} \cap {MaxSema})
  /\ worker' = IF stop_thread THEN "exited" ELSE "fill"
  /\ visited' = 0 /\ run_again' = FALSE
  /\ UNCHANGED <<connections, calling, op, connection_current, hand, history>>

\* The next connection of the first loop, or on to the second loop.
FillNext == IF AtLast THEN worker' = "drain" /\ visited' = 0
            ELSE worker' = "fill" /\ visited' = visited + 1

FillTake ==
  /\ worker = "fill" /\ worker' = "send" /\ poolQueue[Current] > 0
  /\ poolQueue' = [poolQueue EXCEPT ![Current] = @ - 1]
  /\ hand' = Data /\ run_again' = TRUE
  /\ UNCHANGED <<status, sizes, queue, ports, calling, sema, op, loop, history>>

FillLeave ==
  /\ worker = "fill" /\ poolQueue[Current] = 0 /\ FillNext
  /\ UNCHANGED <<connectionVars, connection_current, run_again, hand, history>>

\* mmal_port_send_buffer(connection->out).
Send ==
  /\ worker = "send" /\ out[Current].on
  /\ out' = [out EXCEPT ![Current].has = @ + 1]
  /\ worker' = "fill" /\ hand' = Nothing /\ refused' = refused \ {Current}
  /\ UNCHANGED <<status, pools, queue, in, eventPool, calling, sema, op, loop, run_again, skipped,
                 clashed>>

\* The header goes back in front of the pool's queue and the connection is left.
SendFails ==
  /\ worker = "send" /\ (~out[Current].on \/ May(Current, "send"))
  /\ poolQueue' = [poolQueue EXCEPT ![Current] = @ + 1]
  /\ FillNext /\ hand' = Nothing /\ run_again' = FALSE /\ refused' = refused \cup {Current}
  /\ UNCHANGED <<status, sizes, queue, ports, calling, sema, op, connection_current, skipped, clashed>>

DrainTake ==
  /\ worker = "drain" /\ worker' = "process" /\ queue[Current] # <<>>
  /\ hand' = Head(queue[Current]) /\ queue' = [queue EXCEPT ![Current] = Tail(@)]
  /\ run_again' = TRUE
  /\ UNCHANGED <<status, pools, ports, calling, sema, op, loop, history>>

\* The next connection of the second loop, the next pass, or back to the semaphore.
DrainNext ==
  /\ worker = "drain" /\ run_again' = (run_again /\ ~AtLast)
  /\ visited' = IF AtLast THEN 0 ELSE visited + 1
  /\ worker' = CASE ~AtLast -> "drain" [] AtLast /\ run_again -> "fill" [] OTHER -> "wait"
  /\ connection_current' =
       IF AtLast THEN (connection_current + 1) % ConnectionNum ELSE connection_current
  /\ UNCHANGED <<connectionVars, hand, refused, clashed>>

DrainLeave   == queue[Current] = <<>> /\ DrainNext /\ skipped' = skipped \ {Current}
DrainTimeout == queue[Current] # <<>> /\ DrainNext /\ skipped' = skipped \cup {Current}

Processed == worker' = "drain" /\ hand' = Nothing

\* graph_process_buffer: data goes to the input port, which may refuse it.
ProcessData ==
  /\ worker = "process" /\ hand = Data /\ Processed
  /\ \/ /\ in[Current].on
        /\ in' = [in EXCEPT ![Current].has = @ + 1]
        /\ UNCHANGED <<poolQueue, eventPool, sema>>
     \/ /\ ~in[Current].on \/ May(Current, "send")
        /\ Release(Current, Data) /\ UNCHANGED in
  /\ UNCHANGED <<status, sizes, queue, out, calling, op, loop, run_again, history>>

\* mmal_connection_event_format_changed forwards the event to an input port that can
\* take it, as long as the buffers there are will do.
Forwards == Current \in Forwarding /\ hand <= bufferNum[Current]

ForwardEvent ==
  /\ worker = "process" /\ hand # Data /\ Forwards /\ Processed
  /\ \/ /\ in[Current].on
        /\ in' = [in EXCEPT ![Current].events = @ + 1]
        /\ UNCHANGED <<poolQueue, eventPool, sema>>
     \/ /\ ~in[Current].on \/ May(Current, "send") \/ May(Current, "commit")
        /\ Release(Current, hand) /\ UNCHANGED in
  /\ UNCHANGED <<status, sizes, queue, out, calling, op, loop, run_again, history>>

\* Any other format change reconfigures the connection, even one that the application is
\* still enabling ...
ReconfigureEvent ==
  /\ worker = "process" /\ hand # Data /\ ~Forwards
  /\ Start(Worker, "disable", Current, hand) /\ worker' = "reconfigure"
  /\ clashed' = IF ~Free(App) /\ op[App].cx = Current THEN clashed \cup {Current} ELSE clashed
  /\ UNCHANGED <<connections, calling, sema, loop, run_again, hand, refused, skipped>>

\* ... and then the event is released.
Reconfigured ==
  /\ worker = "reconfigure" /\ Free(Worker) /\ Processed
  /\ Release(Current, hand)
  /\ UNCHANGED <<status, sizes, queue, out, in, calling, op, loop, run_again, history>>

WorkerStep ==
  \/ Wake \/ FillTake \/ FillLeave \/ Send \/ SendFails
  \/ DrainTake \/ DrainLeave \/ DrainTimeout
  \/ ProcessData \/ ForwardEvent \/ ReconfigureEvent \/ Reconfigured

-----------------------------------------------------------------------------
Elsewhere == UNCHANGED <<appVars, workerVars, stop_thread>>

Event(c) == \E n \in Formats[c] : EventCallback(c, n)

Next ==
  \/ GraphEnable \/ GraphDisable \/ GraphDestroy \/ AppStep
  \/ \E c \in Connections : Drop(c)
  \/ WorkerStep /\ UNCHANGED <<appVars, stop_thread>>
  \/ \E t \in Threads : Operation(t) /\ Elsewhere
  \/ \E c \in Connections : (PortStep(c) \/ Event(c)) /\ Elsewhere
  \/ app = "gone" /\ held = {} /\ UNCHANGED vars

Spec == Init /\ [][Next]_vars

-----------------------------------------------------------------------------
\* No header of the pool of c is in a port, in the connection's queue or in the
\* worker's hand.
HeadersHome(c) ==
  /\ out[c].has = 0 /\ in[c].has = 0
  /\ Data \notin Range(queue[c])
  /\ ~(worker \in {"send", "process"} /\ Current = c /\ hand = Data)

\* What the application and the worker did to a connection did not get in each other's
\* way: they were never both in an operation on it, and the error path of an enable has
\* not left its output port enabled or its queue full.
Undisturbed(c) == c \notin stranded \cup clashed

\* When a connection has been disabled every header is in the queue of its pool, which
\* mmal_connection_disable asserts, whoever disables it: the application after it has
\* joined the worker, or the worker with a format change in its hand, also while the
\* application is enabling other connections.  Of the events only that one is not in
\* the event pool.
AllBack == \A t \in Threads :
  LET c == op[t].cx IN
  In(t, "check") /\ Undisturbed(c) =>
    /\ poolQueue[c] = headers[c]
    /\ eventPool[c] + (IF t = Worker THEN 1 ELSE 0) = EventNum

\* The headers of a pool are initialised anew, freed and allocated by mmal_pool_resize,
\* and freed with the pool by mmal_connection_destroy_internal, only while nobody has
\* one, however early a format change comes.
PoolAtRest ==
  /\ \A t \in Threads : In(t, "resize") /\ Undisturbed(op[t].cx) => HeadersHome(op[t].cx)
  /\ \A c \in freed : Undisturbed(c) => HeadersHome(c)

\* The worker does not sleep on buffers: when it waits, the semaphore is down and no
\* callback is about to post it, every header of a pool is in use, unless the port
\* refused it, and every queue is empty, unless the timeout made the worker leave it.
NoLostWakeup ==
  worker = "wait" /\ sema = 0 /\ calling = {} /\ app = "running" =>
    \A c \in Connections : /\ poolQueue[c] = 0 \/ c \in refused
                           /\ queue[c] = <<>> \/ c \in skipped
=============================================================================
