--------------------------- MODULE MMALGraphProofs ---------------------------
(***************************************************************************)
(* Theorems about MMALGraph for any number of connections, headers, events *)
(* and formats, whichever of them fail: where the headers of a connection  *)
(* are while it is enabled, disabled and reconfigured, and that the worker *)
(* never sleeps on work.                                                   *)
(***************************************************************************)
EXTENDS MMALGraph, SequenceFacts

OutPort   == [on : BOOLEAN, cb : BOOLEAN, has : Nat]
InPort    == [on : BOOLEAN, has : Nat, events : Nat]
Operating == [pc : OpLabels, cx : Connections, event : 0..MaxBuffers, ok : BOOLEAN]

\* TypeOK, but for the bounds of the events and of the references
PoolTypes ==
  /\ poolQueue \in [Connections -> Nat]
  /\ headers \in [Connections -> 0..MaxBuffers] /\ allocated \in [Connections -> 0..MaxBuffers]
  /\ wanted \in [Connections -> 1..MaxBuffers] /\ bufferNum \in [Connections -> 0..MaxBuffers]

PortTypes ==
  /\ queue \in [Connections -> Seq(0..MaxBuffers)]
  /\ eventPool \in [Connections -> Nat]
  /\ out \in [Connections -> OutPort] /\ in \in [Connections -> InPort]
  /\ calling \subseteq Connections \X Ports /\ sema \in 0..MaxSema

StatusTypes ==
  /\ is_enabled \in [Connections -> BOOLEAN] /\ stranded \subseteq Connections
  /\ op \in [Threads -> Operating]

AppTypes ==
  /\ app \in AppLabels /\ next \in 0..ConnectionNum /\ enables \in 0..MaxEnables
  /\ stop_thread \in BOOLEAN
  /\ refcount \in [Connections -> Int] /\ held \subseteq Held /\ freed \subseteq Connections

WorkerTypes ==
  /\ worker \in WorkerLabels /\ visited \in 0..(ConnectionNum - 1)
  /\ connection_current \in Connections /\ run_again \in BOOLEAN
  /\ hand \in 0..Nothing
  /\ refused \subseteq Connections /\ skipped \subseteq Connections
  /\ clashed \subseteq Connections

Types == PoolTypes /\ PortTypes /\ StatusTypes /\ AppTypes /\ WorkerTypes

EnableStages  == {"enable", "resize", "enableOut", "enableIn", "undoOut", "undoWait"}
DisableStages ==
  {"disable", "disableIn", "waitIn", "disableOut", "waitOut", "flush", "check"}

\* Which operation each thread can be in, and what the worker has in its hand
OpRoles ==
  /\ ~Free(App) => /\ \/ app = "enabled" /\ op[App].pc \in EnableStages
                      \/ /\ app \in {"disabled", "destroyed", "dropped"}
                         /\ op[App].pc \in DisableStages
                   /\ op[App].event = 0
  /\ ~Free(Worker) => worker = "reconfigure" /\ op[Worker].cx = Current
  /\ \A t \in Threads : op[t].pc = "commit" => op[t].event # 0

HandRoles ==
  /\ worker = "send" => hand = Data
  /\ worker = "process" => hand \in 0..MaxBuffers
  /\ worker = "reconfigure" => hand \in 1..MaxBuffers
  /\ worker \notin {"send", "process", "reconfigure"} => hand = Nothing

AppRoles ==
  /\ app \in {"enabled", "disabled"} => next < ConnectionNum
  /\ app \in {"idle", "disabling", "disabled", "destroying", "destroyed", "gone", "dropped"} =>
       worker = "exited"

Roles == OpRoles /\ HandRoles /\ AppRoles

Control == Types /\ Roles

-----------------------------------------------------------------------------
(* The constants                                                            *)

LEMMA Indices ==
  /\ ConnectionNum \in Nat /\ ConnectionNum >= 1 /\ Connections = 0..(ConnectionNum - 1)
  /\ App \in Threads /\ Worker \in Threads /\ App # Worker
  /\ Threads = {App, Worker}
  /\ MaxBuffers \in Nat /\ MaxBuffers >= 1 /\ EventNum \in Nat
  /\ MaxSema \in Nat /\ MaxSema >= 1 /\ MaxEnables \in Nat
  /\ Held \subseteq Connections /\ Connections # {}
  /\ \A c \in Connections : c \in Int /\ Formats[c] \subseteq 1..MaxBuffers
BY ConnectionAssumption, GraphAssumption

LEMMA CurrentIs ==
  ASSUME WorkerTypes
  PROVE  Current \in Connections /\ Nothing \notin 0..MaxBuffers /\ Nothing \in 0..Nothing
         /\ Data \in 0..MaxBuffers
<1>1. connection_current \in Int /\ visited \in Int
  BY Indices DEF WorkerTypes
<1>2. \A k \in Int : k % ConnectionNum \in 0..(ConnectionNum - 1)
  BY Indices
<1>3. Current \in Connections
  <2>1. connection_current + visited \in Int
    BY <1>1
  <2> QED
    BY <1>2, <2>1, Indices DEF Current
<1>4. Nothing \notin 0..MaxBuffers /\ Nothing \in 0..Nothing
  BY Indices DEF Nothing
<1> QED
  BY <1>3, <1>4, Indices DEF Data

LEMMA MaxOfTwo ==
  ASSUME NEW a \in Int, NEW b \in Int
  PROVE  Max({a, b}) = IF a >= b THEN a ELSE b
<1>1. a >= b => Max({a, b}) = a
  BY DEF Max
<1>2. ~(a >= b) => Max({a, b}) = b
  BY DEF Max
<1> QED
  BY <1>1, <1>2

-----------------------------------------------------------------------------
(* The types                                                                *)

LEMMA InitTypes ==
  ASSUME Init
  PROVE  Types
<1>1. PoolTypes
  BY Indices DEF Init, ConnectionInit, PoolTypes
<1>2. PortTypes
  <2>1. <<>> \in Seq(0..MaxBuffers)
    OBVIOUS
  <2> QED
    BY <2>1, Indices DEF Init, ConnectionInit, PortTypes, OutPort, InPort
<1>3. StatusTypes
  <2>1. (CHOOSE c \in Connections : TRUE) \in Connections
    BY Indices
  <2> QED
    BY <2>1, Indices DEF Init, ConnectionInit, StatusTypes, Operating, OpLabels
<1>4. AppTypes
  <2>1. refcount \in [Connections -> Int] /\ held \subseteq Held /\ freed \subseteq Connections
    BY DEF Init
  <2>2. 0 \in 0..ConnectionNum /\ 0 \in 0..MaxEnables
    BY Indices
  <2> QED
    BY <2>1, <2>2 DEF Init, AppTypes, AppLabels
<1>5. WorkerTypes
  <2>1. 0 \in 0..(ConnectionNum - 1) /\ 0 \in Connections /\ Nothing \in 0..Nothing
    BY Indices DEF Nothing
  <2> QED
    BY <2>1 DEF Init, WorkerTypes, WorkerLabels
<1> QED
  BY <1>1, <1>2, <1>3, <1>4, <1>5 DEF Types

\* What the changes of a thread's operation do
LEMMA OpSteps ==
  ASSUME StatusTypes, NEW t \in Threads
  PROVE  /\ \A label \in OpLabels :
              /\ OpGoto(t, label) =>
                   /\ op' \in [Threads -> Operating] /\ op'[t].pc = label
                   /\ op'[t].cx = op[t].cx /\ op'[t].event = op[t].event /\ op'[t].ok = op[t].ok
              /\ \A c \in Connections, n \in 0..MaxBuffers : Start(t, label, c, n) =>
                   /\ Free(t) /\ op' \in [Threads -> Operating] /\ op'[t].pc = label
                   /\ op'[t].cx = c /\ op'[t].event = n /\ op'[t].ok = TRUE
         /\ \A ok \in BOOLEAN : Return(t, ok) =>
              /\ op' \in [Threads -> Operating] /\ op'[t].pc = "none"
              /\ op'[t].cx = op[t].cx /\ op'[t].event = 0 /\ op'[t].ok = ok
         /\ op[t] \in Operating
<1>1. op[t] \in Operating /\ 0 \in 0..MaxBuffers /\ "none" \in OpLabels
  BY Indices DEF StatusTypes, OpLabels
<1>2. ASSUME NEW label \in OpLabels, OpGoto(t, label)
      PROVE  /\ op' \in [Threads -> Operating] /\ op'[t].pc = label
             /\ op'[t].cx = op[t].cx /\ op'[t].event = op[t].event /\ op'[t].ok = op[t].ok
  BY <1>1, <1>2 DEF StatusTypes, OpGoto, Operating
<1>3. ASSUME NEW label \in OpLabels, NEW c \in Connections, NEW n \in 0..MaxBuffers,
             Start(t, label, c, n)
      PROVE  /\ Free(t) /\ op' \in [Threads -> Operating] /\ op'[t].pc = label
             /\ op'[t].cx = c /\ op'[t].event = n /\ op'[t].ok = TRUE
  BY <1>1, <1>3 DEF StatusTypes, Start, Operating
<1>4. ASSUME NEW ok \in BOOLEAN, Return(t, ok)
      PROVE  /\ op' \in [Threads -> Operating] /\ op'[t].pc = "none"
             /\ op'[t].cx = op[t].cx /\ op'[t].event = 0 /\ op'[t].ok = ok
  BY <1>1, <1>4 DEF StatusTypes, Return, Operating
<1> QED
  BY <1>1, <1>2, <1>3, <1>4

\* A thread's operation leaves the other's alone.
LEMMA OthersStay ==
  ASSUME StatusTypes, NEW t \in Threads, NEW u \in Threads, u # t
  PROVE  /\ \A label : OpGoto(t, label) => op'[u] = op[u]
         /\ \A label, c, n : Start(t, label, c, n) => op'[u] = op[u]
         /\ \A ok : Return(t, ok) => op'[u] = op[u]
         /\ Commit(t) => op'[u] = op[u]
BY DEF StatusTypes, OpGoto, Start, Return, Commit

LEMMA OperationStatus ==
  ASSUME Types, NEW t \in Threads, Operation(t)
  PROVE  StatusTypes'
<1> DEFINE c == op[t].cx
<1>0. StatusTypes /\ op[t] \in Operating /\ c \in Connections
  BY OpSteps DEF Types, Operating
<1>1. op' \in [Threads -> Operating]
  <2> USE <1>0
  <2>1. CASE Enable(t) \/ Resize(t) \/ ResizeFails(t) \/ EnableOut(t) \/ EnableIn(t)
             \/ UndoOut(t) \/ UndoWait(t)
    <3>1. \/ \E label \in {"resize", "enableOut", "enableIn", "undoOut", "undoWait"} :
               OpGoto(t, label)
          \/ \E ok \in BOOLEAN : Return(t, ok)
      BY <2>1 DEF Enable, Resize, ResizeFails, EnableOut, EnableIn, UndoOut, UndoWait
    <3> QED
      BY <3>1, OpSteps DEF OpLabels
  <2>2. CASE Disable(t) \/ DisableIn(t) \/ WaitIn(t) \/ DisableOut(t) \/ WaitOut(t)
             \/ Flush(t) \/ Disabled(t)
    <3>1. \/ \E label \in {"disableIn", "waitIn", "disableOut", "waitOut", "flush", "check",
                           "commit"} : OpGoto(t, label)
          \/ \E ok \in BOOLEAN : Return(t, ok)
          \/ op' = op
      BY <2>2 DEF Disable, DisableIn, WaitIn, DisableOut, WaitOut, Flush, Disabled, AfterDisable
    <3> QED
      BY <3>1, OpSteps DEF OpLabels, StatusTypes
  <2>3. CASE Commit(t)
    <3>1. CASE op' = [op EXCEPT ![t].pc = "enable", ![t].event = 0]
      <4>1. "enable" \in OpLabels /\ 0 \in 0..MaxBuffers
        BY Indices DEF OpLabels
      <4> QED
        BY <3>1, <4>1 DEF StatusTypes, Operating
    <3>2. CASE Return(t, FALSE)
      BY <3>2, OpSteps
    <3> QED
      BY <2>3, <3>1, <3>2 DEF Commit
  <2> QED
    BY <2>1, <2>2, <2>3 DEF Operation
<1>2. is_enabled' \in [Connections -> BOOLEAN] /\ stranded' \subseteq Connections
  <2>1. is_enabled' = is_enabled \/ \E b \in BOOLEAN : is_enabled' = [is_enabled EXCEPT ![c] = b]
    BY DEF Operation, Enable, Resize, ResizeFails, EnableOut, EnableIn, UndoOut, UndoWait,
           Disable, DisableIn, WaitIn, DisableOut, WaitOut, Flush, Disabled, Commit,
           status, connections, MarkEnabled
  <2>2. stranded' = stranded \/ stranded' = stranded \cup {c}
    BY DEF Operation, Enable, Resize, ResizeFails, EnableOut, EnableIn, UndoOut, UndoWait,
           Disable, DisableIn, WaitIn, DisableOut, WaitOut, Flush, Disabled, Commit,
           status, connections
  <2> QED
    BY <1>0, <2>1, <2>2 DEF StatusTypes
<1> QED
  BY <1>1, <1>2 DEF StatusTypes

\* What the changes of a port, of a queue and of a count do
LEMMA PostedType ==
  ASSUME PortTypes
  PROVE  Posted \in 0..MaxSema /\ Posted >= 1 /\ Posted > 0
BY Indices DEF PortTypes, Posted

LEMMA ReleaseTypes ==
  ASSUME PoolTypes, PortTypes, NEW c \in Connections, NEW item, Release(c, item)
  PROVE  /\ poolQueue' \in [Connections -> Nat] /\ eventPool' \in [Connections -> Nat]
         /\ sema' \in 0..MaxSema
<1>1. poolQueue[c] + 1 \in Nat /\ eventPool[c] + 1 \in Nat
  BY DEF PoolTypes, PortTypes
<1> QED
  BY <1>1, PostedType DEF PoolTypes, PortTypes, Release

LEMMA TakeTypes ==
  ASSUME PortTypes, NEW c \in Connections
  PROVE  /\ queue[c] # <<>> => /\ Head(queue[c]) \in 0..MaxBuffers
                               /\ [queue EXCEPT ![c] = Tail(@)]
                                    \in [Connections -> Seq(0..MaxBuffers)]
         /\ \A n \in 0..MaxBuffers :
              [queue EXCEPT ![c] = Append(@, n)] \in [Connections -> Seq(0..MaxBuffers)]
<1>1. queue[c] \in Seq(0..MaxBuffers)
  BY DEF PortTypes
<1>2. queue[c] # <<>> => Head(queue[c]) \in 0..MaxBuffers /\ Tail(queue[c]) \in Seq(0..MaxBuffers)
  BY <1>1, TailElements
<1>3. \A n \in 0..MaxBuffers : Append(queue[c], n) \in Seq(0..MaxBuffers)
  BY <1>1
<1> QED
  BY <1>2, <1>3 DEF PortTypes

LEMMA OutTypes ==
  ASSUME PortTypes, NEW c \in Connections
  PROVE  /\ out[c] \in OutPort /\ in[c] \in InPort
         /\ \A b \in BOOLEAN : /\ [out EXCEPT ![c].on = b] \in [Connections -> OutPort]
                               /\ [out EXCEPT ![c].cb = b] \in [Connections -> OutPort]
                               /\ [out EXCEPT ![c].on = b, ![c].cb = b] \in [Connections -> OutPort]
                               /\ [in EXCEPT ![c].on = b] \in [Connections -> InPort]
         /\ [out EXCEPT ![c].has = @ + 1] \in [Connections -> OutPort]
         /\ [in EXCEPT ![c].has = @ + 1] \in [Connections -> InPort]
         /\ [in EXCEPT ![c].events = @ + 1] \in [Connections -> InPort]
         /\ out[c].has > 0 => [out EXCEPT ![c].has = @ - 1] \in [Connections -> OutPort]
         /\ in[c].has > 0 => [in EXCEPT ![c].has = @ - 1] \in [Connections -> InPort]
         /\ in[c].events > 0 => [in EXCEPT ![c].events = @ - 1] \in [Connections -> InPort]
<1>1. out[c] \in OutPort /\ in[c] \in InPort
  BY DEF PortTypes
<1>2. \A b \in BOOLEAN : /\ [out EXCEPT ![c].on = b] \in [Connections -> OutPort]
                         /\ [out EXCEPT ![c].cb = b] \in [Connections -> OutPort]
                         /\ [out EXCEPT ![c].on = b, ![c].cb = b] \in [Connections -> OutPort]
                         /\ [in EXCEPT ![c].on = b] \in [Connections -> InPort]
  BY <1>1 DEF PortTypes, OutPort, InPort
<1>3. /\ [out EXCEPT ![c].has = @ + 1] \in [Connections -> OutPort]
      /\ [in EXCEPT ![c].has = @ + 1] \in [Connections -> InPort]
      /\ [in EXCEPT ![c].events = @ + 1] \in [Connections -> InPort]
  <2>1. out[c].has + 1 \in Nat /\ in[c].has + 1 \in Nat /\ in[c].events + 1 \in Nat
    BY <1>1 DEF OutPort, InPort
  <2> QED
    BY <1>1, <2>1 DEF PortTypes, OutPort, InPort
<1>4. /\ out[c].has > 0 => [out EXCEPT ![c].has = @ - 1] \in [Connections -> OutPort]
      /\ in[c].has > 0 => [in EXCEPT ![c].has = @ - 1] \in [Connections -> InPort]
      /\ in[c].events > 0 => [in EXCEPT ![c].events = @ - 1] \in [Connections -> InPort]
  <2>1. /\ out[c].has > 0 => out[c].has - 1 \in Nat
        /\ in[c].has > 0 => in[c].has - 1 \in Nat
        /\ in[c].events > 0 => in[c].events - 1 \in Nat
    BY <1>1 DEF OutPort, InPort
  <2> QED
    BY <1>1, <2>1 DEF PortTypes, OutPort, InPort
<1> QED
  BY <1>1, <1>2, <1>3, <1>4

LEMMA OperationPorts ==
  ASSUME Types, NEW t \in Threads, Operation(t)
  PROVE  PortTypes'
<1> DEFINE c == op[t].cx
<1>0. PoolTypes /\ PortTypes /\ c \in Connections
  BY OpSteps DEF Types, Operating
<1>1. CASE UNCHANGED <<queue, ports, calling, sema>>
  BY <1>0, <1>1 DEF PortTypes, ports
<1>2. CASE EnableOut(t) \/ EnableIn(t) \/ UndoOut(t) \/ UndoWait(t) \/ DisableIn(t)
           \/ DisableOut(t) \/ WaitOut(t)
  <2>1. UNCHANGED <<queue, eventPool, calling, sema>>
    BY <1>2 DEF EnableOut, EnableIn, UndoOut, UndoWait, DisableIn, DisableOut, WaitOut
  <2>2. /\ \/ out' = out
           \/ \E b \in BOOLEAN : \/ out' = [out EXCEPT ![c].on = b]
                                 \/ out' = [out EXCEPT ![c].cb = b]
                                 \/ out' = [out EXCEPT ![c].on = b, ![c].cb = b]
        /\ in' = in \/ \E b \in BOOLEAN : in' = [in EXCEPT ![c].on = b]
    <3>1. out[c].cb \in BOOLEAN
      BY <1>0, OutTypes DEF OutPort
    <3> QED
      BY <1>2, <3>1
      DEF EnableOut, EnableIn, UndoOut, UndoWait, DisableIn, DisableOut, WaitOut
  <2>3. out' \in [Connections -> OutPort] /\ in' \in [Connections -> InPort]
    <3>1. out \in [Connections -> OutPort] /\ in \in [Connections -> InPort]
      BY <1>0 DEF PortTypes
    <3>2. \A b \in BOOLEAN :
            /\ [out EXCEPT ![c].on = b] \in [Connections -> OutPort]
            /\ [out EXCEPT ![c].cb = b] \in [Connections -> OutPort]
            /\ [out EXCEPT ![c].on = b, ![c].cb = b] \in [Connections -> OutPort]
            /\ [in EXCEPT ![c].on = b] \in [Connections -> InPort]
      BY <1>0, OutTypes
    <3>3. in' \in [Connections -> InPort]
      BY <2>2, <3>1, <3>2
    <3>4. out' \in [Connections -> OutPort]
      <4>1. CASE out' = out
        BY <3>1, <4>1
      <4>2. ASSUME NEW b \in BOOLEAN,
                   \/ out' = [out EXCEPT ![c].on = b]
                   \/ out' = [out EXCEPT ![c].cb = b]
                   \/ out' = [out EXCEPT ![c].on = b, ![c].cb = b]
            PROVE  out' \in [Connections -> OutPort]
        <5>1. CASE out' = [out EXCEPT ![c].on = b]
          BY <3>2, <5>1
        <5>2. CASE out' = [out EXCEPT ![c].cb = b]
          BY <3>2, <5>2
        <5>3. CASE out' = [out EXCEPT ![c].on = b, ![c].cb = b]
          BY <3>2, <5>3
        <5> QED
          BY <4>2, <5>1, <5>2, <5>3
      <4>3. CASE \E b \in BOOLEAN : \/ out' = [out EXCEPT ![c].on = b]
                                    \/ out' = [out EXCEPT ![c].cb = b]
                                    \/ out' = [out EXCEPT ![c].on = b, ![c].cb = b]
        <5>1. PICK b \in BOOLEAN : \/ out' = [out EXCEPT ![c].on = b]
                                   \/ out' = [out EXCEPT ![c].cb = b]
                                   \/ out' = [out EXCEPT ![c].on = b, ![c].cb = b]
          BY <4>3
        <5> QED
          BY <4>2, <5>1
      <4> QED
        BY <2>2, <4>1, <4>3
    <3> QED
      BY <3>3, <3>4
  <2> QED
    BY <1>0, <2>1, <2>3 DEF PortTypes
<1>3. CASE Flush(t) /\ queue[c] # <<>>
  <2>1. Release(c, Head(queue[c])) /\ queue' = [queue EXCEPT ![c] = Tail(@)]
        /\ UNCHANGED <<out, in, calling>>
    BY <1>3 DEF Flush
  <2> QED
    BY <1>0, <1>3, <2>1, ReleaseTypes, TakeTypes DEF PortTypes
<1>4. \/ UNCHANGED <<queue, ports, calling, sema>>
      \/ EnableOut(t) \/ EnableIn(t) \/ UndoOut(t) \/ UndoWait(t) \/ DisableIn(t)
      \/ DisableOut(t) \/ WaitOut(t) \/ (Flush(t) /\ queue[c] # <<>>)
  <2>1. Flush(t) /\ queue[c] = <<>> => UNCHANGED <<queue, ports, calling, sema>>
    BY DEF Flush, ports
  <2> QED
    BY <2>1 DEF Operation, Enable, Resize, ResizeFails, Disable, WaitIn, Flush, Disabled, Commit,
           connections, ports
<1> QED
  BY <1>1, <1>2, <1>3, <1>4

LEMMA OperationPools ==
  ASSUME Types, NEW t \in Threads, Operation(t), OpRoles
  PROVE  PoolTypes'
<1> DEFINE c == op[t].cx
<1>0. PoolTypes /\ PortTypes /\ c \in Connections /\ op[t] \in Operating
  BY OpSteps DEF Types, Operating
<1>1. CASE UNCHANGED pools
  BY <1>0, <1>1 DEF PoolTypes, pools, sizes
<1>2. CASE Enable(t)
  <2>1. UNCHANGED <<poolQueue, headers, allocated, wanted>>
        /\ (bufferNum' = bufferNum \/ bufferNum' = [bufferNum EXCEPT ![c] = wanted[c]])
    BY <1>2 DEF Enable
  <2>2. wanted[c] \in 0..MaxBuffers
    <3>1. wanted[c] \in 1..MaxBuffers
      BY <1>0 DEF PoolTypes
    <3> QED
      BY <3>1, Indices
  <2> QED
    BY <1>0, <2>1, <2>2 DEF PoolTypes
<1>3. CASE Resize(t) \/ ResizeFails(t)
  <2>1. Drained(c) \in Nat
    <3>1. poolQueue[c] \in Nat /\ headers[c] \in 0..MaxBuffers
      BY <1>0 DEF PoolTypes
    <3>2. poolQueue[c] - headers[c] \in Int
      BY <3>1, Indices
    <3>3. Max({poolQueue[c] - headers[c], 0}) \in Nat
      BY <3>2, MaxOfTwo
    <3> QED
      BY <3>3 DEF Drained
  <2>2. bufferNum[c] \in 0..MaxBuffers /\ allocated[c] \in 0..MaxBuffers
        /\ bufferNum[c] \in Int /\ allocated[c] \in Int
    <3>1. bufferNum[c] \in 0..MaxBuffers /\ allocated[c] \in 0..MaxBuffers
      BY <1>0 DEF PoolTypes
    <3> QED
      BY <3>1, Indices
  <2>3. Max({bufferNum[c], allocated[c]}) \in 0..MaxBuffers /\ 0 \in 0..MaxBuffers
    BY <2>2, MaxOfTwo, Indices
  <2>4. UNCHANGED <<wanted, bufferNum>>
    BY <1>3 DEF Resize, ResizeFails
  <2>5. CASE UNCHANGED <<poolQueue, headers, allocated>>
    BY <1>0, <2>4, <2>5 DEF PoolTypes
  <2>6. CASE \E kept \in 0..bufferNum[c] :
               /\ poolQueue' = [poolQueue EXCEPT ![c] = Drained(c) + kept]
               /\ headers' = [headers EXCEPT ![c] = kept]
               /\ allocated' = [allocated EXCEPT ![c] = Max({bufferNum[c], @})]
    <3>1. PICK kept \in 0..bufferNum[c] :
               /\ poolQueue' = [poolQueue EXCEPT ![c] = Drained(c) + kept]
               /\ headers' = [headers EXCEPT ![c] = kept]
               /\ allocated' = [allocated EXCEPT ![c] = Max({bufferNum[c], @})]
      BY <2>6
    <3>2. Drained(c) + kept \in Nat /\ kept \in 0..MaxBuffers
      BY <2>1, <2>2, Indices
    <3> QED
      BY <1>0, <2>3, <2>4, <3>1, <3>2 DEF PoolTypes
  <2>7. CASE ResizeFails(t)
    BY <1>0, <2>1, <2>3, <2>7 DEF PoolTypes, ResizeFails
  <2> QED
    BY <1>3, <2>5, <2>6, <2>7 DEF Resize
<1>4. CASE Flush(t) /\ queue[c] # <<>>
  <2>1. Release(c, Head(queue[c])) /\ UNCHANGED sizes
    BY <1>4 DEF Flush
  <2> QED
    BY <1>0, <2>1, ReleaseTypes DEF PoolTypes, sizes
<1>5. CASE Commit(t)
  <2>1. op[t].event \in 1..MaxBuffers
    <3>1. op[t].event \in 0..MaxBuffers /\ op[t].event # 0
      BY <1>0, <1>5 DEF Commit, In, OpRoles, Operating
    <3> QED
      BY <3>1, Indices
  <2>2. /\ UNCHANGED <<poolQueue, headers, allocated, bufferNum>>
        /\ wanted' = wanted \/ wanted' = [wanted EXCEPT ![c] = op[t].event]
    BY <1>5 DEF Commit
  <2> QED
    BY <1>0, <2>1, <2>2 DEF PoolTypes
<1>6. \/ UNCHANGED pools \/ Enable(t) \/ Resize(t) \/ ResizeFails(t)
      \/ (Flush(t) /\ queue[c] # <<>>) \/ Commit(t)
  BY DEF Operation, EnableOut, EnableIn, UndoOut, UndoWait, Disable, DisableIn, WaitIn,
         DisableOut, WaitOut, Flush, Disabled, connections, pools
<1> QED
  BY <1>1, <1>2, <1>3, <1>4, <1>5, <1>6

LEMMA PortStepTypes ==
  ASSUME Types, NEW c \in Connections, PortStep(c) \/ \E n \in Formats[c] : EventCallback(c, n)
  PROVE  PoolTypes' /\ PortTypes' /\ StatusTypes'
<1>0. PoolTypes /\ PortTypes /\ StatusTypes
  BY DEF Types
<1>1. CASE OutCallback(c)
  <2>1. <<c, "out">> \in Connections \X Ports /\ Data \in 0..MaxBuffers
    BY Indices DEF Ports, Data
  <2>2. out' \in [Connections -> OutPort] /\ queue' \in [Connections -> Seq(0..MaxBuffers)]
    BY <1>0, <1>1, <2>1, OutTypes, TakeTypes DEF OutCallback
  <2> QED
    BY <1>0, <1>1, <2>1, <2>2
    DEF OutCallback, PoolTypes, PortTypes, StatusTypes, status, pools, sizes
<1>2. CASE \E n \in Formats[c] : EventCallback(c, n)
  <2>1. PICK n \in Formats[c] : EventCallback(c, n)
    BY <1>2
  <2>2. n \in 0..MaxBuffers /\ <<c, "event">> \in Connections \X Ports
    BY Indices DEF Ports
  <2>3. queue' \in [Connections -> Seq(0..MaxBuffers)]
    BY <1>0, <2>1, <2>2, TakeTypes DEF EventCallback
  <2>4. eventPool' \in [Connections -> Nat]
    BY <1>0, <2>1 DEF EventCallback, PortTypes
  <2> QED
    BY <1>0, <2>1, <2>2, <2>3, <2>4
    DEF EventCallback, PoolTypes, PortTypes, StatusTypes, status, pools, sizes
<1>3. CASE InCallback(c)
  <2>1. <<c, "in">> \in Connections \X Ports
    BY DEF Ports
  <2>2. in' \in [Connections -> InPort]
    BY <1>0, <1>3, OutTypes DEF InCallback
  <2>3. poolQueue' \in [Connections -> Nat]
    BY <1>0, <1>3 DEF InCallback, PoolTypes
  <2> QED
    BY <1>0, <1>3, <2>1, <2>2, <2>3
    DEF InCallback, PoolTypes, PortTypes, StatusTypes, status, pools, sizes
<1>4. CASE InEventCallback(c)
  <2>1. in' \in [Connections -> InPort]
    BY <1>0, <1>4, OutTypes DEF InEventCallback
  <2>2. eventPool' \in [Connections -> Nat]
    BY <1>0, <1>4 DEF InEventCallback, PortTypes
  <2> QED
    BY <1>0, <1>4, <2>1, <2>2
    DEF InEventCallback, PoolTypes, PortTypes, StatusTypes, status, pools, sizes
<1>5. CASE \E port \in Ports : Post(c, port)
  BY <1>0, <1>5, PostedType
  DEF Post, PoolTypes, PortTypes, StatusTypes, connections, status, pools, sizes, ports
<1> QED
  BY <1>1, <1>2, <1>3, <1>4, <1>5 DEF PortStep

\* What the worker's loops do with its own variables
LEMMA WorkerOwn ==
  ASSUME Types, WorkerStep
  PROVE  WorkerTypes'
<1>0. WorkerTypes /\ PortTypes /\ Current \in Connections
  BY CurrentIs DEF Types
<1>1. worker' \in WorkerLabels /\ run_again' \in BOOLEAN
  BY <1>0
  DEF WorkerStep, Wake, FillTake, FillLeave, Send, SendFails, DrainTake, DrainLeave, DrainTimeout,
      ProcessData, ForwardEvent, ReconfigureEvent, Reconfigured, FillNext, DrainNext, Processed,
      WorkerTypes, WorkerLabels
<1>2. refused' \subseteq Connections /\ skipped' \subseteq Connections /\ clashed' \subseteq Connections
  BY <1>0
  DEF WorkerStep, Wake, FillTake, FillLeave, Send, SendFails, DrainTake, DrainLeave, DrainTimeout,
      ProcessData, ForwardEvent, ReconfigureEvent, Reconfigured, FillNext, DrainNext, Processed,
      WorkerTypes, history
<1>3. visited' \in 0..(ConnectionNum - 1)
  <2>1. visited' \in {visited, 0} \/ (~AtLast /\ visited' = visited + 1)
    BY DEF WorkerStep, Wake, FillTake, FillLeave, Send, SendFails, DrainTake, DrainLeave,
           DrainTimeout, ProcessData, ForwardEvent, ReconfigureEvent, Reconfigured, FillNext,
           DrainNext, Processed, loop
  <2>2. visited \in 0..(ConnectionNum - 1)
    BY <1>0 DEF WorkerTypes
  <2> QED
    BY <2>1, <2>2, Indices DEF AtLast
<1>4. connection_current' \in Connections
  <2>1. connection_current' \in {connection_current, (connection_current + 1) % ConnectionNum}
    BY DEF WorkerStep, Wake, FillTake, FillLeave, Send, SendFails, DrainTake, DrainLeave,
           DrainTimeout, ProcessData, ForwardEvent, ReconfigureEvent, Reconfigured, FillNext,
           DrainNext, Processed, loop
  <2>2. connection_current + 1 \in Int /\ connection_current \in Connections
    BY <1>0, Indices DEF WorkerTypes
  <2>3. (connection_current + 1) % ConnectionNum \in 0..(ConnectionNum - 1)
    BY <2>2, Indices
  <2> QED
    BY <2>1, <2>2, <2>3, Indices
<1>5. hand' \in 0..Nothing
  <2>1. \/ hand' \in {hand, Data, Nothing}
        \/ queue[Current] # <<>> /\ hand' = Head(queue[Current])
    BY DEF WorkerStep, Wake, FillTake, FillLeave, Send, SendFails, DrainTake, DrainLeave,
           DrainTimeout, ProcessData, ForwardEvent, ReconfigureEvent, Reconfigured, FillNext,
           DrainNext, Processed
  <2>2. queue[Current] # <<>> => Head(queue[Current]) \in 0..MaxBuffers
    BY <1>0, TakeTypes
  <2>3. 0..MaxBuffers \subseteq 0..Nothing /\ Data \in 0..MaxBuffers /\ Nothing \in 0..Nothing
    BY Indices DEF Nothing, Data
  <2> QED
    BY <1>0, <2>1, <2>2, <2>3 DEF WorkerTypes
<1> QED
  BY <1>1, <1>2, <1>3, <1>4, <1>5 DEF WorkerTypes

LEMMA WorkerPools ==
  ASSUME Types, WorkerStep
  PROVE  PoolTypes' /\ PortTypes'
<1>0. PoolTypes /\ PortTypes /\ Current \in Connections
  BY CurrentIs DEF Types
<1>1. CASE Wake
  <2>1. sema' \in 0..MaxSema
    <3>1. sema \in 0..MaxSema /\ sema > 0 /\ (sema' = sema - 1 \/ sema' = sema)
      BY <1>0, <1>1 DEF Wake, PortTypes
    <3> QED
      BY <3>1, Indices
  <2> QED
    BY <1>0, <1>1, <2>1 DEF Wake, PoolTypes, PortTypes, connections, pools, sizes, ports
<1>2. CASE FillTake
  <2>1. poolQueue' \in [Connections -> Nat]
    <3>1. poolQueue[Current] \in Nat /\ poolQueue[Current] > 0
      BY <1>0, <1>2 DEF FillTake, PoolTypes
    <3>2. poolQueue[Current] - 1 \in Nat
      BY <3>1
    <3> QED
      BY <1>0, <1>2, <3>2 DEF FillTake, PoolTypes
  <2> QED
    BY <1>0, <1>2, <2>1 DEF FillTake, PoolTypes, PortTypes, sizes, ports
<1>3. CASE FillLeave \/ DrainLeave \/ DrainTimeout \/ ReconfigureEvent
  <2>1. UNCHANGED <<connections, calling, sema>>
    BY <1>3 DEF FillLeave, DrainLeave, DrainTimeout, DrainNext, ReconfigureEvent, connectionVars
  <2> QED
    BY <1>0, <2>1 DEF PoolTypes, PortTypes, connections, pools, sizes, ports
<1>4. CASE Send
  <2>1. out' \in [Connections -> OutPort]
    BY <1>0, <1>4, OutTypes DEF Send
  <2> QED
    BY <1>0, <1>4, <2>1 DEF Send, PoolTypes, PortTypes, pools, sizes
<1>5. CASE SendFails
  <2>1. poolQueue' \in [Connections -> Nat]
    <3>1. poolQueue[Current] + 1 \in Nat
      BY <1>0 DEF PoolTypes
    <3> QED
      BY <1>0, <1>5, <3>1 DEF SendFails, PoolTypes
  <2> QED
    BY <1>0, <1>5, <2>1 DEF SendFails, PoolTypes, PortTypes, sizes, ports
<1>6. CASE DrainTake
  <2>1. queue' \in [Connections -> Seq(0..MaxBuffers)]
    BY <1>0, <1>6, TakeTypes DEF DrainTake
  <2> QED
    BY <1>0, <1>6, <2>1 DEF DrainTake, PoolTypes, PortTypes, pools, sizes, ports
<1>7. CASE ProcessData \/ ForwardEvent \/ Reconfigured
  <2>1. UNCHANGED <<sizes, queue, out, calling>>
    BY <1>7 DEF ProcessData, ForwardEvent, Reconfigured
  <2>2. \/ UNCHANGED <<poolQueue, eventPool, sema, in>>
        \/ /\ in' = [in EXCEPT ![Current].has = @ + 1]
              \/ in' = [in EXCEPT ![Current].events = @ + 1]
           /\ UNCHANGED <<poolQueue, eventPool, sema>>
        \/ \E item : Release(Current, item) /\ UNCHANGED in
    BY <1>7 DEF ProcessData, ForwardEvent, Reconfigured
  <2>3. in' \in [Connections -> InPort]
    <3>1. in \in [Connections -> InPort]
      BY <1>0 DEF PortTypes
    <3>2. /\ [in EXCEPT ![Current].has = @ + 1] \in [Connections -> InPort]
          /\ [in EXCEPT ![Current].events = @ + 1] \in [Connections -> InPort]
      BY <1>0, OutTypes
    <3> QED
      BY <2>2, <3>1, <3>2
  <2>4. /\ poolQueue' \in [Connections -> Nat] /\ eventPool' \in [Connections -> Nat]
        /\ sema' \in 0..MaxSema
    <3>1. poolQueue \in [Connections -> Nat] /\ eventPool \in [Connections -> Nat]
          /\ sema \in 0..MaxSema
      BY <1>0 DEF PoolTypes, PortTypes
    <3> QED
      BY <1>0, <2>2, <3>1, ReleaseTypes
  <2> QED
    BY <1>0, <2>1, <2>3, <2>4 DEF PoolTypes, PortTypes, sizes
<1> QED
  BY <1>1, <1>2, <1>3, <1>4, <1>5, <1>6, <1>7 DEF WorkerStep

LEMMA WorkerStatus ==
  ASSUME Types, HandRoles, WorkerStep
  PROVE  StatusTypes'
<1>0. StatusTypes /\ WorkerTypes /\ Current \in Connections /\ Worker \in Threads
  BY CurrentIs, Indices DEF Types
<1>1. UNCHANGED status
  BY DEF WorkerStep, Wake, FillTake, FillLeave, Send, SendFails, DrainTake, DrainLeave,
         DrainTimeout, ProcessData, ForwardEvent, ReconfigureEvent, Reconfigured, DrainNext,
         connections, connectionVars
<1>2. op' = op \/ (worker = "process" /\ Start(Worker, "disable", Current, hand))
  BY DEF WorkerStep, Wake, FillTake, FillLeave, Send, SendFails, DrainTake, DrainLeave,
         DrainTimeout, ProcessData, ForwardEvent, ReconfigureEvent, Reconfigured, DrainNext,
         connections, connectionVars
<1>3. worker = "process" => hand \in 0..MaxBuffers
  BY DEF HandRoles
<1>4. "disable" \in OpLabels
  BY DEF OpLabels
<1>5. op' \in [Threads -> Operating]
  BY <1>0, <1>2, <1>3, <1>4, OpSteps DEF StatusTypes
<1> QED
  BY <1>0, <1>1, <1>5 DEF StatusTypes, status

-----------------------------------------------------------------------------
(* The application's steps                                                  *)

AppActs ==
  \/ GraphEnable \/ GraphDisable \/ GraphDestroy \/ AppStep \/ \E c \in Connections : Drop(c)

LEMMA AppActTypes ==
  ASSUME Types, AppRoles, AppActs
  PROVE  Types'
<1>0. PoolTypes /\ PortTypes /\ StatusTypes /\ WorkerTypes /\ AppTypes /\ App \in Threads
  BY Indices DEF Types
<1>1. PoolTypes' /\ PortTypes'
  <2>1. UNCHANGED <<connections, calling>> /\ (sema' = sema \/ sema' = Posted)
    BY DEF AppActs, GraphEnable, GraphDisable, GraphDestroy, AppStep, Drop, EnableNext,
           EnableCheck, EnableDone, StopWorker, JoinWorker, DisableNext, DisableCheck,
           DestroyNext, DestroyConnection, connectionVars
  <2> QED
    BY <1>0, <2>1, PostedType DEF PoolTypes, PortTypes, connections, pools, sizes, ports
<1>2. StatusTypes'
  <2>1. UNCHANGED status
    BY DEF AppActs, GraphEnable, GraphDisable, GraphDestroy, AppStep, Drop, EnableNext,
           EnableCheck, EnableDone, StopWorker, JoinWorker, DisableNext, DisableCheck,
           DestroyNext, DestroyConnection, connectionVars, connections
  <2>2. op' = op \/ \E label \in {"enable", "disable"}, c \in Connections : Start(App, label, c, 0)
    <3>1. app \in {"enabling", "disabling", "destroying"} /\ next < ConnectionNum
            => next \in Connections
      BY <1>0, Indices DEF AppTypes
    <3> QED
      BY <3>1
      DEF AppActs, GraphEnable, GraphDisable, GraphDestroy, AppStep, Drop, EnableNext,
          EnableCheck, EnableDone, StopWorker, JoinWorker, DisableNext, DisableCheck,
          DestroyNext, DestroyConnection, connectionVars, Call, ReleaseConnection
  <2>3. "enable" \in OpLabels /\ "disable" \in OpLabels /\ 0 \in 0..MaxBuffers
    BY Indices DEF OpLabels
  <2>4. op' \in [Threads -> Operating]
    BY <1>0, <2>2, <2>3, OpSteps DEF StatusTypes
  <2> QED
    BY <1>0, <2>1, <2>4 DEF StatusTypes, status
<1>3. WorkerTypes'
  <2>1. UNCHANGED <<loop, run_again, hand, history>> /\ (worker' = worker \/ worker' = "wait")
    BY DEF AppActs, GraphEnable, GraphDisable, GraphDestroy, AppStep, Drop, EnableNext,
           EnableCheck, EnableDone, StopWorker, JoinWorker, DisableNext, DisableCheck,
           DestroyNext, DestroyConnection, workerVars
  <2> QED
    BY <1>0, <2>1 DEF WorkerTypes, WorkerLabels, loop, history
<1>4. AppTypes'
  <2>0. next \in 0..ConnectionNum /\ enables \in 0..MaxEnables /\ ConnectionNum \in Nat
        /\ MaxEnables \in Nat
    BY <1>0, Indices DEF AppTypes
  <2>1. app' \in AppLabels /\ stop_thread' \in BOOLEAN /\ held' \subseteq Held
    BY <1>0
    DEF AppActs, GraphEnable, GraphDisable, GraphDestroy, AppStep, Drop, EnableNext,
        EnableCheck, EnableDone, StopWorker, JoinWorker, DisableNext, DisableCheck,
        DestroyNext, DestroyConnection, Call, ReleaseConnection, AppGoto, AppTypes, AppLabels, refs
  <2>2. next' \in {next, 0} \/ (next < ConnectionNum /\ next' = next + 1)
    BY DEF AppRoles, AppActs, GraphEnable, GraphDisable, GraphDestroy, AppStep, Drop, EnableNext,
           EnableCheck, EnableDone, StopWorker, JoinWorker, DisableNext, DisableCheck,
           DestroyNext, DestroyConnection, Call
  <2>3. next' \in 0..ConnectionNum
    BY <2>0, <2>2
  <2>4. enables' = enables \/ (enables < MaxEnables /\ enables' = enables + 1)
    BY DEF AppActs, GraphEnable, GraphDisable, GraphDestroy, AppStep, Drop, EnableNext,
           EnableCheck, EnableDone, StopWorker, JoinWorker, DisableNext, DisableCheck,
           DestroyNext, DestroyConnection
  <2>5. enables' \in 0..MaxEnables
    BY <2>0, <2>4
  <2>6. freed' \subseteq Connections
    <3>1. freed' = freed \/ freed' = freed \cup {op[App].cx}
      BY DEF AppActs, GraphEnable, GraphDisable, GraphDestroy, AppStep, Drop, EnableNext,
             EnableCheck, EnableDone, StopWorker, JoinWorker, DisableNext, DisableCheck,
             DestroyNext, DestroyConnection, refs
    <3>2. op[App].cx \in Connections
      BY <1>0 DEF StatusTypes, Operating
    <3> QED
      BY <1>0, <3>1, <3>2 DEF AppTypes
  <2>7. refcount' \in [Connections -> Int]
    <3>1. refcount' = refcount \/ \E c \in Connections : refcount' = [refcount EXCEPT ![c] = @ - 1]
      <4>1. app = "destroying" /\ next < ConnectionNum => next \in Connections
        BY <1>0, Indices DEF AppTypes
      <4> QED
        BY <4>1
        DEF AppActs, GraphEnable, GraphDisable, GraphDestroy, AppStep, Drop, EnableNext,
            EnableCheck, EnableDone, StopWorker, JoinWorker, DisableNext, DisableCheck,
            DestroyNext, DestroyConnection, ReleaseConnection, refs
    <3> QED
      BY <1>0, <3>1 DEF AppTypes
  <2> QED
    BY <2>1, <2>3, <2>5, <2>6, <2>7 DEF AppTypes
<1> QED
  BY <1>1, <1>2, <1>3, <1>4 DEF Types

LEMMA StepCases ==
  ASSUME Next
  PROVE  \/ AppActs
         \/ WorkerStep /\ UNCHANGED <<appVars, stop_thread>>
         \/ \E t \in Threads : Operation(t) /\ Elsewhere
         \/ \E c \in Connections : PortStep(c) /\ Elsewhere
         \/ \E c \in Connections : (\E n \in Formats[c] : EventCallback(c, n)) /\ Elsewhere
         \/ UNCHANGED vars
BY DEF Next, AppActs, Event

LEMMA StepTypes ==
  ASSUME Control, [Next]_vars
  PROVE  Types'
<1>0. Types /\ Roles /\ HandRoles /\ AppRoles /\ OpRoles
  BY DEF Control, Roles
<1>1. ASSUME Elsewhere PROVE AppTypes' /\ WorkerTypes'
  BY <1>0, <1>1
  DEF Elsewhere, Types, AppTypes, WorkerTypes, appVars, workerVars, refs, loop, history
<1>2. CASE WorkerStep /\ UNCHANGED <<appVars, stop_thread>>
  <2>1. AppTypes'
    BY <1>0, <1>2 DEF Types, AppTypes, appVars, refs
  <2> QED
    BY <1>0, <1>2, <2>1, WorkerOwn, WorkerPools, WorkerStatus DEF Types
<1>3. CASE \E t \in Threads : Operation(t) /\ Elsewhere
  BY <1>0, <1>1, <1>3, OperationStatus, OperationPorts, OperationPools DEF Types
<1>4. CASE \E c \in Connections : PortStep(c) /\ Elsewhere
  BY <1>0, <1>1, <1>4, PortStepTypes DEF Types
<1>5. CASE \E c \in Connections : (\E n \in Formats[c] : EventCallback(c, n)) /\ Elsewhere
  BY <1>0, <1>1, <1>5, PortStepTypes DEF Types
<1>6. CASE AppActs
  BY <1>0, <1>6, AppActTypes
<1>7. CASE UNCHANGED vars
  BY <1>0, <1>7
  DEF Types, PoolTypes, PortTypes, StatusTypes, AppTypes, WorkerTypes, vars, connectionVars,
      connections, status, pools, sizes, ports, appVars, workerVars, refs, loop, history
<1> QED
  BY <1>2, <1>3, <1>4, <1>5, <1>6, <1>7, StepCases

-----------------------------------------------------------------------------
(* The roles                                                                *)

LEMMA InitRoles ==
  ASSUME Init
  PROVE  Roles
<1>1. \A t \in Threads : op[t].pc = "none"
  BY DEF Init, ConnectionInit
<1>2. OpRoles
  BY <1>1, Indices DEF OpRoles, Free
<1> QED
  BY <1>2 DEF Init, Roles, HandRoles, AppRoles

\* What an operation does with its thread: it goes on, in its own half, or ends.
LEMMA OperationGoes ==
  ASSUME StatusTypes, NEW t \in Threads, Operation(t)
  PROVE  /\ op'[t].cx = op[t].cx /\ \A u \in Threads \ {t} : op'[u] = op[u]
         /\ op[t].pc # "none"
         /\ op[t].pc \in EnableStages => op'[t].pc \in EnableStages \cup {"none"}
         /\ op[t].pc \in DisableStages =>
              op'[t].pc \in DisableStages \cup {"none"} \/ (op'[t].pc = "commit" /\ op[t].event # 0)
         /\ op[t].pc = "commit" => op'[t].pc \in {"enable", "none"}
         /\ op[t].pc \in EnableStages \cup DisableStages \cup {"commit"}
         /\ op'[t].event \in {0, op[t].event}
         /\ op'[t].pc = "commit" => op'[t].event = op[t].event
<1>0. op[t] \in Operating
  BY OpSteps
<1>1. \A u \in Threads \ {t} : op'[u] = op[u]
  <2>1. \/ \E label : OpGoto(t, label)
        \/ \E ok : Return(t, ok)
        \/ Commit(t)
        \/ op' = op
    BY DEF Operation, Enable, Resize, ResizeFails, EnableOut, EnableIn, UndoOut, UndoWait,
           Disable, DisableIn, WaitIn, DisableOut, WaitOut, Flush, Disabled, AfterDisable
  <2> QED
    BY <2>1, OthersStay
<1>2. CASE Enable(t) \/ Resize(t) \/ ResizeFails(t) \/ EnableOut(t) \/ EnableIn(t)
           \/ UndoOut(t) \/ UndoWait(t)
  <2>1. \/ \E label \in EnableStages : OpGoto(t, label)
        \/ \E ok \in BOOLEAN : Return(t, ok)
    BY <1>2 DEF Enable, Resize, ResizeFails, EnableOut, EnableIn, UndoOut, UndoWait, EnableStages
  <2>2. op[t].pc \in EnableStages
    BY <1>2
    DEF Enable, Resize, ResizeFails, EnableOut, EnableIn, UndoOut, UndoWait, EnableStages, In
  <2>3. EnableStages \subseteq OpLabels
    BY DEF EnableStages, OpLabels
  <2>4. op'[t].cx = op[t].cx /\ op'[t].pc \in EnableStages \cup {"none"}
        /\ op'[t].event \in {0, op[t].event}
    BY <2>1, <2>3, OpSteps
  <2> QED
    BY <1>1, <2>2, <2>4 DEF EnableStages, DisableStages
<1>3. CASE Disable(t) \/ DisableIn(t) \/ WaitIn(t) \/ DisableOut(t) \/ WaitOut(t)
           \/ Flush(t) \/ Disabled(t)
  <2>1. \/ \E label \in DisableStages : OpGoto(t, label)
        \/ \E ok \in BOOLEAN : Return(t, ok)
        \/ op[t].event # 0 /\ OpGoto(t, "commit")
        \/ op' = op
    BY <1>3
    DEF Disable, DisableIn, WaitIn, DisableOut, WaitOut, Flush, Disabled, AfterDisable,
        DisableStages
  <2>2. op[t].pc \in DisableStages
    BY <1>3 DEF Disable, DisableIn, WaitIn, DisableOut, WaitOut, Flush, Disabled, In, DisableStages
  <2>3. DisableStages \subseteq OpLabels /\ "commit" \in OpLabels
    BY DEF DisableStages, OpLabels
  <2>4. /\ op'[t].cx = op[t].cx /\ op'[t].event \in {0, op[t].event}
        /\ \/ op'[t].pc \in DisableStages \cup {"none"}
           \/ op'[t].pc = "commit" /\ op[t].event # 0 /\ op'[t].event = op[t].event
    BY <2>1, <2>2, <2>3, OpSteps
  <2> QED
    BY <1>1, <2>2, <2>4 DEF EnableStages, DisableStages
<1>4. CASE Commit(t)
  <2>1. op[t].pc = "commit"
    BY <1>4 DEF Commit, In
  <2>2. CASE op' = [op EXCEPT ![t].pc = "enable", ![t].event = 0]
    BY <1>0, <1>1, <2>1, <2>2 DEF StatusTypes, Operating, EnableStages, DisableStages
  <2>3. CASE Return(t, FALSE)
    BY <1>1, <2>1, <2>3, OpSteps DEF EnableStages, DisableStages
  <2> QED
    BY <1>4, <2>2, <2>3 DEF Commit
<1> QED
  BY <1>2, <1>3, <1>4 DEF Operation

LEMMA StepRoles ==
  ASSUME Control, [Next]_vars
  PROVE  Roles'
<1>0. Types /\ StatusTypes /\ OpRoles /\ HandRoles /\ AppRoles /\ App # Worker
      /\ App \in Threads /\ Worker \in Threads /\ Threads = {App, Worker}
  BY Indices DEF Control, Roles, Types
<1>1. CASE AppActs
  <2>1. UNCHANGED <<loop, hand>> /\ (worker' = worker \/ (app = "idle" /\ worker' = "wait"))
    BY <1>1
    DEF AppActs, GraphEnable, GraphDisable, GraphDestroy, AppStep, Drop, EnableNext, EnableCheck,
        EnableDone, StopWorker, JoinWorker, DisableNext, DisableCheck, DestroyNext,
        DestroyConnection, workerVars, AppGoto
  <2>2. HandRoles'
    BY <1>0, <2>1 DEF HandRoles, AppRoles
  <2>3. AppRoles'
    BY <1>0, <1>1
    DEF AppRoles, AppActs, GraphEnable, GraphDisable, GraphDestroy, AppStep, Drop, EnableNext,
        EnableCheck, EnableDone, StopWorker, JoinWorker, DisableNext, DisableCheck, DestroyNext,
        DestroyConnection, workerVars, AppGoto, Call, ReleaseConnection
  <2>4. CASE op' = op
    <3>1. Free(App) \/ app' = app
      BY <1>0, <1>1, <2>4
      DEF OpRoles, AppActs, GraphEnable, GraphDisable, GraphDestroy, AppStep, Drop, EnableNext,
          EnableCheck, EnableDone, StopWorker, JoinWorker, DisableNext, DisableCheck, DestroyNext,
          DestroyConnection, AppGoto, Call, ReleaseConnection, Free
    <3>2. Free(Worker) \/ worker' = worker
      BY <1>0, <2>1 DEF OpRoles, AppRoles
    <3> QED
      BY <1>0, <2>1, <2>2, <2>3, <2>4, <3>1, <3>2 DEF OpRoles, Roles, Free, Current, loop
  <2>5. CASE op' # op
    <3>1. PICK label \in {"enable", "disable"}, c \in Connections :
            /\ Start(App, label, c, 0) /\ worker' = worker
            /\ label = "enable" => app' = "enabled"
            /\ label = "disable" => app' \in {"disabled", "destroyed", "dropped"}
      <4>1. next < ConnectionNum => next \in Connections
        BY <1>0, Indices DEF Types, AppTypes
      <4>2. CASE EnableNext \/ DisableNext
        BY <4>1, <4>2 DEF EnableNext, DisableNext, Call, workerVars
      <4>3. CASE DestroyNext
        BY <2>5, <4>1, <4>3 DEF DestroyNext, ReleaseConnection, workerVars
      <4>4. CASE \E c \in Connections : Drop(c)
        BY <2>5, <4>4 DEF Drop, ReleaseConnection, workerVars
      <4> QED
        BY <1>1, <2>5, <4>2, <4>3, <4>4
        DEF AppActs, GraphEnable, GraphDisable, GraphDestroy, AppStep, EnableCheck, EnableDone,
            StopWorker, JoinWorker, DisableCheck, DestroyConnection, connectionVars
    <3>2. /\ op'[App].pc = label /\ op'[App].event = 0 /\ op'[Worker] = op[Worker]
      <4>1. label \in OpLabels /\ 0 \in 0..MaxBuffers
        BY <3>1, Indices DEF OpLabels
      <4>2. op'[App].pc = label /\ op'[App].event = 0
        <5>1. Start(App, label, c, 0)
          BY <3>1
        <5>2. op \in [Threads -> Operating]
          BY <1>0 DEF Types, StatusTypes
        <5>3. op' = [op EXCEPT ![App] = [pc |-> label, cx |-> c, event |-> 0, ok |-> TRUE]]
          BY <5>1 DEF Start
        <5>4. op'[App] = [pc |-> label, cx |-> c, event |-> 0, ok |-> TRUE]
          BY <1>0, <5>2, <5>3
        <5> QED
          BY <5>4
      <4>3. op'[Worker] = op[Worker]
        BY <1>0, <3>1, OthersStay
      <4> QED
        BY <4>2, <4>3
    <3>3. Current' = Current
      BY <2>1 DEF Current, loop
    <3>4. OpRoles'
      BY <1>0, <3>1, <3>2, <3>3 DEF OpRoles, Free, EnableStages, DisableStages
    <3> QED
      BY <2>2, <2>3, <3>4 DEF Roles
  <2> QED
    BY <2>4, <2>5
<1>2. CASE WorkerStep /\ UNCHANGED <<appVars, stop_thread>>
  <2>1. app' = app /\ next' = next /\ worker # "exited"
    BY <1>2
    DEF appVars, WorkerStep, Wake, FillTake, FillLeave, Send, SendFails, DrainTake, DrainLeave,
        DrainTimeout, ProcessData, ForwardEvent, ReconfigureEvent, Reconfigured, DrainNext
  <2>2. AppRoles'
    BY <1>0, <2>1 DEF AppRoles
  <2>3. Current \in Connections /\ Nothing \notin 0..MaxBuffers
    BY <1>0, CurrentIs DEF Types
  <2>4. HandRoles'
    <3>1. CASE DrainTake
      <4>1. Head(queue[Current]) \in 0..MaxBuffers
        BY <1>0, <2>3, <3>1, TakeTypes DEF DrainTake, Types
      <4> QED
        BY <3>1, <4>1 DEF DrainTake, HandRoles
    <3>2. CASE ReconfigureEvent
      <4>1. hand \in 0..MaxBuffers /\ hand # Data /\ hand' = hand /\ worker' = "reconfigure"
        BY <1>0, <3>2 DEF ReconfigureEvent, HandRoles
      <4>2. hand \in 1..MaxBuffers
        BY <4>1, Indices DEF Data
      <4> QED
        BY <4>1, <4>2 DEF HandRoles
    <3>3. CASE ~DrainTake /\ ~ReconfigureEvent
      BY <1>0, <1>2, <3>3
      DEF HandRoles, WorkerStep, Wake, FillTake, FillLeave, Send, SendFails, DrainLeave,
          DrainTimeout, ProcessData, ForwardEvent, Reconfigured, DrainNext, FillNext, Processed
    <3> QED
      BY <3>1, <3>2, <3>3
  <2>5. OpRoles'
    <3>1. CASE ReconfigureEvent
      <4>1. /\ Start(Worker, "disable", Current, hand) /\ worker' = "reconfigure"
            /\ Current' = Current /\ hand \in 0..MaxBuffers
        BY <1>0, <3>1 DEF ReconfigureEvent, HandRoles, Current, loop
      <4>2. op'[Worker].pc = "disable" /\ op'[Worker].cx = Current /\ op'[App] = op[App]
        <5>1. "disable" \in OpLabels
          BY DEF OpLabels
        <5> QED
          BY <1>0, <2>3, <4>1, <5>1, OpSteps, OthersStay
      <4> QED
        BY <1>0, <2>1, <4>1, <4>2 DEF OpRoles, Free
    <3>2. CASE ~ReconfigureEvent
      <4>1. op' = op
        BY <1>2, <3>2
        DEF WorkerStep, Wake, FillTake, FillLeave, Send, SendFails, DrainTake, DrainLeave,
            DrainTimeout, ProcessData, ForwardEvent, Reconfigured, DrainNext, connectionVars
      <4>2. Free(Worker)
        BY <1>0, <1>2, <3>2
        DEF WorkerStep, Wake, FillTake, FillLeave, Send, SendFails, DrainTake, DrainLeave,
            DrainTimeout, ProcessData, ForwardEvent, Reconfigured, DrainNext, OpRoles
      <4> QED
        BY <1>0, <2>1, <4>1, <4>2 DEF OpRoles, Free
    <3> QED
      BY <3>1, <3>2
  <2> QED
    BY <2>2, <2>4, <2>5 DEF Roles
<1>3. CASE \E t \in Threads : Operation(t) /\ Elsewhere
  <2>1. PICK t \in Threads : Operation(t) /\ Elsewhere
    BY <1>3
  <2>2. HandRoles' /\ AppRoles' /\ Current' = Current /\ app' = app /\ worker' = worker
    BY <1>0, <2>1 DEF Elsewhere, appVars, workerVars, loop, HandRoles, AppRoles, Current
  <2>3. OpRoles'
    <3>1. \A u \in Threads : Free(u) => Free(u)'
      BY <1>0, <2>1, OperationGoes DEF Free
    <3>2. /\ op'[App].pc # "none" =>
               /\ op[App].pc \in EnableStages => op'[App].pc \in EnableStages
               /\ op[App].pc \in DisableStages => op'[App].pc \in DisableStages
          /\ ~Free(App) => op'[App].event = 0
          /\ op'[Worker].cx = op[Worker].cx
      <4>1. op'[Worker].cx = op[Worker].cx
        BY <1>0, <2>1, OperationGoes
      <4>2. CASE t = App
        <5>1. op[App].event = 0
          BY <1>0, <2>1, <4>2, OperationGoes DEF OpRoles, Free
        <5> QED
          BY <1>0, <2>1, <4>1, <4>2, <5>1, OperationGoes
      <4>3. CASE t # App
        <5>1. op'[App] = op[App]
          BY <1>0, <2>1, <4>3, OperationGoes
        <5> QED
          BY <1>0, <4>1, <5>1 DEF OpRoles
      <4> QED
        BY <4>2, <4>3
    <3>3. \A u \in Threads : op'[u].pc = "commit" => op'[u].event # 0
      BY <1>0, <2>1, OperationGoes DEF OpRoles, EnableStages, DisableStages
    <3> QED
      BY <1>0, <2>2, <3>1, <3>2, <3>3 DEF OpRoles, Free
  <2> QED
    BY <2>2, <2>3 DEF Roles
<1>4. CASE \E c \in Connections : (PortStep(c) \/ \E n \in Formats[c] : EventCallback(c, n))
                                  /\ Elsewhere
  <2>1. op' = op
    BY <1>4 DEF PortStep, OutCallback, InCallback, InEventCallback, Post, EventCallback
  <2> QED
    BY <1>0, <1>4, <2>1
    DEF Elsewhere, appVars, workerVars, loop, Roles, OpRoles, HandRoles, AppRoles, Current, Free
<1>5. CASE UNCHANGED vars
  BY <1>0, <1>5
  DEF vars, connectionVars, appVars, workerVars, loop, Roles, OpRoles, HandRoles, AppRoles,
      Current, Free
<1> QED
  BY <1>1, <1>2, <1>3, <1>4, <1>5, StepCases

LEMMA ControlInvariant == Spec => []Control
<1>1. Init => Control
  BY InitTypes, InitRoles DEF Control
<1>2. Control /\ [Next]_vars => Control'
  BY StepTypes, StepRoles DEF Control
<1> QED
  BY <1>1, <1>2, PTL DEF Spec

-----------------------------------------------------------------------------
(* The events of a connection: each is in the event pool, in the queue, in  *)
(* the worker's hand or in the input port.                                  *)

Asking == 1..MaxBuffers \* what an event says

Queued(B, c) == Cardinality(PlacesOf(queue[c], B))

EventAtHand(c) == worker \in {"process", "reconfigure"} /\ hand # Data /\ Current = c

EventHand(c) == IF EventAtHand(c) THEN 1 ELSE 0

EventsExact ==
  \A c \in Connections :
    eventPool[c] + Queued(Asking, c) + in[c].events + EventHand(c) = EventNum

LEMMA QueueAppends ==
  ASSUME PortTypes, NEW c \in Connections, NEW n \in 0..MaxBuffers,
         queue' = [queue EXCEPT ![c] = Append(@, n)], NEW d \in Connections, NEW B
  PROVE  /\ Queued(B, d) \in Nat
         /\ d = c /\ n \in B => Queued(B, d)' = Queued(B, d) + 1
         /\ ~(d = c /\ n \in B) => Queued(B, d)' = Queued(B, d)
<1>1. queue[d] \in Seq(0..MaxBuffers)
  BY DEF PortTypes
<1>2. Queued(B, d) \in Nat
  BY <1>1, CountType DEF Queued
<1>3. CASE d = c
  <2>1. queue'[d] = Append(queue[d], n)
    BY <1>3 DEF PortTypes
  <2>2. Queued(B, d)' = Queued(B, d) + One(n \in B)
    <3>1. Cardinality(PlacesOf(Append(queue[d], n), B))
            = Cardinality(PlacesOf(queue[d], B)) + One(n \in B)
      BY <1>1, CountAppend
    <3> QED
      BY <2>1, <3>1 DEF Queued
  <2> QED
    BY <1>2, <1>3, <2>2 DEF One
<1>4. CASE d # c
  <2>1. queue'[d] = queue[d]
    BY <1>4 DEF PortTypes
  <2> QED
    BY <1>2, <1>4, <2>1 DEF Queued
<1> QED
  BY <1>3, <1>4

LEMMA QueueTakes ==
  ASSUME PortTypes, NEW c \in Connections, queue[c] # <<>>,
         queue' = [queue EXCEPT ![c] = Tail(@)], NEW d \in Connections, NEW B
  PROVE  /\ Queued(B, d) \in Nat /\ Queued(B, d)' \in Nat
         /\ d = c /\ Head(queue[c]) \in B => Queued(B, d)' = Queued(B, d) - 1
         /\ ~(d = c /\ Head(queue[c]) \in B) => Queued(B, d)' = Queued(B, d)
<1>1. queue[d] \in Seq(0..MaxBuffers)
  BY DEF PortTypes
<1>2. Queued(B, d) \in Nat
  BY <1>1, CountType DEF Queued
<1>3. CASE d = c
  <2>1. queue'[d] = Tail(queue[d])
    BY <1>3 DEF PortTypes
  <2>2. Queued(B, d)' = Queued(B, d) - One(Head(queue[d]) \in B)
    BY <1>1, <1>3, <2>1, CountTail DEF Queued
  <2>3. Queued(B, d)' \in Nat
    <3>1. queue[d] # <<>>
      BY <1>3
    <3>2. Tail(queue[d]) \in Seq(0..MaxBuffers)
      BY <1>1, <3>1, TailElements
    <3> QED
      BY <2>1, <3>2, CountType DEF Queued
  <2> QED
    BY <1>2, <1>3, <2>2, <2>3 DEF One
<1>4. CASE d # c
  <2>1. queue'[d] = queue[d]
    BY <1>4 DEF PortTypes
  <2> QED
    BY <1>2, <1>4, <2>1 DEF Queued
<1> QED
  BY <1>3, <1>4

LEMMA QueueSame ==
  ASSUME PortTypes, queue' = queue, NEW d \in Connections, NEW B
  PROVE  Queued(B, d) \in Nat /\ Queued(B, d)' = Queued(B, d)
<1>1. queue[d] \in Seq(0..MaxBuffers)
  BY DEF PortTypes
<1> QED
  BY <1>1, CountType DEF Queued

\* An item of a queue or in the hand is a header of the pool or an event.
LEMMA DataOrEvent ==
  \A item \in 0..MaxBuffers : (item # Data <=> item \in Asking) /\ (item = Data <=> item \in {Data})
BY Indices DEF Data, Asking

\* What the changes of a port do to each connection's numbers
LEMMA InNumbers ==
  ASSUME PortTypes, NEW c \in Connections, NEW d \in Connections
  PROVE  /\ in[d].has \in Nat /\ in[d].events \in Nat /\ in[d].on \in BOOLEAN
         /\ \A b \in BOOLEAN : in' = [in EXCEPT ![c].on = b] =>
              /\ in'[d].events = in[d].events /\ in'[d].has = in[d].has
              /\ d = c => in'[d].on = b
              /\ d # c => in'[d] = in[d]
         /\ in' = [in EXCEPT ![c].has = @ + 1] =>
              /\ in'[d].events = in[d].events /\ in'[d].on = in[d].on
              /\ in'[d].has = IF d = c THEN in[d].has + 1 ELSE in[d].has
         /\ in' = [in EXCEPT ![c].has = @ - 1] =>
              /\ in'[d].events = in[d].events /\ in'[d].on = in[d].on
              /\ in'[d].has = IF d = c THEN in[d].has - 1 ELSE in[d].has
         /\ in' = [in EXCEPT ![c].events = @ + 1] =>
              /\ in'[d].has = in[d].has /\ in'[d].on = in[d].on
              /\ in'[d].events = IF d = c THEN in[d].events + 1 ELSE in[d].events
         /\ in' = [in EXCEPT ![c].events = @ - 1] =>
              /\ in'[d].has = in[d].has /\ in'[d].on = in[d].on
              /\ in'[d].events = IF d = c THEN in[d].events - 1 ELSE in[d].events
<1>1. in[d] \in InPort /\ in[c] \in InPort
  BY DEF PortTypes
<1>2. ASSUME NEW b \in BOOLEAN, in' = [in EXCEPT ![c].on = b]
      PROVE  /\ in'[d].events = in[d].events /\ in'[d].has = in[d].has
             /\ d = c => in'[d].on = b
             /\ d # c => in'[d] = in[d]
  BY <1>1, <1>2 DEF PortTypes, InPort
<1>3. ASSUME NEW k, in' = [in EXCEPT ![c].has = k]
      PROVE  /\ in'[d].events = in[d].events /\ in'[d].on = in[d].on
             /\ in'[d].has = IF d = c THEN k ELSE in[d].has
  BY <1>1, <1>3 DEF PortTypes, InPort
<1>4. ASSUME NEW k, in' = [in EXCEPT ![c].events = k]
      PROVE  /\ in'[d].has = in[d].has /\ in'[d].on = in[d].on
             /\ in'[d].events = IF d = c THEN k ELSE in[d].events
  BY <1>1, <1>4 DEF PortTypes, InPort
<1>5. in[d].has \in Nat /\ in[d].events \in Nat /\ in[d].on \in BOOLEAN
  BY <1>1 DEF InPort
<1> QED
  BY <1>2, <1>3, <1>4, <1>5

LEMMA OutNumbers ==
  ASSUME PortTypes, NEW c \in Connections, NEW d \in Connections
  PROVE  /\ out[d].has \in Nat /\ out[d].on \in BOOLEAN /\ out[d].cb \in BOOLEAN
         /\ \A b \in BOOLEAN :
              /\ out' = [out EXCEPT ![c].on = b] =>
                   /\ out'[d].has = out[d].has /\ out'[d].cb = out[d].cb
                   /\ d = c => out'[d].on = b
                   /\ d # c => out'[d] = out[d]
              /\ out' = [out EXCEPT ![c].cb = b] =>
                   /\ out'[d].has = out[d].has /\ out'[d].on = out[d].on
                   /\ d = c => out'[d].cb = b
                   /\ d # c => out'[d] = out[d]
         /\ out' = [out EXCEPT ![c].on = TRUE, ![c].cb = TRUE] =>
              /\ out'[d].has = out[d].has
              /\ d = c => out'[d].on = TRUE
              /\ d # c => out'[d] = out[d]
         /\ out' = [out EXCEPT ![c].has = @ + 1] =>
              /\ out'[d].cb = out[d].cb /\ out'[d].on = out[d].on
              /\ out'[d].has = IF d = c THEN out[d].has + 1 ELSE out[d].has
         /\ out' = [out EXCEPT ![c].has = @ - 1] =>
              /\ out'[d].cb = out[d].cb /\ out'[d].on = out[d].on
              /\ out'[d].has = IF d = c THEN out[d].has - 1 ELSE out[d].has
<1>1. out[d] \in OutPort /\ out[c] \in OutPort
  BY DEF PortTypes
<1>2. ASSUME NEW b \in BOOLEAN, out' = [out EXCEPT ![c].on = b]
      PROVE  /\ out'[d].has = out[d].has /\ out'[d].cb = out[d].cb
             /\ d = c => out'[d].on = b
             /\ d # c => out'[d] = out[d]
  BY <1>1, <1>2 DEF PortTypes, OutPort
<1>3. ASSUME NEW b \in BOOLEAN, out' = [out EXCEPT ![c].cb = b]
      PROVE  /\ out'[d].has = out[d].has /\ out'[d].on = out[d].on
             /\ d = c => out'[d].cb = b
             /\ d # c => out'[d] = out[d]
  BY <1>1, <1>3 DEF PortTypes, OutPort
<1>4. ASSUME out' = [out EXCEPT ![c].on = TRUE, ![c].cb = TRUE]
      PROVE  /\ out'[d].has = out[d].has
             /\ d = c => out'[d].on = TRUE
             /\ d # c => out'[d] = out[d]
  BY <1>1, <1>4 DEF PortTypes, OutPort
<1>5. ASSUME NEW k, out' = [out EXCEPT ![c].has = k]
      PROVE  /\ out'[d].cb = out[d].cb /\ out'[d].on = out[d].on
             /\ out'[d].has = IF d = c THEN k ELSE out[d].has
  BY <1>1, <1>5 DEF PortTypes, OutPort
<1>6. out[d].has \in Nat /\ out[d].on \in BOOLEAN /\ out[d].cb \in BOOLEAN
  BY <1>1 DEF OutPort
<1> QED
  BY <1>2, <1>3, <1>4, <1>5, <1>6

LEMMA ReleaseNumbers ==
  ASSUME PoolTypes, PortTypes, NEW c \in Connections, NEW d \in Connections, NEW item,
         Release(c, item)
  PROVE  /\ poolQueue[d] \in Nat /\ eventPool[d] \in Nat
         /\ item = Data => /\ eventPool'[d] = eventPool[d] /\ sema' = Posted
                           /\ d = c => poolQueue'[d] = poolQueue[d] + 1
                           /\ d # c => poolQueue'[d] = poolQueue[d]
         /\ item # Data => /\ poolQueue' = poolQueue /\ sema' = sema
                           /\ d = c => eventPool'[d] = eventPool[d] + 1
                           /\ d # c => eventPool'[d] = eventPool[d]
BY DEF PoolTypes, PortTypes, Release

\* An action that leaves these alone leaves the events where they are.
LEMMA EventsStay ==
  ASSUME Types, NEW d \in Connections, queue' = queue, eventPool'[d] = eventPool[d],
         in'[d].events = in[d].events, EventHand(d)' = EventHand(d)
  PROVE  eventPool'[d] + Queued(Asking, d)' + in'[d].events + EventHand(d)'
           = eventPool[d] + Queued(Asking, d) + in[d].events + EventHand(d)
BY QueueSame DEF Types

LEMMA EventNumbers ==
  ASSUME Types, NEW d \in Connections
  PROVE  /\ eventPool[d] \in Nat /\ in[d].events \in Nat /\ EventHand(d) \in 0..1
         /\ Queued(Asking, d) \in Nat
<1>1. queue[d] \in Seq(0..MaxBuffers) /\ eventPool[d] \in Nat
  BY DEF Types, PortTypes
<1>2. Queued(Asking, d) \in Nat
  BY <1>1, CountType DEF Queued
<1> QED
  BY <1>1, <1>2, InNumbers DEF EventHand, Types

LEMMA OperationEvents ==
  ASSUME Control, EventsExact, NEW t \in Threads, Operation(t), Elsewhere
  PROVE  EventsExact'
<1> DEFINE c == op[t].cx
<1>0. Types /\ PoolTypes /\ PortTypes /\ c \in Connections
  BY OpSteps DEF Control, Types, Operating
<1>1. \A d \in Connections : EventHand(d)' = EventHand(d)
  BY DEF Elsewhere, workerVars, loop, EventHand, EventAtHand, Current
<1>2. CASE Flush(t) /\ queue[c] # <<>>
  <2>1. /\ queue' = [queue EXCEPT ![c] = Tail(@)] /\ in' = in
        /\ Release(c, Head(queue[c])) /\ Head(queue[c]) \in 0..MaxBuffers
    BY <1>0, <1>2, TakeTypes DEF Flush
  <2> SUFFICES ASSUME NEW d \in Connections
               PROVE  (eventPool[d] + Queued(Asking, d) + in[d].events + EventHand(d) = EventNum)'
      BY DEF EventsExact
  <2>2. eventPool[d] + Queued(Asking, d) + in[d].events + EventHand(d) = EventNum
    BY DEF EventsExact
  <2>3. CASE d = c /\ Head(queue[c]) # Data
    <3>1. Queued(Asking, d)' = Queued(Asking, d) - 1
      BY <1>0, <1>2, <2>1, <2>3, QueueTakes, DataOrEvent
    <3>2. eventPool'[d] = eventPool[d] + 1
      BY <1>0, <2>1, <2>3, ReleaseNumbers
    <3> QED
      BY <1>0, <1>1, <2>1, <2>2, <3>1, <3>2, EventNumbers
  <2>4. CASE ~(d = c /\ Head(queue[c]) # Data)
    <3>1. Queued(Asking, d)' = Queued(Asking, d)
      BY <1>0, <1>2, <2>1, <2>4, QueueTakes, DataOrEvent
    <3>2. eventPool'[d] = eventPool[d]
      BY <1>0, <2>1, <2>4, ReleaseNumbers
    <3> QED
      BY <1>0, <1>1, <2>1, <2>2, <3>1, <3>2, EventNumbers
  <2> QED
    BY <2>3, <2>4
<1>3. CASE ~(Flush(t) /\ queue[c] # <<>>)
  <2>1. UNCHANGED <<queue, eventPool>>
    BY <1>3
    DEF Operation, Enable, Resize, ResizeFails, EnableOut, EnableIn, UndoOut, UndoWait, Disable,
        DisableIn, WaitIn, DisableOut, WaitOut, Flush, Disabled, Commit, connections, ports
  <2>2. in' = in \/ \E b \in BOOLEAN : in' = [in EXCEPT ![c].on = b]
    BY DEF Operation, Enable, Resize, ResizeFails, EnableOut, EnableIn, UndoOut, UndoWait,
           Disable, DisableIn, WaitIn, DisableOut, WaitOut, Flush, Disabled, Commit,
           connections, ports
  <2>3. \A d \in Connections : in'[d].events = in[d].events
    <3>1. CASE \E b \in BOOLEAN : in' = [in EXCEPT ![c].on = b]
      <4>1. PICK b \in BOOLEAN : in' = [in EXCEPT ![c].on = b]
        BY <3>1
      <4> QED
        BY <1>0, <4>1, InNumbers
    <3> QED
      BY <2>2, <3>1
  <2> QED
    BY <1>0, <1>1, <2>1, <2>3, EventsStay DEF EventsExact
<1> QED
  BY <1>2, <1>3

LEMMA PortStepEvents ==
  ASSUME Control, EventsExact, NEW c \in Connections,
         PortStep(c) \/ \E n \in Formats[c] : EventCallback(c, n), Elsewhere
  PROVE  EventsExact'
<1>0. Types /\ PoolTypes /\ PortTypes
  BY DEF Control, Types
<1>1. \A d \in Connections : EventHand(d)' = EventHand(d)
  BY DEF Elsewhere, workerVars, loop, EventHand, EventAtHand, Current
<1>2. CASE OutCallback(c)
  <2>1. /\ queue' = [queue EXCEPT ![c] = Append(@, Data)] /\ Data \in 0..MaxBuffers
        /\ Data \notin Asking /\ UNCHANGED <<in, eventPool>>
    BY <1>2, Indices, DataOrEvent DEF OutCallback, Data
  <2>2. \A d \in Connections : Queued(Asking, d)' = Queued(Asking, d)
    BY <1>0, <2>1, QueueAppends
  <2> QED
    BY <1>1, <2>1, <2>2 DEF EventsExact
<1>3. CASE \E n \in Formats[c] : EventCallback(c, n)
  <2>1. PICK n \in Formats[c] : EventCallback(c, n)
    BY <1>3
  <2>2. n \in Asking /\ n \in 0..MaxBuffers
    BY Indices DEF Asking
  <2>3. /\ queue' = [queue EXCEPT ![c] = Append(@, n)] /\ in' = in
        /\ eventPool' = [eventPool EXCEPT ![c] = @ - 1]
    BY <2>1 DEF EventCallback
  <2> SUFFICES ASSUME NEW d \in Connections
               PROVE  (eventPool[d] + Queued(Asking, d) + in[d].events + EventHand(d) = EventNum)'
      BY DEF EventsExact
  <2>4. eventPool[d] + Queued(Asking, d) + in[d].events + EventHand(d) = EventNum
    BY DEF EventsExact
  <2>5. CASE d = c
    <3>1. Queued(Asking, d)' = Queued(Asking, d) + 1
      BY <1>0, <2>2, <2>3, <2>5, QueueAppends
    <3>2. eventPool'[d] = eventPool[d] - 1
      BY <1>0, <2>3, <2>5 DEF PortTypes
    <3> QED
      BY <1>0, <1>1, <2>3, <2>4, <3>1, <3>2, EventNumbers
  <2>6. CASE d # c
    <3>1. Queued(Asking, d)' = Queued(Asking, d)
      BY <1>0, <2>2, <2>3, <2>6, QueueAppends
    <3>2. eventPool'[d] = eventPool[d]
      BY <1>0, <2>3, <2>6 DEF PortTypes
    <3> QED
      BY <1>1, <2>3, <2>4, <3>1, <3>2
  <2> QED
    BY <2>5, <2>6
<1>4. CASE InCallback(c)
  <2>1. UNCHANGED <<queue, eventPool>> /\ in' = [in EXCEPT ![c].has = @ - 1]
    BY <1>4 DEF InCallback
  <2>2. \A d \in Connections : in'[d].events = in[d].events
    BY <1>0, <2>1, InNumbers
  <2> QED
    BY <1>0, <1>1, <2>1, <2>2, EventsStay DEF EventsExact
<1>5. CASE InEventCallback(c)
  <2>1. /\ queue' = queue /\ in' = [in EXCEPT ![c].events = @ - 1]
        /\ eventPool' = [eventPool EXCEPT ![c] = @ + 1]
    BY <1>5 DEF InEventCallback
  <2> SUFFICES ASSUME NEW d \in Connections
               PROVE  (eventPool[d] + Queued(Asking, d) + in[d].events + EventHand(d) = EventNum)'
      BY DEF EventsExact
  <2>2. eventPool[d] + Queued(Asking, d) + in[d].events + EventHand(d) = EventNum
    BY DEF EventsExact
  <2>3. Queued(Asking, d)' = Queued(Asking, d)
    BY <1>0, <2>1, QueueSame
  <2>4. CASE d = c
    <3>1. eventPool'[d] = eventPool[d] + 1
      BY <1>0, <2>1, <2>4 DEF PortTypes
    <3>2. in'[d].events = in[d].events - 1
      <4>1. in'[d].events = IF d = c THEN in[d].events - 1 ELSE in[d].events
        BY <1>0, <2>1, InNumbers
      <4> QED
        BY <2>4, <4>1
    <3> QED
      BY <1>0, <1>1, <2>2, <2>3, <3>1, <3>2, EventNumbers
  <2>5. CASE d # c
    <3>1. eventPool'[d] = eventPool[d]
      BY <1>0, <2>1, <2>5 DEF PortTypes
    <3>2. in'[d].events = in[d].events
      BY <1>0, <2>1, <2>5, InNumbers
    <3> QED
      BY <1>1, <2>2, <2>3, <3>1, <3>2
  <2> QED
    BY <2>4, <2>5
<1>6. CASE \E port \in Ports : Post(c, port)
  <2>1. UNCHANGED <<queue, eventPool, in>>
    BY <1>6 DEF Post, connections, ports
  <2> QED
    BY <1>0, <1>1, <2>1, EventsStay DEF EventsExact
<1> QED
  BY <1>2, <1>3, <1>4, <1>5, <1>6 DEF PortStep

LEMMA WorkerEvents ==
  ASSUME Control, EventsExact, WorkerStep
  PROVE  EventsExact'
<1>0. Types /\ PoolTypes /\ PortTypes /\ Current \in Connections /\ HandRoles
      /\ Nothing \notin 0..MaxBuffers /\ Data \in 0..MaxBuffers
  BY CurrentIs DEF Control, Types, Roles
<1>1. CASE \/ Wake \/ FillTake \/ FillLeave \/ Send \/ SendFails \/ DrainLeave \/ DrainTimeout
           \/ (ProcessData /\ in[Current].on /\ in' = [in EXCEPT ![Current].has = @ + 1])
           \/ (ProcessData /\ Release(Current, Data) /\ in' = in)
  <2>1. queue' = queue
    BY <1>1
    DEF Wake, FillTake, FillLeave, Send, SendFails, DrainLeave, DrainTimeout, DrainNext,
        ProcessData, connectionVars, connections
  <2>2. \A d \in Connections : eventPool'[d] = eventPool[d] /\ in'[d].events = in[d].events
    <3>1. CASE ProcessData /\ in' = [in EXCEPT ![Current].has = @ + 1]
      <4>1. eventPool' = eventPool
        <5>1. in[Current].has + 1 # in[Current].has
          BY <1>0, InNumbers
        <5>2. in' # in
          BY <1>0, <3>1, <5>1 DEF PortTypes, InPort
        <5> QED
          BY <3>1, <5>2 DEF ProcessData
      <4> QED
        BY <1>0, <3>1, <4>1, InNumbers
    <3>2. CASE ProcessData /\ Release(Current, Data) /\ in' = in
      BY <1>0, <3>2, ReleaseNumbers
    <3>3. CASE Wake \/ FillTake \/ FillLeave \/ Send \/ SendFails \/ DrainLeave \/ DrainTimeout
      BY <3>3
      DEF Wake, FillTake, FillLeave, Send, SendFails, DrainLeave, DrainTimeout, DrainNext,
          connectionVars, connections, ports
    <3>4. ProcessData /\ in[Current].on /\ in' = [in EXCEPT ![Current].has = @ + 1]
            => ProcessData /\ in' = [in EXCEPT ![Current].has = @ + 1]
      OBVIOUS
    <3> QED
      BY <1>1, <3>1, <3>2, <3>3, <3>4
  <2>3. \A d \in Connections : ~EventAtHand(d) /\ ~EventAtHand(d)'
    BY <1>1
    DEF EventAtHand, Wake, FillTake, FillLeave, Send, SendFails, DrainLeave, DrainTimeout,
        DrainNext, ProcessData, FillNext, Processed
  <2> QED
    BY <1>0, <2>1, <2>2, <2>3, EventsStay DEF EventsExact, EventHand
<1>2. CASE DrainTake
  <2>1. /\ queue' = [queue EXCEPT ![Current] = Tail(@)] /\ queue[Current] # <<>>
        /\ UNCHANGED <<in, eventPool>> /\ hand' = Head(queue[Current])
        /\ worker' = "process" /\ Current' = Current /\ worker = "drain"
        /\ Head(queue[Current]) \in 0..MaxBuffers
    BY <1>0, <1>2, TakeTypes DEF DrainTake, ports, loop, Current
  <2> SUFFICES ASSUME NEW d \in Connections
               PROVE  (eventPool[d] + Queued(Asking, d) + in[d].events + EventHand(d) = EventNum)'
      BY DEF EventsExact
  <2>2. eventPool[d] + Queued(Asking, d) + in[d].events + EventHand(d) = EventNum
        /\ EventHand(d) = 0
    BY <2>1 DEF EventsExact, EventHand, EventAtHand
  <2>3. CASE d = Current /\ Head(queue[Current]) # Data
    <3>1. Queued(Asking, d)' = Queued(Asking, d) - 1
      BY <1>0, <2>1, <2>3, QueueTakes, DataOrEvent
    <3>2. EventHand(d)' = 1 /\ eventPool'[d] = eventPool[d] /\ in'[d] = in[d]
      BY <2>1, <2>3 DEF EventHand, EventAtHand
    <3>3. /\ eventPool[d] \in Nat /\ in[d].events \in Nat /\ EventHand(d) \in 0..1
          /\ Queued(Asking, d) \in Nat
      BY <1>0, EventNumbers
    <3> QED
      BY <2>2, <3>1, <3>2, <3>3
  <2>4. CASE ~(d = Current /\ Head(queue[Current]) # Data)
    <3>1. Queued(Asking, d)' = Queued(Asking, d)
      BY <1>0, <2>1, <2>4, QueueTakes, DataOrEvent
    <3>2. EventHand(d)' = 0
      BY <2>1, <2>4 DEF EventHand, EventAtHand
    <3> QED
      BY <2>1, <2>2, <3>1, <3>2
  <2> QED
    BY <2>3, <2>4
<1>3. CASE ReconfigureEvent
  <2>1. UNCHANGED <<queue, eventPool, in, hand>> /\ Current' = Current
        /\ worker = "process" /\ worker' = "reconfigure"
    BY <1>3 DEF ReconfigureEvent, connections, ports, loop, Current
  <2>2. \A d \in Connections : EventHand(d)' = EventHand(d)
    BY <2>1 DEF EventHand, EventAtHand
  <2> QED
    BY <1>0, <2>1, <2>2, EventsStay DEF EventsExact
<1>4. CASE ForwardEvent \/ Reconfigured
  <2>1. /\ UNCHANGED queue /\ worker \in {"process", "reconfigure"} /\ worker' = "drain"
        /\ \/ in' = [in EXCEPT ![Current].events = @ + 1] /\ eventPool' = eventPool
           \/ Release(Current, hand) /\ in' = in
    BY <1>4 DEF ForwardEvent, Reconfigured, Processed
  <2>2. hand # Data
    <3>1. CASE ForwardEvent
      BY <3>1 DEF ForwardEvent
    <3>2. CASE Reconfigured
      BY <1>0, <3>2, Indices DEF HandRoles, Reconfigured, Data
    <3> QED
      BY <1>4, <3>1, <3>2
  <2> SUFFICES ASSUME NEW d \in Connections
               PROVE  (eventPool[d] + Queued(Asking, d) + in[d].events + EventHand(d) = EventNum)'
      BY DEF EventsExact
  <2>3. eventPool[d] + Queued(Asking, d) + in[d].events + EventHand(d) = EventNum
    BY DEF EventsExact
  <2>4. Queued(Asking, d)' = Queued(Asking, d) /\ EventHand(d)' = 0
    BY <1>0, <2>1, QueueSame DEF EventHand, EventAtHand
  <2>5. CASE d = Current
    <3>1. EventHand(d) = 1
      BY <2>1, <2>2, <2>5 DEF EventHand, EventAtHand
    <3>2. CASE in' = [in EXCEPT ![Current].events = @ + 1] /\ eventPool' = eventPool
      <4>1. in'[d].events = in[d].events + 1
        <5>1. in' = [in EXCEPT ![Current].events = @ + 1] =>
                /\ in'[d].has = in[d].has /\ in'[d].on = in[d].on
                /\ in'[d].events = IF d = Current THEN in[d].events + 1 ELSE in[d].events
          BY <1>0, InNumbers
        <5> QED
          BY <2>5, <3>2, <5>1
      <4>2. eventPool[d] \in Nat /\ in[d].events \in Nat /\ Queued(Asking, d) \in Nat
        BY <1>0, EventNumbers
      <4> QED
        BY <2>3, <2>4, <3>1, <3>2, <4>1, <4>2
    <3>3. CASE Release(Current, hand) /\ in' = in
      <4>1. eventPool'[d] = eventPool[d] + 1
        BY <1>0, <2>2, <2>5, <3>3, ReleaseNumbers
      <4> QED
        BY <1>0, <2>3, <2>4, <3>1, <3>3, <4>1, EventNumbers
    <3> QED
      BY <2>1, <3>2, <3>3
  <2>6. CASE d # Current
    <3>1. EventHand(d) = 0
      BY <2>6 DEF EventHand, EventAtHand
    <3>2. in'[d].events = in[d].events /\ eventPool'[d] = eventPool[d]
      BY <1>0, <2>1, <2>2, <2>6, InNumbers, ReleaseNumbers
    <3> QED
      BY <2>3, <2>4, <3>1, <3>2
  <2> QED
    BY <2>5, <2>6
<1>5. ProcessData => \/ in[Current].on /\ in' = [in EXCEPT ![Current].has = @ + 1]
                     \/ Release(Current, Data) /\ in' = in
  BY DEF ProcessData
<1> QED
  BY <1>1, <1>2, <1>3, <1>4, <1>5 DEF WorkerStep

LEMMA StepEvents ==
  ASSUME Control, EventsExact, [Next]_vars
  PROVE  EventsExact'
<1>0. Types
  BY DEF Control
<1>1. CASE AppActs
  <2>1. UNCHANGED <<connections, loop, hand>> /\ (worker' = worker \/ worker' = "wait")
        /\ (worker' = worker \/ worker = "exited")
    BY <1>1
    DEF Control, Roles, AppRoles, AppActs, GraphEnable, GraphDisable, GraphDestroy, AppStep, Drop,
        EnableNext, EnableCheck, EnableDone, StopWorker, JoinWorker, DisableNext, DisableCheck,
        DestroyNext, DestroyConnection, workerVars, connectionVars, AppGoto
  <2>2. \A d \in Connections : EventHand(d)' = EventHand(d)
    BY <2>1 DEF EventHand, EventAtHand, Current, loop
  <2> QED
    BY <1>0, <2>1, <2>2, EventsStay DEF EventsExact, connections, ports
<1>2. CASE UNCHANGED vars
  <2>1. UNCHANGED <<queue, eventPool, in, worker, hand, loop>>
    BY <1>2 DEF vars, connectionVars, connections, ports, workerVars
  <2>2. \A d \in Connections : EventHand(d)' = EventHand(d)
    BY <2>1 DEF EventHand, EventAtHand, Current, loop
  <2> QED
    BY <1>0, <2>1, <2>2, EventsStay DEF EventsExact
<1> QED
  BY <1>1, <1>2, StepCases, OperationEvents, PortStepEvents, WorkerEvents

LEMMA InitEvents ==
  ASSUME Init
  PROVE  EventsExact
<1> SUFFICES ASSUME NEW d \in Connections
             PROVE  eventPool[d] + Queued(Asking, d) + in[d].events + EventHand(d) = EventNum
    BY DEF EventsExact
<1>1. eventPool[d] = EventNum /\ queue[d] = <<>> /\ in[d].events = 0 /\ worker = "exited"
  BY DEF Init, ConnectionInit
<1>2. Queued(Asking, d) = 0
  <2>1. <<>> \in Seq(0..MaxBuffers)
    OBVIOUS
  <2> QED
    BY <1>1, <2>1, CountType DEF Queued
<1>3. EventHand(d) = 0
  BY <1>1 DEF EventHand, EventAtHand
<1> QED
  BY <1>1, <1>2, <1>3, Indices

-----------------------------------------------------------------------------
(* The references of a connection: the graph's and the application's        *)

GraphHas(c) ==
  ~(app \in {"destroying", "destroyed"} /\ c < next) /\ app \notin {"gone", "dropped"}

Refs(c) == (IF GraphHas(c) THEN 1 ELSE 0) + (IF c \in held THEN 1 ELSE 0)

RefsExact == \A c \in Connections : refcount[c] = Refs(c)

LEMMA StepRefs ==
  ASSUME Control, RefsExact, [Next]_vars
  PROVE  RefsExact'
<1>0. AppTypes /\ AppRoles /\ ConnectionNum \in Nat /\ Connections = 0..(ConnectionNum - 1)
  BY Indices DEF Control, Types, Roles
<1>1. CASE UNCHANGED <<refcount, held, app, next>>
  BY <1>1 DEF RefsExact, Refs, GraphHas
<1>2. CASE DestroyNext
  <2>1. CASE next < ConnectionNum
    <3>1. next \in Connections
      BY <1>0, <2>1 DEF AppTypes
    <3>2. /\ refcount' = [refcount EXCEPT ![next] = @ - 1] /\ held' = held /\ next' = next + 1
          /\ app = "destroying" /\ app' \in {"destroying", "destroyed"}
      BY <1>2, <2>1 DEF DestroyNext, ReleaseConnection
    <3> SUFFICES ASSUME NEW c \in Connections
                 PROVE  refcount'[c] = Refs(c)'
        BY DEF RefsExact
    <3>3. refcount[c] = Refs(c) /\ refcount[c] \in Int /\ c \in Int /\ next \in Int
      BY <1>0 DEF RefsExact, AppTypes
    <3>4. CASE c = next
      <4>1. refcount'[c] = refcount[c] - 1
        BY <1>0, <3>2, <3>4 DEF AppTypes
      <4>2. GraphHas(c) /\ ~GraphHas(c)'
        BY <3>2, <3>3, <3>4 DEF GraphHas
      <4> QED
        BY <3>2, <3>3, <4>1, <4>2 DEF Refs
    <3>5. CASE c # next
      <4>1. refcount'[c] = refcount[c]
        BY <1>0, <3>2, <3>5 DEF AppTypes
      <4>2. GraphHas(c)' <=> GraphHas(c)
        BY <3>2, <3>3, <3>5 DEF GraphHas
      <4> QED
        BY <3>2, <3>3, <4>1, <4>2 DEF Refs
    <3> QED
      BY <3>4, <3>5
  <2>2. CASE ~(next < ConnectionNum)
    <3>1. UNCHANGED <<refcount, held, next>> /\ app = "destroying" /\ app' = "gone"
      BY <1>2, <2>2 DEF DestroyNext
    <3>2. \A c \in Connections : c < next
      BY <1>0, <2>2 DEF AppTypes
    <3>3. \A c \in Connections : ~GraphHas(c) /\ ~GraphHas(c)'
      BY <3>1, <3>2 DEF GraphHas
    <3> QED
      BY <3>1, <3>3 DEF RefsExact, Refs
  <2> QED
    BY <2>1, <2>2
<1>3. ASSUME NEW d \in Connections, Drop(d) PROVE RefsExact'
  <2>1. /\ refcount' = [refcount EXCEPT ![d] = @ - 1] /\ held' = held \ {d} /\ d \in held
        /\ app = "gone" /\ app' \in {"gone", "dropped"}
    BY <1>3 DEF Drop, ReleaseConnection
  <2>2. \A c \in Connections : ~GraphHas(c) /\ ~GraphHas(c)' /\ refcount[c] \in Int
    BY <1>0, <2>1 DEF GraphHas, AppTypes
  <2>3. \A c \in Connections : refcount'[c] = IF c = d THEN refcount[c] - 1 ELSE refcount[c]
    BY <1>0, <2>1 DEF AppTypes
  <2> QED
    BY <2>1, <2>2, <2>3 DEF RefsExact, Refs
<1>4. CASE /\ UNCHANGED <<refcount, held>>
           /\ \A c \in Connections : GraphHas(c) /\ GraphHas(c)'
  BY <1>4 DEF RefsExact, Refs
<1>5. CASE GraphEnable \/ GraphDisable \/ EnableNext \/ EnableCheck \/ EnableDone
           \/ StopWorker \/ JoinWorker \/ DisableNext \/ DisableCheck
  <2>1. /\ UNCHANGED refs
        /\ app \notin {"destroying", "destroyed", "gone", "dropped"}
        /\ app' \notin {"destroying", "destroyed", "gone", "dropped"}
    BY <1>5
    DEF GraphEnable, GraphDisable, EnableNext, EnableCheck, EnableDone, StopWorker, JoinWorker,
        DisableNext, DisableCheck, AppGoto, Call
  <2> QED
    BY <1>4, <2>1 DEF refs, GraphHas
<1>6. CASE GraphDestroy
  <2>1. UNCHANGED refs /\ app = "idle" /\ app' = "destroying" /\ next' = 0
    BY <1>6 DEF GraphDestroy, AppGoto
  <2>2. \A c \in Connections : ~(c < 0)
    BY <1>0
  <2> QED
    BY <1>4, <2>1, <2>2 DEF refs, GraphHas
<1>7. CASE DestroyConnection
  <2>1. /\ UNCHANGED <<refcount, held, next>>
        /\ \/ app = "destroyed" /\ app' = "destroying"
           \/ app = "dropped" /\ app' = "gone"
    BY <1>7 DEF DestroyConnection, AppGoto
  <2> QED
    BY <2>1 DEF RefsExact, Refs, GraphHas
<1> QED
  BY <1>1, <1>2, <1>3, <1>5, <1>6, <1>7, StepCases
  DEF AppActs, AppStep, Elsewhere, appVars, refs, vars

LEMMA InitRefs ==
  ASSUME Init
  PROVE  RefsExact
BY DEF Init, RefsExact, Refs, GraphHas

-----------------------------------------------------------------------------
(* TypeOK                                                                   *)

CountsExact == Control /\ EventsExact /\ RefsExact

LEMMA CountsInvariant == Spec => []CountsExact
<1>1. Init => CountsExact
  BY InitTypes, InitRoles, InitEvents, InitRefs DEF Control, CountsExact
<1>2. CountsExact /\ [Next]_vars => CountsExact'
  BY StepTypes, StepRoles, StepEvents, StepRefs DEF Control, CountsExact
<1> QED
  BY <1>1, <1>2, PTL DEF Spec

\* Every variable keeps its type, whatever fails and whenever formats change: the output port
\* never lends more events than its event pool has, and a connection never has more
\* references than the graph's and the application's.
THEOREM GraphTypeCorrect == Spec => []TypeOK
<1>1. ASSUME CountsExact PROVE TypeOK
  <2>0. Types /\ EventsExact /\ RefsExact /\ EventNum \in Nat
    BY <1>1, Indices DEF CountsExact, Control
  <2>1. \A c \in Connections : eventPool[c] \in 0..EventNum /\ in[c].events \in 0..EventNum
    <3> SUFFICES ASSUME NEW c \in Connections
                 PROVE  eventPool[c] \in 0..EventNum /\ in[c].events \in 0..EventNum
        OBVIOUS
    <3>1. eventPool[c] + Queued(Asking, c) + in[c].events + EventHand(c) = EventNum
      BY <2>0 DEF EventsExact
    <3>2. /\ eventPool[c] \in Nat /\ in[c].events \in Nat /\ EventHand(c) \in Nat
          /\ Queued(Asking, c) \in Nat
      BY <2>0, EventNumbers
    <3> QED
      BY <2>0, <3>1, <3>2
  <2>2. eventPool \in [Connections -> 0..EventNum]
    BY <2>0, <2>1 DEF Types, PortTypes
  <2>3. in \in [Connections -> [on : BOOLEAN, has : Nat, events : 0..EventNum]]
    <3>1. \A c \in Connections : in[c] \in [on : BOOLEAN, has : Nat, events : 0..EventNum]
      BY <2>0, <2>1 DEF Types, PortTypes, InPort
    <3> QED
      BY <2>0, <3>1 DEF Types, PortTypes
  <2>4. refcount \in [Connections -> 0..2]
    <3>1. \A c \in Connections : Refs(c) \in 0..2
      BY DEF Refs
    <3> QED
      BY <2>0, <3>1 DEF RefsExact, Types, AppTypes
  <2>5. ConnectionTypeOK
    BY <2>0, <2>2, <2>3
    DEF Types, PoolTypes, PortTypes, StatusTypes, ConnectionTypeOK, OutPort, Operating
  <2> QED
    BY <2>0, <2>4, <2>5 DEF Types, AppTypes, WorkerTypes, TypeOK
<1> QED
  BY <1>1, CountsInvariant, PTL

-----------------------------------------------------------------------------
(* The worker's two loops.  A loop that has been to a connection leaves it  *)
(* without work, unless the semaphore is up, a callback is about to post    *)
(* it, or there will be another pass.                                       *)

Pending == sema > 0 \/ calling # {}

Nth(v) == (connection_current + v) % ConnectionNum
Behind == {Nth(v) : v \in 0..(visited - 1)} \* where the loop has been

Filled  == {c \in Connections : poolQueue[c] = 0 \/ c \in refused}
Emptied == {c \in Connections : queue[c] = <<>> \/ c \in skipped}

Waiting == worker = "wait" => Pending \/ Connections \subseteq Filled \cap Emptied

Filling == worker \in {"fill", "send"} => Pending \/ Behind \subseteq Filled

Draining ==
  worker \in {"drain", "process", "reconfigure"} =>
    /\ Pending \/ run_again \/ Connections \subseteq Filled
    /\ Pending \/ Behind \subseteq Emptied

WakeInv ==
  /\ worker \in {"process", "reconfigure"} => run_again
  /\ app = "running" => Waiting /\ Filling /\ Draining

\* The loops go to every connection, and to each once.
LEMMA Around ==
  ASSUME WorkerTypes
  PROVE  /\ Behind \subseteq Connections \ {Current}
         /\ AtLast => Connections = Behind \cup {Current}
<1> DEFINE N == ConnectionNum
           k == connection_current
<1>0. N \in Nat /\ N >= 1 /\ Connections = 0..(N - 1) /\ k \in 0..(N - 1)
  BY Indices DEF WorkerTypes
<1>1. \A j \in Nat : j < N => j % N = j
  BY <1>0
<1>2. \A j \in Nat : j >= N /\ j < N + N => j % N = j - N
  BY <1>0
<1>3. \A v \in 0..(N - 1) : Nth(v) = IF k + v < N THEN k + v ELSE k + v - N
  <2> SUFFICES ASSUME NEW v \in 0..(N - 1)
               PROVE  (k + v) % N = IF k + v < N THEN k + v ELSE k + v - N
      BY DEF Nth
  <2>1. k + v \in Nat /\ k + v < N + N
    BY <1>0
  <2> QED
    BY <1>0, <1>1, <1>2, <2>1
<1> HIDE DEF N, k
<1>4. \A v \in 0..(N - 1) : Nth(v) \in 0..(N - 1)
  BY <1>0, <1>3
<1>5. \A u, v \in 0..(N - 1) : Nth(u) = Nth(v) => u = v
  BY <1>0, <1>3
<1>6. ASSUME NEW c \in 0..(N - 1) PROVE \E v \in 0..(N - 1) : Nth(v) = c
  <2>1. CASE c >= k
    <3>1. c - k \in 0..(N - 1) /\ k + (c - k) = c /\ c < N
      BY <1>0, <2>1
    <3> QED
      BY <1>3, <3>1
  <2>2. CASE ~(c >= k)
    <3> DEFINE v == c - k + N
    <3>1. v \in 0..(N - 1) /\ ~(k + v < N) /\ k + v - N = c
      BY <1>0, <2>2
    <3> HIDE DEF v
    <3> QED
      BY <1>3, <3>1
  <2> QED
    BY <2>1, <2>2
<1>7. Current = Nth(visited) /\ visited \in 0..(N - 1)
  BY DEF Current, Nth, WorkerTypes, N
<1>8. \A v \in 0..(visited - 1) : v \in 0..(N - 1) /\ v # visited
  BY <1>0, <1>7
<1>9. Behind \subseteq Connections \ {Current}
  BY <1>0, <1>4, <1>5, <1>7, <1>8 DEF Behind
<1>10. ASSUME AtLast, NEW c \in Connections, c # Current PROVE c \in Behind
  <2>1. PICK v \in 0..(N - 1) : Nth(v) = c
    BY <1>0, <1>6
  <2>2. v # visited /\ visited = N - 1
    BY <1>7, <1>10, <2>1 DEF AtLast, N
  <2>3. v \in 0..(visited - 1)
    BY <1>0, <2>2
  <2> QED
    BY <2>1, <2>3 DEF Behind
<1>11. Current \in Connections
  BY CurrentIs
<1> QED
  BY <1>9, <1>10, <1>11

\* What a step of a loop does to where it has been
LEMMA BehindNext ==
  ASSUME WorkerTypes, connection_current' = connection_current
  PROVE  /\ visited' = visited => Behind' = Behind /\ Current' = Current
         /\ visited' = visited + 1 => Behind' = Behind \cup {Current}
<1>1. visited' = visited => Behind' = Behind /\ Current' = Current
  BY DEF Behind, Nth, Current
<1>2. ASSUME visited' = visited + 1 PROVE Behind' = Behind \cup {Current}
  <2>1. visited \in Nat
    BY Indices DEF WorkerTypes
  <2>2. 0..(visited' - 1) = (0..(visited - 1)) \cup {visited}
    BY <1>2, <2>1
  <2>3. Current = Nth(visited) /\ \A v : Nth(v)' = (connection_current + v') % ConnectionNum
    BY DEF Current, Nth
  <2>4. Behind' = {(connection_current + v) % ConnectionNum : v \in 0..(visited' - 1)}
    BY DEF Behind, Nth
  <2> QED
    BY <2>2, <2>3, <2>4 DEF Behind, Nth
<1> QED
  BY <1>1, <1>2

\* What the others do to the worker's work: whoever makes some has posted the semaphore, or
\* will.
LEMMA OthersPost ==
  ASSUME Control,
         \/ \E c \in Connections : PortStep(c) \/ \E n \in Formats[c] : EventCallback(c, n)
         \/ \E t \in Threads : Operation(t)
  PROVE  /\ Pending => Pending'
         /\ Pending' \/ \A c \in Connections : queue[c] = <<>> => queue'[c] = <<>>
         /\ Pending' \/ poolQueue' = poolQueue \/ \E t \in Threads : ~Free(t)
<1>0. Types /\ PoolTypes /\ PortTypes /\ Posted > 0
  BY PostedType DEF Control, Types
<1>1. CASE \E c \in Connections : PortStep(c) \/ \E n \in Formats[c] : EventCallback(c, n)
  <2>1. PICK c \in Connections : PortStep(c) \/ \E n \in Formats[c] : EventCallback(c, n)
    BY <1>1
  <2>2. CASE OutCallback(c) \/ InCallback(c) \/ \E n \in Formats[c] : EventCallback(c, n)
    <3>1. calling' # {}
      BY <2>2 DEF OutCallback, InCallback, EventCallback
    <3> QED
      BY <3>1 DEF Pending
  <2>3. CASE InEventCallback(c)
    BY <2>3 DEF InEventCallback, Pending, pools
  <2>4. CASE \E port \in Ports : Post(c, port)
    BY <1>0, <2>4 DEF Post, Pending
  <2> QED
    BY <2>1, <2>2, <2>3, <2>4 DEF PortStep
<1>2. ASSUME NEW t \in Threads, Operation(t)
      PROVE  /\ Pending => Pending'
             /\ \A c \in Connections : queue[c] = <<>> => queue'[c] = <<>>
             /\ ~Free(t)
  <2> DEFINE c == op[t].cx
  <2>1. ~Free(t) /\ c \in Connections
    BY <1>0, <1>2, OperationGoes, OpSteps DEF Free, Types, Operating
  <2>2. CASE Flush(t) /\ queue[c] # <<>>
    <3>1. /\ queue' = [queue EXCEPT ![c] = Tail(@)] /\ calling' = calling
          /\ Release(c, Head(queue[c]))
      BY <2>2 DEF Flush
    <3>2. sema' = sema \/ sema' = Posted
      BY <3>1 DEF Release
    <3>3. \A d \in Connections : queue[d] = <<>> => queue'[d] = <<>>
      BY <1>0, <2>1, <2>2, <3>1 DEF PortTypes
    <3> QED
      BY <1>0, <2>1, <3>1, <3>2, <3>3 DEF Pending
  <2>3. CASE ~(Flush(t) /\ queue[c] # <<>>)
    <3>1. UNCHANGED <<queue, calling, sema>>
      BY <1>2, <2>3
      DEF Operation, Enable, Resize, ResizeFails, EnableOut, EnableIn, UndoOut, UndoWait, Disable,
          DisableIn, WaitIn, DisableOut, WaitOut, Flush, Disabled, Commit, connections
    <3> QED
      BY <2>1, <3>1 DEF Pending
  <2> QED
    BY <2>2, <2>3
<1> QED
  BY <1>1, <1>2

LEMMA WorkerWakes ==
  ASSUME Control, WakeInv, app = "running", WorkerStep
  PROVE  Waiting' /\ Filling' /\ Draining'
<1>0. /\ Types /\ PoolTypes /\ PortTypes /\ WorkerTypes /\ Current \in Connections
      /\ Posted > 0 /\ Waiting /\ Filling /\ Draining
  BY CurrentIs, PostedType DEF Control, Types, WakeInv
<1>A. /\ Behind \subseteq Connections \ {Current}
      /\ AtLast => Connections = Behind \cup {Current}
  BY <1>0, Around
<1>B. visited' = 0 => Behind' = {}
  BY DEF Behind
<1>1. CASE Wake
  BY <1>1, <1>B DEF Wake, Waiting, Filling, Draining
<1>2. CASE FillTake
  <2>1. /\ worker = "fill" /\ worker' = "send" /\ poolQueue[Current] > 0
        /\ poolQueue' = [poolQueue EXCEPT ![Current] = @ - 1]
        /\ UNCHANGED <<calling, sema, visited, connection_current, refused>>
    BY <1>2 DEF FillTake, loop, history
  <2>2. \A c \in Connections \ {Current} : poolQueue'[c] = poolQueue[c]
    BY <1>0, <2>1 DEF PoolTypes
  <2>3. Behind \subseteq Filled => Behind \subseteq Filled'
    BY <1>A, <2>1, <2>2 DEF Filled
  <2>4. Behind' = Behind /\ Pending' = Pending
    BY <1>0, <2>1, BehindNext DEF Pending
  <2> QED
    BY <1>0, <2>1, <2>3, <2>4 DEF Waiting, Filling, Draining
<1>3. CASE FillLeave
  <2>1. /\ worker = "fill" /\ poolQueue[Current] = 0
        /\ UNCHANGED <<poolQueue, calling, sema, connection_current, refused>>
    BY <1>3 DEF FillLeave, connectionVars, connections, pools, history
  <2>2. Current \in Filled /\ Filled' = Filled /\ Pending' = Pending
    BY <1>0, <2>1 DEF Filled, Pending
  <2>3. CASE AtLast
    <3>1. worker' = "drain" /\ visited' = 0
      BY <1>3, <2>3 DEF FillLeave, FillNext
    <3> QED
      BY <1>0, <1>A, <1>B, <2>1, <2>2, <2>3, <3>1 DEF Waiting, Filling, Draining
  <2>4. CASE ~AtLast
    <3>1. worker' = "fill" /\ visited' = visited + 1
      BY <1>3, <2>4 DEF FillLeave, FillNext
    <3>2. Behind' = Behind \cup {Current}
      BY <1>0, <2>1, <3>1, BehindNext
    <3> QED
      BY <1>0, <2>1, <2>2, <3>1, <3>2 DEF Waiting, Filling, Draining
  <2> QED
    BY <2>3, <2>4
<1>4. CASE Send
  <2>1. /\ worker = "send" /\ worker' = "fill" /\ refused' = refused \ {Current}
        /\ UNCHANGED <<poolQueue, calling, sema, visited, connection_current>>
    BY <1>4 DEF Send, pools, loop
  <2>2. Behind \subseteq Filled => Behind \subseteq Filled'
    BY <1>A, <2>1 DEF Filled
  <2>3. Behind' = Behind /\ Pending' = Pending
    BY <1>0, <2>1, BehindNext DEF Pending
  <2> QED
    BY <1>0, <2>1, <2>2, <2>3 DEF Waiting, Filling, Draining
<1>5. CASE SendFails
  <2>1. /\ worker = "send" /\ refused' = refused \cup {Current}
        /\ poolQueue' = [poolQueue EXCEPT ![Current] = @ + 1]
        /\ UNCHANGED <<calling, sema, connection_current>>
    BY <1>5 DEF SendFails
  <2>2. Current \in Filled' /\ Filled \subseteq Filled' /\ Pending' = Pending
    <3>1. \A c \in Connections \ {Current} : poolQueue'[c] = poolQueue[c]
      BY <1>0, <2>1 DEF PoolTypes
    <3> QED
      BY <1>0, <2>1, <3>1 DEF Filled, Pending
  <2>3. CASE AtLast
    <3>1. worker' = "drain" /\ visited' = 0
      BY <1>5, <2>3 DEF SendFails, FillNext
    <3> QED
      BY <1>0, <1>A, <1>B, <2>1, <2>2, <2>3, <3>1 DEF Waiting, Filling, Draining
  <2>4. CASE ~AtLast
    <3>1. worker' = "fill" /\ visited' = visited + 1
      BY <1>5, <2>4 DEF SendFails, FillNext
    <3>2. Behind' = Behind \cup {Current}
      BY <1>0, <2>1, <3>1, BehindNext
    <3> QED
      BY <1>0, <2>1, <2>2, <3>1, <3>2 DEF Waiting, Filling, Draining
  <2> QED
    BY <2>3, <2>4
<1>6. CASE DrainTake
  <2>1. /\ worker = "drain" /\ worker' = "process" /\ run_again' = TRUE
        /\ queue[Current] # <<>> /\ queue' = [queue EXCEPT ![Current] = Tail(@)]
        /\ UNCHANGED <<calling, sema, visited, connection_current, skipped>>
    BY <1>6 DEF DrainTake, loop, history
  <2>2. \A c \in Connections \ {Current} : queue'[c] = queue[c]
    BY <1>0, <2>1 DEF PortTypes
  <2>3. Behind \subseteq Emptied => Behind \subseteq Emptied'
    BY <1>A, <2>1, <2>2 DEF Emptied
  <2>4. Behind' = Behind /\ Pending' = Pending
    BY <1>0, <2>1, BehindNext DEF Pending
  <2> QED
    BY <1>0, <2>1, <2>3, <2>4 DEF Waiting, Filling, Draining
<1>7. CASE DrainLeave \/ DrainTimeout
  <2>1. /\ worker = "drain" /\ DrainNext
        /\ UNCHANGED <<poolQueue, queue, calling, sema, refused>>
        /\ \/ queue[Current] = <<>> /\ skipped' = skipped \ {Current}
           \/ skipped' = skipped \cup {Current}
    BY <1>7 DEF DrainLeave, DrainTimeout, DrainNext, connectionVars, connections, pools
  <2>2. Filled' = Filled /\ Pending' = Pending
    BY <2>1 DEF Filled, Pending
  <2>3. Current \in Emptied' /\ Emptied \subseteq Emptied'
    BY <1>0, <2>1 DEF Emptied
  <2>4. CASE ~AtLast
    <3>1. worker' = "drain" /\ visited' = visited + 1 /\ run_again' = run_again
          /\ connection_current' = connection_current
      BY <1>0, <2>1, <2>4 DEF DrainNext, WorkerTypes
    <3>2. Behind' = Behind \cup {Current}
      BY <1>0, <3>1, BehindNext
    <3> QED
      BY <1>0, <2>1, <2>2, <2>3, <3>1, <3>2 DEF Waiting, Filling, Draining
  <2>5. CASE AtLast /\ run_again
    <3>1. worker' = "fill" /\ visited' = 0
      BY <2>1, <2>5 DEF DrainNext
    <3> QED
      BY <1>B, <3>1 DEF Waiting, Filling, Draining
  <2>6. CASE AtLast /\ ~run_again
    <3>1. worker' = "wait"
      BY <2>1, <2>6 DEF DrainNext
    <3>2. Pending \/ Connections \subseteq Filled
      BY <1>0, <2>1, <2>6 DEF Draining
    <3>3. Pending \/ Connections \subseteq Emptied'
      BY <1>0, <1>A, <2>1, <2>3, <2>6 DEF Draining
    <3> QED
      BY <2>2, <3>1, <3>2, <3>3 DEF Waiting, Filling, Draining
  <2> QED
    BY <2>4, <2>5, <2>6
<1>8. CASE ProcessData \/ ForwardEvent \/ ReconfigureEvent \/ Reconfigured
  <2>1. /\ worker \in {"process", "reconfigure"} /\ worker' \in {"drain", "reconfigure"}
        /\ UNCHANGED <<queue, calling, visited, connection_current, run_again, skipped>>
        /\ sema' = sema \/ sema' = Posted
    BY <1>8
    DEF ProcessData, ForwardEvent, ReconfigureEvent, Reconfigured, Processed, Release,
        connections, loop, history
  <2>2. Emptied' = Emptied /\ (Pending => Pending') /\ run_again'
    BY <1>0, <2>1 DEF Emptied, Pending, WakeInv
  <2>3. Behind' = Behind
    BY <1>0, <2>1, BehindNext
  <2> QED
    BY <1>0, <2>1, <2>2, <2>3 DEF Waiting, Filling, Draining
<1> QED
  BY <1>1, <1>2, <1>3, <1>4, <1>5, <1>6, <1>7, <1>8 DEF WorkerStep

LEMMA StepWakes ==
  ASSUME Control, WakeInv, [Next]_vars
  PROVE  WakeInv'
<1>0. Types /\ PortTypes /\ WorkerTypes /\ Roles /\ OpRoles /\ Posted > 0
  BY PostedType DEF Control, Types, Roles
<1>1. worker' \in {"process", "reconfigure"} => run_again'
  <2>1. CASE WorkerStep
    BY <2>1
    DEF WakeInv, WorkerStep, Wake, FillTake, FillLeave, Send, SendFails, DrainTake, DrainLeave,
        DrainTimeout, ProcessData, ForwardEvent, ReconfigureEvent, Reconfigured, FillNext,
        DrainNext, Processed
  <2>2. CASE AppActs
    BY <2>2
    DEF WakeInv, AppActs, GraphEnable, GraphDisable, GraphDestroy, AppStep, Drop, EnableNext,
        EnableCheck, EnableDone, StopWorker, JoinWorker, DisableNext, DisableCheck, DestroyNext,
        DestroyConnection, workerVars
  <2>3. CASE Elsewhere \/ UNCHANGED vars
    BY <2>3 DEF WakeInv, Elsewhere, workerVars, vars
  <2> QED
    BY <2>1, <2>2, <2>3, StepCases
<1>2. ASSUME app' = "running" PROVE Waiting' /\ Filling' /\ Draining'
  <2>1. CASE WorkerStep /\ UNCHANGED <<appVars, stop_thread>>
    BY <1>2, <2>1, WorkerWakes DEF appVars
  <2>2. CASE AppActs
    <3>1. sema' = Posted
      BY <1>2, <2>2
      DEF AppActs, GraphEnable, GraphDisable, GraphDestroy, AppStep, Drop, EnableNext,
          EnableCheck, EnableDone, StopWorker, JoinWorker, DisableNext, DisableCheck, DestroyNext,
          DestroyConnection, Call, ReleaseConnection, AppGoto
    <3>2. Pending'
      BY <1>0, <3>1 DEF Pending
    <3> QED
      BY <3>2 DEF Waiting, Filling, Draining
  <2>3. CASE /\ \/ \E c \in Connections : PortStep(c) \/ \E n \in Formats[c] : EventCallback(c, n)
                \/ \E t \in Threads : Operation(t)
             /\ Elsewhere
    <3>1. /\ UNCHANGED <<app, worker, visited, connection_current, run_again, refused, skipped>>
          /\ Waiting /\ Filling /\ Draining
      BY <1>2, <2>3 DEF Elsewhere, appVars, workerVars, loop, history, WakeInv
    <3>2. Behind' = Behind
      BY <1>0, <3>1, BehindNext
    <3>3. /\ Pending => Pending'
          /\ Pending' \/ Emptied \subseteq Emptied'
          /\ Pending' \/ poolQueue' = poolQueue \/ \E t \in Threads : ~Free(t)
      BY <2>3, <3>1, OthersPost DEF Emptied
    <3>4. CASE Pending'
      BY <3>4 DEF Waiting, Filling, Draining
    <3>5. CASE ~Pending' /\ poolQueue' = poolQueue
      <4>1. Filled' = Filled
        BY <3>1, <3>5 DEF Filled
      <4> QED
        BY <3>1, <3>2, <3>3, <3>5, <4>1 DEF Waiting, Filling, Draining
    <3>6. CASE ~Pending' /\ poolQueue' # poolQueue
      <4>1. worker = "reconfigure"
        <5>1. Free(App)
          BY <1>0, <1>2, <3>1 DEF OpRoles
        <5> QED
          BY <1>0, <3>3, <3>6, <5>1, Indices DEF OpRoles
      <4>2. run_again
        BY <4>1 DEF WakeInv
      <4> QED
        BY <3>1, <3>2, <3>3, <3>6, <4>1, <4>2 DEF Waiting, Filling, Draining
    <3> QED
      BY <3>4, <3>5, <3>6
  <2>4. CASE UNCHANGED vars
    <3>1. /\ UNCHANGED <<app, worker, visited, connection_current, run_again, refused, skipped>>
          /\ UNCHANGED <<poolQueue, queue, sema, calling>>
      BY <2>4
      DEF vars, appVars, workerVars, loop, history, connectionVars, connections, pools
    <3>2. Behind' = Behind /\ Filled' = Filled /\ Emptied' = Emptied /\ Pending' = Pending
      BY <1>0, <3>1, BehindNext DEF Filled, Emptied, Pending
    <3> QED
      BY <1>2, <3>1, <3>2 DEF Waiting, Filling, Draining, WakeInv
  <2> QED
    BY <2>1, <2>2, <2>3, <2>4, StepCases
<1> QED
  BY <1>1, <1>2 DEF WakeInv

\* The worker never sleeps on buffers, for any number of connections and whatever fails: when
\* it waits with the semaphore down and no callback about to post, every header is in use and
\* every queue is empty, but for a port that refused and a queue the timeout made it leave.
THEOREM WorkerNeverSleeps == Spec => []NoLostWakeup
<1>1. Init => WakeInv
  BY DEF Init, WakeInv
<1>2. Control /\ WakeInv /\ [Next]_vars => WakeInv'
  BY StepWakes
<1>3. WakeInv => NoLostWakeup
  <2> SUFFICES ASSUME WakeInv, worker = "wait", sema = 0, calling = {}, app = "running"
               PROVE  \A c \in Connections : /\ poolQueue[c] = 0 \/ c \in refused
                                             /\ queue[c] = <<>> \/ c \in skipped
      BY DEF NoLostWakeup
  <2>1. Connections \subseteq Filled \cap Emptied
    BY DEF WakeInv, Waiting, Pending
  <2> QED
    BY <2>1 DEF Filled, Emptied
<1> QED
  BY <1>1, <1>2, <1>3, ControlInvariant, PTL DEF Spec

-----------------------------------------------------------------------------
(* The order of the application and the worker.  The worker does not sleep  *)
(* while the application enables the connections, since one that is enabled *)
(* already makes work; but it finds nothing to do on a connection the        *)
(* application has still to begin, and no header of it is about.             *)

\* The connections whose pool the application has still to allocate
Ahead(c) ==
  \/ app = "idle"
  \/ app = "enabling" /\ c >= next
  \/ app = "enabled" /\ (c > next \/ (c = next /\ op[App].pc \in {"enable", "resize"}))

\* The worker is at a connection with a header of it in its hand.
Working(c) == worker \in {"send", "process", "reconfigure"} /\ Current = c

AtNext == app = "enabled" /\ ~Free(App) => op[App].cx = next

Stopped == app \in {"joining", "abortJoin", "disabling", "disabled"} => stop_thread

\* Once it has been stopped the worker leaves whenever the graph is enabled again.
Halted == stop_thread /\ app \notin {"joining", "abortJoin"} => worker \in {"wait", "exited"}

Blank(c) ==
  /\ poolQueue[c] = 0 /\ queue[c] = <<>> /\ ~out[c].cb /\ out[c].has = 0 /\ in[c].has = 0
  /\ ~Working(c)

Untouched == \A c \in Connections : ~stop_thread /\ Ahead(c) => Blank(c)

Exclusive ==
  ~Free(App) /\ ~Free(Worker) /\ op[App].cx = op[Worker].cx => op[App].cx \in clashed

OrderInv == AtNext /\ Stopped /\ Halted /\ Untouched /\ Exclusive

LEMMA InitOrder ==
  ASSUME Init
  PROVE  OrderInv
BY Indices
DEF Init, ConnectionInit, OrderInv, AtNext, Stopped, Halted, Untouched, Blank, Working, Exclusive,
    Free

\* An operation changes no other connection.
LEMMA OperationElsewhere ==
  ASSUME Types, NEW t \in Threads, Operation(t), NEW d \in Connections, d # op[t].cx
  PROVE  /\ UNCHANGED <<is_enabled[d], poolQueue[d], headers[d], out[d], in[d], queue[d]>>
         /\ d \in stranded' <=> d \in stranded
<1> DEFINE c == op[t].cx
<1>0. /\ PoolTypes /\ PortTypes /\ StatusTypes /\ c \in Connections
  BY OpSteps DEF Types, Operating
<1>1. is_enabled' = is_enabled \/ \E b \in BOOLEAN : is_enabled' = [is_enabled EXCEPT ![c] = b]
  BY DEF Operation, Enable, Resize, ResizeFails, EnableOut, EnableIn, UndoOut, UndoWait, Disable,
         DisableIn, WaitIn, DisableOut, WaitOut, Flush, Disabled, Commit, connections, status,
         MarkEnabled
<1>2. headers' = headers \/ \E n : headers' = [headers EXCEPT ![c] = n]
  BY DEF Operation, Enable, Resize, ResizeFails, EnableOut, EnableIn, UndoOut, UndoWait, Disable,
         DisableIn, WaitIn, DisableOut, WaitOut, Flush, Disabled, Commit, connections, pools, sizes
<1>3. poolQueue' = poolQueue \/ \E n : poolQueue' = [poolQueue EXCEPT ![c] = n]
  BY DEF Operation, Enable, Resize, ResizeFails, EnableOut, EnableIn, UndoOut, UndoWait, Disable,
         DisableIn, WaitIn, DisableOut, WaitOut, Flush, Disabled, Commit, connections, pools,
         Release
<1>4. queue' = queue \/ \E s : queue' = [queue EXCEPT ![c] = s]
  BY DEF Operation, Enable, Resize, ResizeFails, EnableOut, EnableIn, UndoOut, UndoWait, Disable,
         DisableIn, WaitIn, DisableOut, WaitOut, Flush, Disabled, Commit, connections
<1>5. stranded' = stranded \/ stranded' = stranded \cup {c}
  BY DEF Operation, Enable, Resize, ResizeFails, EnableOut, EnableIn, UndoOut, UndoWait, Disable,
         DisableIn, WaitIn, DisableOut, WaitOut, Flush, Disabled, Commit, connections, status
<1>6. \/ in' = in
      \/ \E b \in BOOLEAN : in' = [in EXCEPT ![c].on = b]
  <2>1. CASE EnableIn(t) \/ DisableIn(t)
    BY <2>1 DEF EnableIn, DisableIn
  <2>2. CASE ~EnableIn(t) /\ ~DisableIn(t)
    BY <2>2
    DEF Operation, Enable, Resize, ResizeFails, EnableOut, UndoOut, UndoWait, Disable, WaitIn,
        DisableOut, WaitOut, Flush, Disabled, Commit, connections, ports
  <2> QED
    BY <2>1, <2>2
<1>7. \/ out' = out
      \/ \E b : out' = [out EXCEPT ![c].on = b] \/ out' = [out EXCEPT ![c].cb = b]
      \/ out' = [out EXCEPT ![c].on = TRUE, ![c].cb = TRUE]
  <2>1. CASE EnableOut(t) \/ UndoOut(t) \/ UndoWait(t) \/ DisableOut(t) \/ WaitOut(t)
    BY <2>1 DEF EnableOut, UndoOut, UndoWait, DisableOut, WaitOut
  <2>2. CASE ~(EnableOut(t) \/ UndoOut(t) \/ UndoWait(t) \/ DisableOut(t) \/ WaitOut(t))
    BY <2>2
    DEF Operation, Enable, Resize, ResizeFails, EnableIn, Disable, DisableIn, WaitIn, Flush,
        Disabled, Commit, connections, ports
  <2> QED
    BY <2>1, <2>2
<1>8. out'[d] = out[d] /\ in'[d] = in[d]
  BY <1>0, <1>6, <1>7 DEF PortTypes
<1> QED
  BY <1>0, <1>1, <1>2, <1>3, <1>4, <1>5, <1>8 DEF PoolTypes, PortTypes, StatusTypes

\* The worker changes the connection it is at and none but that, and no port's state.
LEMMA WorkerAt ==
  ASSUME Types, WorkerStep
  PROVE  /\ \A d \in Connections \ {Current} :
              UNCHANGED <<in[d], out[d], queue[d], poolQueue[d]>>
         /\ \A d \in Connections : /\ out'[d].on = out[d].on /\ out'[d].cb = out[d].cb
                                   /\ in'[d].on = in[d].on
         /\ UNCHANGED <<is_enabled, stranded, headers>> /\ clashed \subseteq clashed'
         /\ \/ op' = op /\ clashed' = clashed
            \/ ReconfigureEvent
<1>0. PoolTypes /\ PortTypes
  BY DEF Types
<1>1. /\ \/ in' = in
         \/ in' = [in EXCEPT ![Current].has = @ + 1]
         \/ in' = [in EXCEPT ![Current].events = @ + 1]
      /\ out' = out \/ out' = [out EXCEPT ![Current].has = @ + 1]
      /\ queue' = queue \/ \E s : queue' = [queue EXCEPT ![Current] = s]
      /\ poolQueue' = poolQueue \/ \E n : poolQueue' = [poolQueue EXCEPT ![Current] = n]
  BY DEF WorkerStep, Wake, FillTake, FillLeave, Send, SendFails, DrainTake, DrainLeave,
         DrainTimeout, DrainNext, ProcessData, ForwardEvent, ReconfigureEvent, Reconfigured,
         connectionVars, connections, pools, ports, Release
<1>2. \A d \in Connections \ {Current} : UNCHANGED <<in[d], out[d], queue[d], poolQueue[d]>>
  BY <1>0, <1>1 DEF PoolTypes, PortTypes
<1>3. \A d \in Connections : /\ out'[d].on = out[d].on /\ out'[d].cb = out[d].cb
                             /\ in'[d].on = in[d].on
  <2>1. Current \in Connections
    BY CurrentIs DEF Types
  <2> QED
    BY <1>0, <1>1, <2>1, InNumbers, OutNumbers
<1>4. UNCHANGED <<is_enabled, stranded, headers>> /\ clashed \subseteq clashed'
  BY DEF WorkerStep, Wake, FillTake, FillLeave, Send, SendFails, DrainTake, DrainLeave,
         DrainTimeout, DrainNext, ProcessData, ForwardEvent, ReconfigureEvent, Reconfigured,
         connectionVars, connections, status, sizes, pools, history
<1>5. \/ op' = op /\ clashed' = clashed
      \/ ReconfigureEvent
  BY DEF WorkerStep, Wake, FillTake, FillLeave, Send, SendFails, DrainTake, DrainLeave,
         DrainTimeout, DrainNext, ProcessData, ForwardEvent, Reconfigured, connectionVars, history
<1> QED
  BY <1>2, <1>3, <1>4, <1>5

\* The worker finds nothing at a connection that has still to be begun, and goes nowhere with
\* a header of another in its hand.
LEMMA WorkerUntouched ==
  ASSUME WorkerStep
  PROVE  /\ Blank(Current) => /\ worker' \notin {"send", "process", "reconfigure"}
                              /\ UNCHANGED <<in, out, queue, poolQueue>>
         /\ worker' \in {"send", "process", "reconfigure"} => Current' = Current
<1>1. ASSUME Blank(Current)
      PROVE  /\ worker' \notin {"send", "process", "reconfigure"}
             /\ UNCHANGED <<in, out, queue, poolQueue>>
  <2>1. /\ ~(poolQueue[Current] > 0) /\ queue[Current] = <<>>
        /\ worker \notin {"send", "process", "reconfigure"}
    BY <1>1 DEF Blank, Working
  <2>2. Wake \/ FillLeave \/ DrainLeave
    BY <2>1
    DEF WorkerStep, FillTake, Send, SendFails, DrainTake, DrainTimeout, ProcessData, ForwardEvent,
        ReconfigureEvent, Reconfigured
  <2> QED
    BY <2>2
    DEF Wake, FillLeave, FillNext, DrainLeave, DrainNext, connectionVars, connections, pools, ports
<1>2. worker' \in {"send", "process", "reconfigure"} => Current' = Current
  BY DEF WorkerStep, Wake, FillTake, FillLeave, FillNext, Send, SendFails, DrainTake, DrainLeave,
         DrainTimeout, DrainNext, ProcessData, ForwardEvent, ReconfigureEvent, Reconfigured,
         Processed, loop, Current
<1> QED
  BY <1>1, <1>2

\* The worker is in no operation on a connection that has still to be begun.
LEMMA AheadOfWorker ==
  ASSUME Control, OrderInv, NEW c \in Connections, app \in {"idle", "enabling", "enabled"},
         Ahead(c)
  PROVE  /\ ~Free(Worker) => op[Worker].cx # c
         /\ ~(worker \in {"send", "process"} /\ Current = c)
<1>0. OpRoles /\ Halted /\ Untouched
  BY DEF Control, Roles, OrderInv
<1>1. CASE stop_thread
  BY <1>0, <1>1 DEF Halted, OpRoles
<1>2. CASE ~stop_thread
  BY <1>0, <1>2 DEF Untouched, Blank, Working, OpRoles
<1> QED
  BY <1>1, <1>2

LEMMA AppOrder ==
  ASSUME Control, OrderInv, AppActs
  PROVE  OrderInv'
<1>0. /\ Types /\ StatusTypes /\ AppTypes /\ OpRoles /\ AppRoles
      /\ AtNext /\ Stopped /\ Halted /\ Untouched /\ Exclusive
      /\ App \in Threads /\ Worker \in Threads /\ App # Worker
  BY Indices DEF Control, Types, Roles, OrderInv
<1>1. UNCHANGED connections
  BY DEF AppActs, GraphEnable, GraphDisable, GraphDestroy, AppStep, Drop, EnableNext, EnableCheck,
         EnableDone, StopWorker, JoinWorker, DisableNext, DisableCheck, DestroyNext,
         DestroyConnection, connectionVars
<1>2. /\ UNCHANGED <<loop, clashed, Current>>
      /\ worker' = worker \/ (app = "idle" /\ worker' = "wait")
  BY DEF AppActs, GraphEnable, GraphDisable, GraphDestroy, AppStep, Drop, EnableNext, EnableCheck,
         EnableDone, StopWorker, JoinWorker, DisableNext, DisableCheck, DestroyNext,
         DestroyConnection, workerVars, history, AppGoto, loop, Current
<1>3. \/ op' = op
      \/ /\ app = "enabling" /\ app' = "enabled" /\ next' = next /\ next \in Connections
         /\ Start(App, "enable", next, 0)
      \/ /\ app \in {"disabling", "destroying", "gone"} /\ app' # "enabled"
         /\ \E c \in Connections : Start(App, "disable", c, 0)
  <2>1. next < ConnectionNum => next \in Connections
    BY <1>0, Indices DEF AppTypes
  <2> QED
    BY <2>1
    DEF AppActs, GraphEnable, GraphDisable, GraphDestroy, AppStep, Drop, EnableNext, EnableCheck,
        EnableDone, StopWorker, JoinWorker, DisableNext, DisableCheck, DestroyNext,
        DestroyConnection, connectionVars, Call, ReleaseConnection, AppGoto
<1>4. op'[Worker] = op[Worker]
  BY <1>0, <1>3, OthersStay
<1>5. /\ op' # op => Free(App)
      /\ app' = "enabled" => app = "enabling" /\ op'[App].cx = next /\ op'[App].pc = "enable"
                             /\ next' = next /\ stop_thread' = stop_thread
  <2>1. app' = "enabled" => /\ app = "enabling" /\ stop_thread' = stop_thread
                            /\ Start(App, "enable", next, 0) /\ next' = next
    BY DEF AppActs, GraphEnable, GraphDisable, GraphDestroy, AppStep, Drop, EnableNext,
           EnableCheck, EnableDone, StopWorker, JoinWorker, DisableNext, DisableCheck,
           DestroyNext, DestroyConnection, Call, ReleaseConnection, AppGoto
  <2>2. Start(App, "enable", next, 0) => op'[App].cx = next /\ op'[App].pc = "enable"
    BY <1>0 DEF Start, StatusTypes
  <2> QED
    BY <1>3, <2>1, <2>2 DEF Start
<1>6. AtNext'
  BY <1>5 DEF AtNext
<1>7. Stopped'
  BY <1>0
  DEF Stopped, AppActs, GraphEnable, GraphDisable, GraphDestroy, AppStep, Drop, EnableNext,
      EnableCheck, EnableDone, StopWorker, JoinWorker, DisableNext, DisableCheck, DestroyNext,
      DestroyConnection, AppGoto, Call, ReleaseConnection
<1>8. Halted'
  <2>1. \/ stop_thread' = stop_thread
        \/ app' \in {"joining", "abortJoin"}
    BY DEF AppActs, GraphEnable, GraphDisable, GraphDestroy, AppStep, Drop, EnableNext,
           EnableCheck, EnableDone, StopWorker, JoinWorker, DisableNext, DisableCheck,
           DestroyNext, DestroyConnection, AppGoto
  <2>2. app \in {"joining", "abortJoin"} => worker = "exited" /\ worker' = worker
    BY DEF AppActs, GraphEnable, GraphDisable, GraphDestroy, AppStep, Drop, EnableNext,
           EnableCheck, EnableDone, StopWorker, JoinWorker, DisableNext, DisableCheck,
           DestroyNext, DestroyConnection, AppGoto, Call, workerVars
  <2> QED
    BY <1>0, <1>2, <2>1, <2>2 DEF Halted
<1>9. Untouched'
  <2>1. ASSUME NEW c \in Connections, Ahead(c)', ~stop_thread' PROVE Ahead(c) /\ ~stop_thread
    <3>0. c \in Int /\ next \in Int
      BY <1>0, Indices DEF AppTypes
    <3>1. ~stop_thread
      BY <2>1 DEF AppActs, GraphEnable, GraphDisable, GraphDestroy, AppStep, Drop, EnableNext,
                  EnableCheck, EnableDone, StopWorker, JoinWorker, DisableNext, DisableCheck,
                  DestroyNext, DestroyConnection
    <3>2. CASE app' = "enabled"
      BY <1>5, <2>1, <3>0, <3>1, <3>2 DEF Ahead
    <3>3. CASE app' = "enabling"
      <4>1. app = "idle" \/ (app = "enabled" /\ next' = next + 1)
        BY <3>3
        DEF AppActs, GraphEnable, GraphDisable, GraphDestroy, AppStep, Drop, EnableNext,
            EnableCheck, EnableDone, StopWorker, JoinWorker, DisableNext, DisableCheck,
            DestroyNext, DestroyConnection, AppGoto, Call, ReleaseConnection
      <4> QED
        BY <2>1, <3>0, <3>1, <3>3, <4>1 DEF Ahead
    <3>4. app' # "idle"
      <4>1. app' = "idle" => app \in {"abortJoin", "disabled"}
        BY DEF AppActs, GraphEnable, GraphDisable, GraphDestroy, AppStep, Drop, EnableNext,
               EnableCheck, EnableDone, StopWorker, JoinWorker, DisableNext, DisableCheck,
               DestroyNext, DestroyConnection, AppGoto, Call, ReleaseConnection
      <4> QED
        BY <1>0, <3>1, <4>1 DEF Stopped
    <3> QED
      BY <2>1, <3>2, <3>3, <3>4 DEF Ahead
  <2>2. UNCHANGED <<poolQueue, queue, out, in>>
    BY <1>1 DEF connections, pools, ports
  <2> QED
    BY <1>0, <1>2, <2>1, <2>2 DEF Untouched, Blank, Working
<1>10. Exclusive'
  <2>1. CASE op' = op
    BY <1>0, <1>2, <2>1 DEF Exclusive, Free
  <2>2. CASE /\ app = "enabling" /\ app' = "enabled" /\ next' = next /\ next \in Connections
             /\ Start(App, "enable", next, 0)
    <3>1. Ahead(next) /\ op'[App].cx = next
      BY <1>0, <1>5, <2>2, Indices DEF Ahead, AppTypes
    <3>2. ~Free(Worker) => op[Worker].cx # next
      BY <2>2, <3>1, AheadOfWorker
    <3> QED
      BY <1>4, <3>1, <3>2 DEF Exclusive, Free
  <2>3. CASE app \in {"disabling", "destroying", "gone"}
    <3>1. Free(Worker)
      BY <1>0, <2>3 DEF AppRoles, OpRoles
    <3> QED
      BY <1>4, <3>1 DEF Exclusive, Free
  <2> QED
    BY <1>3, <2>1, <2>2, <2>3
<1> QED
  BY <1>6, <1>7, <1>8, <1>9, <1>10 DEF OrderInv

LEMMA WorkerOrder ==
  ASSUME Control, OrderInv, WorkerStep, UNCHANGED <<appVars, stop_thread>>
  PROVE  OrderInv'
<1>0. /\ Types /\ StatusTypes /\ OpRoles /\ Current \in Connections
      /\ AtNext /\ Stopped /\ Halted /\ Untouched /\ Exclusive
      /\ App \in Threads /\ Worker \in Threads /\ App # Worker
      /\ UNCHANGED <<app, next, stop_thread>>
  BY Indices, CurrentIs DEF Control, Types, Roles, OrderInv, appVars
<1>1. op'[App] = op[App] /\ clashed \subseteq clashed'
  <2>1. ReconfigureEvent => op'[App] = op[App]
    BY <1>0, OthersStay DEF ReconfigureEvent
  <2> QED
    BY <1>0, <2>1, WorkerAt
<1>2. AtNext' /\ Stopped'
  BY <1>0, <1>1 DEF AtNext, Stopped, Free
<1>3. Halted'
  <2>1. ASSUME stop_thread, worker \in {"wait", "exited"} PROVE worker' = "exited"
    BY <2>1
    DEF WorkerStep, Wake, FillTake, FillLeave, Send, SendFails, DrainTake, DrainLeave,
        DrainTimeout, DrainNext, ProcessData, ForwardEvent, ReconfigureEvent, Reconfigured
  <2> QED
    BY <1>0, <2>1 DEF Halted
<1>4. Untouched'
  <2> SUFFICES ASSUME NEW c \in Connections, ~stop_thread', Ahead(c)'
               PROVE  Blank(c)'
      BY DEF Untouched
  <2>1. Blank(c)
    <3>1. Ahead(c)
      BY <1>0, <1>1 DEF Ahead
    <3> QED
      BY <1>0, <3>1 DEF Untouched
  <2>2. UNCHANGED <<poolQueue[c], queue[c], out[c], in[c]>>
    <3>1. c = Current => UNCHANGED <<in, out, queue, poolQueue>>
      BY <2>1, WorkerUntouched
    <3> QED
      BY <1>0, <3>1, WorkerAt
  <2>3. ~Working(c)'
    <3>1. worker' \in {"send", "process", "reconfigure"} => ~(Blank(Current)) /\ Current' = Current
      BY WorkerUntouched
    <3> QED
      BY <2>1, <3>1 DEF Working
  <2> QED
    BY <2>1, <2>2, <2>3 DEF Blank
<1>5. Exclusive'
  <2>1. CASE op' = op
    BY <1>0, <1>1, <2>1 DEF Exclusive, Free
  <2>2. CASE ReconfigureEvent
    <3>1. op'[Worker].cx = Current
      BY <1>0, <2>2 DEF ReconfigureEvent, Start, StatusTypes
    <3>2. ~Free(App) /\ op[App].cx = Current => Current \in clashed'
      BY <2>2 DEF ReconfigureEvent
    <3> QED
      BY <1>1, <3>1, <3>2 DEF Exclusive, Free
  <2> QED
    BY <1>0, <2>1, <2>2, WorkerAt
<1> QED
  BY <1>2, <1>3, <1>4, <1>5 DEF OrderInv

LEMMA OperationOrder ==
  ASSUME Control, OrderInv, NEW t \in Threads, Operation(t), Elsewhere
  PROVE  OrderInv'
<1>0. /\ Types /\ PoolTypes /\ PortTypes /\ StatusTypes /\ AppTypes /\ OpRoles
      /\ AtNext /\ Stopped /\ Halted /\ Untouched /\ Exclusive
      /\ App \in Threads /\ Worker \in Threads /\ App # Worker /\ Threads = {App, Worker}
  BY Indices DEF Control, Types, Roles, OrderInv
<1>1. /\ UNCHANGED <<app, next, stop_thread, worker, clashed, Current>>
  BY DEF Elsewhere, appVars, workerVars, loop, history, Current
<1>2. /\ op'[t].cx = op[t].cx /\ ~Free(t)
      /\ \A u \in Threads : u # t => op'[u] = op[u]
  BY <1>0, OperationGoes DEF Free
<1>3. Stopped' /\ Halted'
  BY <1>0, <1>1 DEF Stopped, Halted
<1>4. AtNext' /\ Exclusive'
  BY <1>0, <1>1, <1>2 DEF AtNext, Exclusive, Free
<1>5. Untouched'
  <2> SUFFICES ASSUME NEW c \in Connections, ~stop_thread', Ahead(c)'
               PROVE  Blank(c)'
      BY DEF Untouched
  <2>1. CASE t = Worker
    <3>1. Blank(c)
      BY <1>0, <1>1, <1>2, <2>1 DEF Ahead, Untouched
    <3>2. c # op[t].cx
      BY <1>0, <1>2, <2>1, <3>1 DEF OpRoles, Blank, Working
    <3>3. UNCHANGED <<poolQueue[c], queue[c], out[c], in[c]>>
      BY <1>0, <3>2, OperationElsewhere
    <3> QED
      BY <1>1, <3>1, <3>3 DEF Blank, Working
  <2>2. CASE t = App
    <3>1. app = "enabled" /\ op[App].pc \in EnableStages /\ op[App].cx = next
      BY <1>0, <1>1, <1>2, <2>2 DEF OpRoles, Ahead, AtNext
    <3>2. CASE c > next
      <4>1. Blank(c)
        BY <1>0, <1>1, <3>1, <3>2 DEF Ahead, Untouched
      <4>2. c # op[t].cx
        BY <1>0, <2>2, <3>1, <3>2, Indices DEF AppTypes
      <4>3. UNCHANGED <<poolQueue[c], queue[c], out[c], in[c]>>
        BY <1>0, <4>2, OperationElsewhere
      <4> QED
        BY <1>1, <4>1, <4>3 DEF Blank, Working
    <3>3. CASE c = next
      <4>1. op'[App].pc \in {"enable", "resize"}
        BY <1>0, <1>1, <3>1, <3>3, Indices DEF Ahead, AppTypes
      <4>2. Enable(App)
        <5>1. /\ \A label \in OpLabels : OpGoto(App, label) => op'[App].pc = label
              /\ \A ok \in BOOLEAN : Return(App, ok) => op'[App].pc = "none"
          BY <1>0, OpSteps
        <5> QED
          BY <2>2, <3>1, <4>1, <5>1
          DEF Operation, Resize, ResizeFails, EnableOut, EnableIn, UndoOut, UndoWait, Disable,
              DisableIn, WaitIn, DisableOut, WaitOut, Flush, Disabled, Commit, In, EnableStages,
              OpLabels
      <4>3. Blank(c)
        BY <1>0, <1>1, <3>1, <3>3, <4>2 DEF Ahead, Untouched, Enable, In
      <4>4. UNCHANGED <<poolQueue, queue, out, in>>
        BY <4>2 DEF Enable, ports
      <4> QED
        BY <1>1, <4>3, <4>4 DEF Blank, Working
    <3> QED
      BY <1>1, <3>1, <3>2, <3>3 DEF Ahead
  <2> QED
    BY <1>0, <2>1, <2>2
<1> QED
  BY <1>3, <1>4, <1>5 DEF OrderInv

LEMMA PortOrder ==
  ASSUME Control, OrderInv, NEW c \in Connections, Elsewhere,
         PortStep(c) \/ \E n \in Formats[c] : EventCallback(c, n)
  PROVE  OrderInv'
<1>0. /\ Types /\ PoolTypes /\ PortTypes /\ AtNext /\ Stopped /\ Halted /\ Untouched /\ Exclusive
  BY DEF Control, Types, OrderInv
<1>1. UNCHANGED <<app, next, stop_thread, worker, clashed, Current, op>>
  BY DEF Elsewhere, appVars, workerVars, loop, history, Current, PortStep, OutCallback, InCallback,
         InEventCallback, Post, EventCallback
<1>2. AtNext' /\ Stopped' /\ Halted' /\ Exclusive'
  BY <1>0, <1>1 DEF AtNext, Stopped, Halted, Exclusive, Free
<1>3. Untouched'
  <2> SUFFICES ASSUME NEW d \in Connections, ~stop_thread', Ahead(d)'
               PROVE  Blank(d)'
      BY DEF Untouched
  <2>1. Blank(d)
    BY <1>0, <1>1 DEF Ahead, Untouched
  <2>2. CASE InEventCallback(c) \/ \E port \in Ports : Post(c, port)
    <3>1. UNCHANGED <<poolQueue, queue, out>> /\ in'[d].has = in[d].has
      <4>1. /\ UNCHANGED <<poolQueue, queue, out>>
            /\ in' = in \/ in' = [in EXCEPT ![c].events = @ - 1]
        BY <2>2 DEF InEventCallback, Post, connections, pools, ports
      <4> QED
        BY <1>0, <4>1, InNumbers
    <3> QED
      BY <1>1, <2>1, <3>1 DEF Blank, Working
  <2>3. CASE OutCallback(c) \/ InCallback(c) \/ \E n \in Formats[c] : EventCallback(c, n)
    <3>1. d # c
      BY <2>1, <2>3 DEF Blank, OutCallback, InCallback, EventCallback
    <3>2. UNCHANGED <<poolQueue[d], queue[d], out[d], in[d]>>
      BY <1>0, <2>3, <3>1
      DEF OutCallback, InCallback, EventCallback, pools, PoolTypes, PortTypes
    <3> QED
      BY <1>1, <2>1, <3>2 DEF Blank, Working
  <2> QED
    BY <2>2, <2>3 DEF PortStep
<1> QED
  BY <1>2, <1>3 DEF OrderInv

LEMMA StepOrder ==
  ASSUME Control, OrderInv, [Next]_vars
  PROVE  OrderInv'
<1>1. CASE UNCHANGED vars
  <2>1. /\ UNCHANGED <<app, next, stop_thread, worker, clashed, Current, op>>
        /\ UNCHANGED <<poolQueue, queue, out, in>>
    BY <1>1
    DEF vars, connectionVars, connections, pools, ports, appVars, workerVars, loop, history,
        Current
  <2> QED
    BY <2>1
    DEF OrderInv, AtNext, Stopped, Halted, Untouched, Ahead, Blank, Working, Exclusive, Free
<1> QED
  BY <1>1, StepCases, AppOrder, WorkerOrder, OperationOrder, PortOrder

-----------------------------------------------------------------------------
(* Where the headers of a connection are while it is enabled and disabled,  *)
(* as long as the application and the worker are not both at it.            *)

\* What a thread at pc of an operation on c has found or done
Stage(pc, c) ==
  /\ pc \in {"resize", "enableOut", "enableIn", "undoOut", "undoWait", "commit"} =>
       ~is_enabled[c]
  /\ pc \in {"enableIn", "undoOut"} => out[c].on
  /\ pc = "undoWait" => ~out[c].on
  /\ pc \in {"disableIn", "waitIn", "disableOut", "waitOut", "flush", "check"} => is_enabled[c]
  /\ pc \in {"waitIn", "disableOut", "waitOut", "flush", "check"} => ~in[c].on
  /\ pc \in {"disableOut", "waitOut", "flush", "check"} => in[c].has = 0 /\ in[c].events = 0
  /\ pc \in {"waitOut", "flush", "check"} => ~out[c].on
  /\ pc \in {"flush", "check"} => out[c].has = 0 /\ ~out[c].cb
  /\ pc = "check" => queue[c] = <<>>

OpeningStages == {"enableIn", "undoOut", "undoWait"}

Opening(c) == \E t \in Threads : op[t].pc \in OpeningStages /\ op[t].cx = c

\* A connection that is not enabled has its headers at home, but while it is being enabled.
Closed(c) ==
  ~is_enabled[c] =>
    /\ ~in[c].on /\ in[c].has = 0
    /\ Opening(c) \/ (~out[c].on /\ out[c].has = 0 /\ Queued({Data}, c) = 0)

DataHand(c) == IF worker \in {"send", "process"} /\ hand = Data /\ Current = c THEN 1 ELSE 0

Balance(c) ==
  poolQueue[c] + Queued({Data}, c) + out[c].has + in[c].has + DataHand(c) = headers[c]

Stages == \A t \in Threads : Undisturbed(op[t].cx) => Stage(op[t].pc, op[t].cx)
Places == \A c \in Connections : Undisturbed(c) => Closed(c) /\ Balance(c)

Destroying ==
  /\ app \in {"destroyed", "dropped"} /\ Free(App) /\ op[App].ok /\ Undisturbed(op[App].cx) =>
       ~is_enabled[op[App].cx]
  /\ \A c \in freed : Undisturbed(c) => ~is_enabled[c]
  /\ freed # {} => app \in {"destroying", "destroyed", "gone", "dropped"}

RestInv == Stages /\ Places /\ Destroying

LEMMA InitRest ==
  ASSUME Init
  PROVE  RestInv
<1>1. Stages /\ Destroying
  BY Indices DEF Init, ConnectionInit, Stages, Stage, Destroying
<1>2. ASSUME NEW c \in Connections PROVE Closed(c) /\ Balance(c)
  <2>1. /\ poolQueue[c] = 0 /\ headers[c] = 0 /\ out[c].has = 0 /\ in[c].has = 0
        /\ ~out[c].on /\ ~in[c].on /\ worker = "exited"
    BY DEF Init, ConnectionInit
  <2>2. Queued({Data}, c) = 0
    <3>1. queue[c] = <<>> /\ <<>> \in Seq(0..MaxBuffers)
      BY DEF Init, ConnectionInit
    <3> QED
      BY <3>1, CountType DEF Queued
  <2> QED
    BY <2>1, <2>2 DEF Closed, Balance, DataHand
<1> QED
  BY <1>1, <1>2 DEF RestInv, Places

LEMMA PlaceNumbers ==
  ASSUME Types, NEW c \in Connections
  PROVE  /\ poolQueue[c] \in Nat /\ headers[c] \in Nat /\ Queued({Data}, c) \in Nat
         /\ out[c].has \in Nat /\ in[c].has \in Nat /\ DataHand(c) \in 0..1
<1>1. poolQueue[c] \in Nat /\ headers[c] \in Nat /\ DataHand(c) \in 0..1
  <2>1. headers[c] \in 0..MaxBuffers
    BY DEF Types, PoolTypes
  <2> QED
    BY <2>1, Indices DEF Types, PoolTypes, DataHand
<1>2. queue[c] \in Seq(0..MaxBuffers)
  BY DEF Types, PortTypes
<1>3. Queued({Data}, c) \in Nat
  BY <1>2, CountType DEF Queued
<1>4. out[c].has \in Nat /\ in[c].has \in Nat
  BY OutNumbers, InNumbers DEF Types
<1> QED
  BY <1>1, <1>3, <1>4

\* A connection whose queue has no header of the pool
LEMMA NoneQueued ==
  ASSUME PortTypes, NEW c \in Connections
  PROVE  /\ Data \notin Range(queue[c]) <=> Queued({Data}, c) = 0
         /\ queue[c] = <<>> => Queued({Data}, c) = 0
<1>1. queue[c] \in Seq(0..MaxBuffers)
  BY DEF PortTypes
<1>2. Range(queue[c]) \cap {Data} = {} <=> Queued({Data}, c) = 0
  BY <1>1, CountType DEF Queued
<1>3. queue[c] = <<>> => Queued({Data}, c) = 0
  BY <1>1, CountType DEF Queued
<1> QED
  BY <1>2, <1>3

\* An undisturbed connection has one operation at most, and whoever resizes its pool or has
\* disabled it knows that the worker has none of its headers in its hand.
LEMMA OperationAlone ==
  ASSUME Control, OrderInv, NEW t \in Threads, ~Free(t), NEW c \in Connections, c = op[t].cx,
         Undisturbed(c)
  PROVE  /\ \A u \in Threads : u # t /\ ~Free(u) => op[u].cx # c
         /\ Opening(c) <=> op[t].pc \in OpeningStages
         /\ op[t].pc \in {"resize", "check"} => DataHand(c) = 0
         /\ t = App /\ op[t].pc \in DisableStages => worker = "exited"
<1>0. /\ Types /\ StatusTypes /\ AppTypes /\ OpRoles /\ AppRoles /\ AtNext /\ Exclusive
      /\ App \in Threads /\ Worker \in Threads /\ App # Worker /\ Threads = {App, Worker}
      /\ c \notin clashed
  BY Indices DEF Control, Types, Roles, OrderInv, Undisturbed
<1>1. \A u \in Threads : u # t /\ ~Free(u) => op[u].cx # c
  BY <1>0 DEF Exclusive
<1>2. Opening(c) <=> op[t].pc \in OpeningStages
  BY <1>1 DEF Opening, OpeningStages, Free
<1>3. t = App /\ op[t].pc \in DisableStages => worker = "exited"
  BY <1>0 DEF OpRoles, AppRoles, EnableStages, DisableStages
<1>4. ASSUME op[t].pc \in {"resize", "check"} PROVE DataHand(c) = 0
  <2>1. CASE t = Worker
    BY <1>0, <2>1 DEF OpRoles, DataHand
  <2>2. CASE t = App /\ op[t].pc = "check"
    BY <1>3, <2>2 DEF DisableStages, DataHand
  <2>3. CASE t = App /\ op[t].pc = "resize"
    <3>1. app = "enabled" /\ c = next
      BY <1>0, <2>3 DEF OpRoles, DisableStages, AtNext
    <3>2. ~(worker \in {"send", "process"} /\ Current = c)
      BY <2>3, <3>1, AheadOfWorker DEF Ahead
    <3> QED
      BY <3>2 DEF DataHand
  <2> QED
    BY <1>0, <1>4, <2>1, <2>2, <2>3
<1> QED
  BY <1>1, <1>2, <1>3, <1>4

\* A connection once disturbed stays so.
LEMMA OperationDisturbs ==
  ASSUME NEW t \in Threads, Operation(t), Elsewhere
  PROVE  stranded \subseteq stranded' /\ UNCHANGED <<clashed, worker, hand, Current>>
<1>1. UNCHANGED <<clashed, worker, hand, Current>>
  BY DEF Elsewhere, workerVars, history, loop, Current
<1>2. stranded \subseteq stranded'
  BY DEF Operation, Enable, Resize, ResizeFails, EnableOut, EnableIn, UndoOut, UndoWait,
         Disable, DisableIn, WaitIn, DisableOut, WaitOut, Flush, Disabled, Commit,
         status, connections
<1> QED
  BY <1>1, <1>2

\* What an operation finds, and what it leaves of it
LEMMA OperationFinds ==
  ASSUME Control, OrderInv, RestInv, NEW t \in Threads, Operation(t), Elsewhere,
         NEW c \in Connections, c = op[t].cx, Undisturbed(c)'
  PROVE  /\ Undisturbed(c) /\ Stage(op[t].pc, c) /\ Closed(c) /\ Balance(c)
         /\ op'[t].cx = c /\ DataHand(c)' = DataHand(c)
         /\ Opening(c) <=> op[t].pc \in OpeningStages
         /\ Opening(c)' <=> op'[t].pc \in OpeningStages
         /\ op[t].pc \in {"resize", "check"} => DataHand(c) = 0
<1>0. Types /\ StatusTypes /\ Stages /\ Places
  BY DEF Control, Types, RestInv
<1>1. ~Free(t) /\ op'[t].cx = c /\ \A u \in Threads \ {t} : op'[u] = op[u]
  BY <1>0, OperationGoes DEF Free
<1>2. Undisturbed(c) /\ DataHand(c)' = DataHand(c)
  BY OperationDisturbs DEF Undisturbed, DataHand
<1>3. /\ \A u \in Threads : u # t /\ ~Free(u) => op[u].cx # c
      /\ Opening(c) <=> op[t].pc \in OpeningStages
      /\ op[t].pc \in {"resize", "check"} => DataHand(c) = 0
  BY <1>1, <1>2, OperationAlone
<1>4. Opening(c)' <=> op'[t].pc \in OpeningStages
  BY <1>1, <1>3 DEF Opening, OpeningStages, Free
<1>5. Stage(op[t].pc, c) /\ Closed(c) /\ Balance(c)
  BY <1>0, <1>2 DEF Stages, Places
<1> QED
  BY <1>1, <1>2, <1>3, <1>4, <1>5

\* What the changes of a port do to the connection's own numbers
LEMMA PortChanges ==
  ASSUME PortTypes, NEW c \in Connections
  PROVE  /\ \A b \in BOOLEAN :
              /\ out' = [out EXCEPT ![c].on = b] =>
                   out'[c].on = b /\ out'[c].has = out[c].has /\ out'[c].cb = out[c].cb
              /\ out' = [out EXCEPT ![c].cb = b] =>
                   out'[c].cb = b /\ out'[c].has = out[c].has /\ out'[c].on = out[c].on
              /\ in' = [in EXCEPT ![c].on = b] =>
                   in'[c].on = b /\ in'[c].has = in[c].has /\ in'[c].events = in[c].events
         /\ out' = [out EXCEPT ![c].on = TRUE, ![c].cb = TRUE] =>
              out'[c].on = TRUE /\ out'[c].has = out[c].has
<1>1. out[c] \in OutPort /\ in[c] \in InPort
  BY DEF PortTypes
<1>2. ASSUME NEW b \in BOOLEAN
      PROVE  /\ out' = [out EXCEPT ![c].on = b] =>
                  out'[c].on = b /\ out'[c].has = out[c].has /\ out'[c].cb = out[c].cb
             /\ out' = [out EXCEPT ![c].cb = b] =>
                  out'[c].cb = b /\ out'[c].has = out[c].has /\ out'[c].on = out[c].on
  BY <1>1 DEF PortTypes, OutPort
<1>3. ASSUME NEW b \in BOOLEAN, in' = [in EXCEPT ![c].on = b]
      PROVE  in'[c].on = b /\ in'[c].has = in[c].has /\ in'[c].events = in[c].events
  BY <1>1, <1>3 DEF PortTypes, InPort
<1>4. out' = [out EXCEPT ![c].on = TRUE, ![c].cb = TRUE] =>
        out'[c].on = TRUE /\ out'[c].has = out[c].has
  BY <1>1 DEF PortTypes, OutPort
<1> QED
  BY <1>2, <1>3, <1>4

\* The operation that enables a connection keeps its headers accounted for.
LEMMA EnableRest ==
  ASSUME Control, OrderInv, RestInv, NEW t \in Threads, Operation(t), Elsewhere,
         op[t].pc \in EnableStages \cup {"commit"}, NEW c \in Connections, c = op[t].cx,
         Undisturbed(c)'
  PROVE  Stage(op[t].pc, c)' /\ Closed(c)' /\ Balance(c)'
<1>0. /\ Types /\ PoolTypes /\ PortTypes /\ StatusTypes
      /\ Stage(op[t].pc, c) /\ Closed(c) /\ Balance(c)
      /\ DataHand(c)' = DataHand(c) /\ DataHand(c) \in 0..1
      /\ Opening(c) <=> op[t].pc \in OpeningStages
      /\ Opening(c)' <=> op'[t].pc \in OpeningStages
      /\ op[t].pc = "resize" => DataHand(c) = 0
  BY OperationFinds, PlaceNumbers DEF Control, Types
<1>1. queue' = queue /\ Queued({Data}, c)' = Queued({Data}, c)
  <2>1. queue' = queue
    BY DEF EnableStages, Operation, Enable, Resize, ResizeFails, EnableOut, EnableIn, UndoOut,
           UndoWait, Disable, DisableIn, WaitIn, DisableOut, WaitOut, Flush, Disabled, Commit, In
  <2> QED
    BY <1>0, <2>1, QueueSame
<1>2. /\ out[c].on \in BOOLEAN /\ out[c].cb \in BOOLEAN
      /\ poolQueue[c] \in Nat /\ headers[c] \in Nat /\ Queued({Data}, c) \in Nat
      /\ out[c].has \in Nat /\ in[c].has \in Nat
  BY <1>0, PlaceNumbers, OutNumbers
<1>3. CASE Enable(t)
  <2>1. /\ UNCHANGED <<is_enabled, in, out, poolQueue, headers>>
        /\ op[t].pc = "enable"
        /\ op'[t].pc = "none" \/ (op'[t].pc = "resize" /\ ~is_enabled[c])
    BY <1>0, <1>3, OpSteps DEF Enable, status, ports, In, OpLabels
  <2> QED
    BY <1>0, <1>1, <2>1 DEF Stage, Closed, Balance, OpeningStages
<1>4. CASE Resize(t)
  <2>1. /\ UNCHANGED <<is_enabled, in, out>>
        /\ op[t].pc = "resize" /\ op'[t].pc = "enableOut"
    BY <1>0, <1>4, OpSteps DEF Resize, status, ports, In, OpLabels
  <2>2. poolQueue'[c] = headers'[c]
    <3>1. poolQueue[c] = headers[c]
      BY <1>0, <1>2, <2>1 DEF Stage, Closed, Balance, OpeningStages
    <3>2. CASE UNCHANGED <<poolQueue, headers>>
      BY <3>1, <3>2
    <3>3. ASSUME NEW kept \in 0..bufferNum[c],
                 poolQueue' = [poolQueue EXCEPT ![c] = Drained(c) + kept],
                 headers' = [headers EXCEPT ![c] = kept]
          PROVE  poolQueue'[c] = headers'[c]
      <4>1. Drained(c) = 0 /\ kept \in Int
        BY <1>2, <3>1, <3>3, MaxOfTwo DEF Drained
      <4>2. poolQueue'[c] = Drained(c) + kept /\ headers'[c] = kept
        BY <1>0, <3>3 DEF PoolTypes
      <4> QED
        BY <4>1, <4>2
    <3> QED
      BY <1>4, <3>2, <3>3 DEF Resize
  <2>3. poolQueue'[c] \in Int
    BY <1>4, StepTypes DEF Next, Types, PoolTypes
  <2> QED
    BY <1>0, <1>1, <1>2, <2>1, <2>2, <2>3 DEF Stage, Closed, Balance, OpeningStages
<1>5. CASE ResizeFails(t)
  <2>1. /\ UNCHANGED <<in, out>> /\ is_enabled'[c] = FALSE
        /\ op[t].pc = "resize" /\ op'[t].pc = "none"
    BY <1>0, <1>5, OpSteps DEF ResizeFails, MarkEnabled, StatusTypes, ports, In
  <2>2. poolQueue'[c] = 0 /\ headers'[c] = 0
    <3>1. Drained(c) = 0
      <4>1. poolQueue[c] = headers[c]
        BY <1>0, <1>2, <2>1 DEF Stage, Closed, Balance, OpeningStages
      <4>2. poolQueue[c] - headers[c] = 0 /\ poolQueue[c] - headers[c] \in Int
        BY <1>2, <4>1
      <4>3. Max({poolQueue[c] - headers[c], 0}) = 0
        BY <4>2, MaxOfTwo
      <4> QED
        BY <4>3 DEF Drained
    <3> QED
      BY <1>0, <1>5, <3>1 DEF ResizeFails, PoolTypes
  <2> QED
    BY <1>0, <1>1, <1>2, <2>1, <2>2 DEF Stage, Closed, Balance, OpeningStages
<1>6. CASE EnableOut(t)
  <2>1. /\ UNCHANGED <<in, poolQueue, headers>>
        /\ op[t].pc = "enableOut" /\ ~is_enabled[c] /\ ~is_enabled'[c]
    BY <1>0, <1>6 DEF EnableOut, MarkEnabled, StatusTypes, Stage, pools, sizes, In
  <2>2. \/ ~out[c].on /\ op'[t].pc = "enableIn" /\ out'[c].on /\ out'[c].has = out[c].has
        \/ op'[t].pc = "none" /\ out'[c].on = out[c].on /\ out'[c].has = out[c].has
    <3>1. CASE /\ ~out[c].on /\ OpGoto(t, "enableIn")
               /\ out' = [out EXCEPT ![c].on = TRUE, ![c].cb = TRUE]
      <4>1. op'[t].pc = "enableIn"
        BY <1>0, <3>1, OpSteps DEF OpLabels
      <4>2. out'[c].on /\ out'[c].has = out[c].has
        BY <1>0, <3>1, PortChanges
      <4> QED
        BY <3>1, <4>1, <4>2
    <3>2. CASE out[c].on /\ Return(t, FALSE) /\ UNCHANGED out
      BY <1>0, <3>2, OpSteps
    <3>3. ASSUME NEW cb \in {out[c].cb, TRUE}, Return(t, FALSE), out' = [out EXCEPT ![c].cb = cb]
          PROVE  op'[t].pc = "none" /\ out'[c].on = out[c].on /\ out'[c].has = out[c].has
      <4>1. cb \in BOOLEAN
        BY <1>2
      <4> QED
        BY <1>0, <3>3, <4>1, OpSteps, PortChanges
    <3> QED
      BY <1>6, <3>1, <3>2, <3>3 DEF EnableOut
  <2> QED
    BY <1>0, <1>1, <2>1, <2>2 DEF Stage, Closed, Balance, OpeningStages
<1>7. CASE EnableIn(t)
  <2>1. /\ UNCHANGED <<out, poolQueue, headers>>
        /\ op[t].pc = "enableIn"
    BY <1>7 DEF EnableIn, pools, sizes, In
  <2>2. \/ op'[t].pc = "none" /\ is_enabled'[c] /\ in'[c].has = in[c].has
        \/ op'[t].pc = "undoOut" /\ UNCHANGED <<in, is_enabled>>
    <3>1. CASE /\ Return(t, TRUE) /\ in' = [in EXCEPT ![c].on = TRUE]
               /\ MarkEnabled(c, TRUE)
      BY <1>0, <3>1, OpSteps, PortChanges DEF StatusTypes, MarkEnabled
    <3>2. CASE OpGoto(t, "undoOut") /\ UNCHANGED <<in, is_enabled>>
      BY <1>0, <3>2, OpSteps DEF OpLabels
    <3> QED
      BY <1>7, <3>1, <3>2 DEF EnableIn
  <2> QED
    BY <1>0, <1>1, <2>1, <2>2 DEF Stage, Closed, Balance, OpeningStages
<1>8. CASE UndoOut(t)
  <2>1. /\ UNCHANGED <<in, poolQueue, headers>> /\ op[t].pc = "undoOut" /\ ~is_enabled[c]
    BY <1>0, <1>8 DEF UndoOut, pools, sizes, In, Stage
  <2>2. /\ op'[t].pc = "undoWait" /\ ~out'[c].on /\ out'[c].has = out[c].has
        /\ is_enabled' = is_enabled
    <3>1. CASE OpGoto(t, "undoWait") /\ out' = [out EXCEPT ![c].on = FALSE] /\ UNCHANGED status
      BY <1>0, <3>1, OpSteps, PortChanges DEF OpLabels, status
    <3>2. c \notin stranded'
      BY DEF Undisturbed
    <3> QED
      BY <1>8, <3>1, <3>2 DEF UndoOut
  <2> QED
    BY <1>0, <1>1, <2>1, <2>2 DEF Stage, Closed, Balance, OpeningStages
<1>9. CASE UndoWait(t)
  <2>1. /\ UNCHANGED <<in, poolQueue, headers>> /\ op[t].pc = "undoWait"
        /\ op'[t].pc = "none" /\ ~is_enabled[c] /\ ~is_enabled'[c] /\ ~out[c].on
    BY <1>0, <1>9, OpSteps
    DEF UndoWait, MarkEnabled, StatusTypes, pools, sizes, In, Stage
  <2>2. out'[c].on = out[c].on /\ out'[c].has = out[c].has /\ out[c].has = 0
    <3>1. out' = [out EXCEPT ![c].cb = FALSE] /\ out[c].has = 0
      BY <1>9 DEF UndoWait, OutIdle
    <3> QED
      BY <1>0, <3>1, PortChanges
  <2>3. Queued({Data}, c) = 0
    <3>1. Data \notin Range(queue[c])
      BY <1>9 DEF UndoWait, Undisturbed
    <3> QED
      BY <1>0, <3>1, NoneQueued
  <2> QED
    BY <1>0, <1>1, <2>1, <2>2, <2>3 DEF Stage, Closed, Balance, OpeningStages
<1>10. CASE Commit(t)
  <2>1. /\ UNCHANGED <<is_enabled, in, out, poolQueue, headers>>
        /\ op[t].pc = "commit" /\ op'[t].pc \in {"enable", "none"}
    BY <1>0, <1>10, OperationGoes DEF Commit, status, ports, In
  <2> QED
    BY <1>0, <1>1, <2>1 DEF Stage, Closed, Balance, OpeningStages
<1> QED
  BY <1>3, <1>4, <1>5, <1>6, <1>7, <1>8, <1>9, <1>10
  DEF Operation, EnableStages, Disable, DisableIn, WaitIn, DisableOut, WaitOut, Flush, Disabled, In

\* The operation that disables a connection brings its headers home before it says so.
LEMMA DisableRest ==
  ASSUME Control, OrderInv, RestInv, NEW t \in Threads, Operation(t), Elsewhere,
         op[t].pc \in DisableStages, NEW c \in Connections, c = op[t].cx,
         Undisturbed(c)'
  PROVE  Stage(op[t].pc, c)' /\ Closed(c)' /\ Balance(c)'
<1>0. /\ Types /\ PoolTypes /\ PortTypes /\ StatusTypes
      /\ Stage(op[t].pc, c) /\ Closed(c) /\ Balance(c)
      /\ DataHand(c)' = DataHand(c) /\ DataHand(c) \in 0..1
      /\ ~Opening(c) /\ headers' = headers
  <2>1. headers' = headers
    BY DEF DisableStages, Operation, Enable, Resize, ResizeFails, EnableOut, EnableIn, UndoOut,
           UndoWait, Disable, DisableIn, WaitIn, DisableOut, WaitOut, Flush, Disabled, Commit, In,
           status, connections, pools, sizes
  <2> QED
    BY <2>1, OperationFinds, PlaceNumbers DEF Control, Types, DisableStages, OpeningStages
<1>1. /\ out[c].on \in BOOLEAN /\ out[c].cb \in BOOLEAN
      /\ poolQueue[c] \in Nat /\ headers[c] \in Nat /\ Queued({Data}, c) \in Nat
      /\ out[c].has \in Nat /\ in[c].has \in Nat
      /\ queue' = queue => Queued({Data}, c)' = Queued({Data}, c)
  BY <1>0, PlaceNumbers, OutNumbers, QueueSame
<1>2. CASE Disable(t)
  <2>1. UNCHANGED <<is_enabled, in, out, poolQueue, queue>> /\ op[t].pc = "disable"
    BY <1>2 DEF Disable, connections, status, ports, pools, In
  <2>2. \/ op'[t].pc = "disableIn" /\ is_enabled[c]
        \/ op'[t].pc \in {"none", "commit"} /\ ~is_enabled[c]
    <3>1. CASE is_enabled[c]
      <4>1. OpGoto(t, "disableIn") /\ "disableIn" \in OpLabels
        BY <1>2, <3>1 DEF Disable, OpLabels
      <4>2. op'[t].pc = "disableIn"
        BY <1>0, <4>1, OpSteps
      <4> QED
        BY <3>1, <4>2
    <3>2. CASE ~is_enabled[c]
      BY <1>0, <1>2, <3>2, OpSteps DEF Disable, AfterDisable, OpLabels
    <3> QED
      BY <3>1, <3>2
  <2> QED
    BY <1>0, <1>1, <2>1, <2>2 DEF Stage, Closed, Balance
<1>3. CASE DisableIn(t)
  <2>1. /\ UNCHANGED <<out, poolQueue, queue>> /\ op[t].pc = "disableIn"
        /\ is_enabled'[c]
    BY <1>0, <1>3 DEF DisableIn, MarkEnabled, StatusTypes, Stage, pools, In
  <2>2. \/ op'[t].pc = "waitIn" /\ ~in'[c].on /\ in'[c].has = in[c].has
        \/ op'[t].pc = "none" /\ in' = in
    <3>1. CASE OpGoto(t, "waitIn") /\ in' = [in EXCEPT ![c].on = FALSE]
      BY <1>0, <3>1, OpSteps, PortChanges DEF OpLabels
    <3>2. CASE Return(t, FALSE) /\ UNCHANGED in
      BY <1>0, <3>2, OpSteps
    <3> QED
      BY <1>3, <3>1, <3>2 DEF DisableIn
  <2> QED
    BY <1>0, <1>1, <2>1, <2>2 DEF Stage, Closed, Balance
<1>4. CASE WaitIn(t)
  <2>1. /\ UNCHANGED <<is_enabled, in, out, poolQueue, queue>> /\ op[t].pc = "waitIn"
        /\ op'[t].pc = "disableOut" /\ in[c].has = 0 /\ in[c].events = 0
    BY <1>0, <1>4, OpSteps DEF WaitIn, connections, status, ports, pools, In, InIdle, OpLabels
  <2> QED
    BY <1>0, <1>1, <2>1 DEF Stage, Closed, Balance
<1>5. CASE DisableOut(t)
  <2>1. /\ UNCHANGED <<in, poolQueue, queue>> /\ op[t].pc = "disableOut"
        /\ is_enabled'[c]
    BY <1>0, <1>5 DEF DisableOut, MarkEnabled, StatusTypes, Stage, pools, In
  <2>2. \/ op'[t].pc = "waitOut" /\ ~out'[c].on /\ out'[c].has = out[c].has
        \/ op'[t].pc = "none" /\ out' = out
    <3>1. CASE OpGoto(t, "waitOut") /\ out' = [out EXCEPT ![c].on = FALSE]
      BY <1>0, <3>1, OpSteps, PortChanges DEF OpLabels
    <3>2. CASE Return(t, FALSE) /\ UNCHANGED out
      BY <1>0, <3>2, OpSteps
    <3> QED
      BY <1>5, <3>1, <3>2 DEF DisableOut
  <2> QED
    BY <1>0, <1>1, <2>1, <2>2 DEF Stage, Closed, Balance
<1>6. CASE WaitOut(t)
  <2>1. /\ UNCHANGED <<is_enabled, in, poolQueue, queue>> /\ op[t].pc = "waitOut"
        /\ op'[t].pc = "flush" /\ out[c].has = 0
    BY <1>0, <1>6, OpSteps DEF WaitOut, status, pools, In, OutIdle, OpLabels
  <2>2. out'[c].on = out[c].on /\ out'[c].has = out[c].has /\ ~out'[c].cb
    <3>1. out' = [out EXCEPT ![c].cb = FALSE]
      BY <1>6 DEF WaitOut
    <3> QED
      BY <1>0, <3>1, PortChanges
  <2> QED
    BY <1>0, <1>1, <2>1, <2>2 DEF Stage, Closed, Balance
<1>7. CASE Flush(t)
  <2>1. UNCHANGED <<is_enabled, in, out>> /\ op[t].pc = "flush"
    BY <1>7 DEF Flush, status, In
  <2>2. CASE queue[c] = <<>>
    <3>1. op'[t].pc = "check" /\ UNCHANGED <<poolQueue, queue>>
      BY <1>0, <1>7, <2>2, OpSteps DEF Flush, OpLabels
    <3> QED
      BY <1>0, <1>1, <2>1, <2>2, <3>1 DEF Stage, Closed, Balance
  <2>3. CASE queue[c] # <<>>
    <3>1. /\ op' = op /\ queue' = [queue EXCEPT ![c] = Tail(@)] /\ Release(c, Head(queue[c]))
          /\ Head(queue[c]) \in 0..MaxBuffers
      BY <1>0, <1>7, <2>3, TakeTypes DEF Flush
    <3>2. poolQueue'[c] + Queued({Data}, c)' = poolQueue[c] + Queued({Data}, c)
      <4>1. CASE Head(queue[c]) = Data
        <5>1. Queued({Data}, c)' = Queued({Data}, c) - 1
          BY <1>0, <2>3, <3>1, <4>1, QueueTakes
        <5>2. poolQueue'[c] = poolQueue[c] + 1
          BY <1>0, <3>1, <4>1, ReleaseNumbers
        <5> QED
          BY <1>1, <5>1, <5>2
      <4>2. CASE Head(queue[c]) # Data
        <5>1. Queued({Data}, c)' = Queued({Data}, c)
          BY <1>0, <2>3, <3>1, <4>2, QueueTakes
        <5>2. poolQueue' = poolQueue
          BY <1>0, <3>1, <4>2, ReleaseNumbers
        <5> QED
          BY <5>1, <5>2
      <4> QED
        BY <4>1, <4>2
    <3>3. Balance(c)'
      BY <1>0, <1>1, <2>1, <3>2 DEF Balance
    <3>4. is_enabled'[c] /\ op'[t].pc = "flush"
      BY <1>0, <2>1, <3>1 DEF Stage
    <3> QED
      BY <1>0, <2>1, <3>1, <3>3, <3>4 DEF Stage, Closed
  <2> QED
    BY <2>2, <2>3
<1>8. CASE Disabled(t)
  <2>1. /\ UNCHANGED <<in, out, poolQueue, queue>> /\ op[t].pc = "check"
        /\ op'[t].pc \in {"none", "commit"} /\ ~is_enabled'[c]
    <3>1. op'[t].pc \in {"none", "commit"}
      BY <1>0, <1>8, OpSteps DEF Disabled, AfterDisable, OpLabels
    <3> QED
      BY <1>0, <1>8, <3>1 DEF Disabled, MarkEnabled, pools, ports, In, StatusTypes
  <2>2. Queued({Data}, c) = 0
    <3>1. queue[c] = <<>>
      BY <1>0, <2>1 DEF Stage
    <3> QED
      BY <1>0, <3>1, NoneQueued
  <2> QED
    BY <1>0, <1>1, <2>1, <2>2 DEF Stage, Closed, Balance
<1> QED
  BY <1>2, <1>3, <1>4, <1>5, <1>6, <1>7, <1>8
  DEF Operation, DisableStages, Enable, Resize, ResizeFails, EnableOut, EnableIn, UndoOut, UndoWait,
      Commit, In


LEMMA OperationRest ==
  ASSUME Control, OrderInv, RestInv, NEW t \in Threads, Operation(t), Elsewhere
  PROVE  RestInv'
<1> DEFINE c == op[t].cx
<1>0. /\ Types /\ StatusTypes /\ Roles /\ OpRoles /\ AppRoles
      /\ Stages /\ Places /\ Destroying
  BY DEF Control, Types, Roles, RestInv
<1>1. /\ c \in Connections /\ op'[t].cx = c /\ ~Free(t)
      /\ op[t].pc \in EnableStages \cup DisableStages \cup {"commit"}
      /\ \A u \in Threads \ {t} : op'[u] = op[u]
  BY <1>0, OperationGoes, OpSteps DEF Operating, Free
<1>D. /\ \A d \in Connections : Undisturbed(d)' => Undisturbed(d)
      /\ \A d \in Connections : DataHand(d)' = DataHand(d)
  BY OperationDisturbs DEF Undisturbed, DataHand
<1>2. ASSUME NEW e \in Connections, e = c, Undisturbed(e)'
      PROVE  Stage(op[t].pc, e)' /\ Closed(e)' /\ Balance(e)'
  BY <1>1, <1>2, EnableRest, DisableRest
<1>3. Stages'
  <2> SUFFICES ASSUME NEW u \in Threads, Undisturbed(op[u].cx)'
               PROVE  Stage(op[u].pc, op[u].cx)'
      BY DEF Stages
  <2>1. CASE u = t
    <3>1. Stage(op[t].pc, op[t].cx)' <=> Stage(op[t].pc, c)'
      BY <1>1 DEF Stage
    <3> QED
      BY <1>1, <1>2, <2>1, <3>1
  <2>2. CASE u # t /\ Free(u)
    BY <1>1, <2>2 DEF Free, Stage
  <2>3. CASE u # t /\ ~Free(u)
    <3>1. PICK d \in Connections : d = op[u].cx
      BY <1>0, OpSteps DEF Operating
    <3>2. op'[u] = op[u] /\ Undisturbed(d) /\ Stage(op[u].pc, d)
      BY <1>0, <1>1, <1>D, <2>3, <3>1 DEF Stages
    <3>3. d # c
      BY <1>1, <2>3, <3>1, <3>2, OperationAlone
    <3>4. UNCHANGED <<is_enabled[d], out[d], in[d], queue[d]>>
      BY <1>0, <3>3, OperationElsewhere
    <3> QED
      BY <3>1, <3>2, <3>4 DEF Stage
  <2> QED
    BY <2>1, <2>2, <2>3
<1>4. ASSUME NEW d \in Connections, d # c, Undisturbed(d)'
      PROVE  Closed(d)' /\ Balance(d)'
  <2>1. UNCHANGED <<is_enabled[d], poolQueue[d], headers[d], out[d], in[d], queue[d]>>
    BY <1>0, <1>4, OperationElsewhere
  <2>2. Queued({Data}, d)' = Queued({Data}, d)
    BY <2>1 DEF Queued
  <2>3. Opening(d)' <=> Opening(d)
    BY <1>1, <1>4 DEF Opening
  <2> QED
    BY <1>0, <1>4, <1>D, <2>1, <2>2, <2>3 DEF Places, Closed, Balance
<1>5. Places'
  BY <1>1, <1>2, <1>4 DEF Places
<1>6. Destroying'
  <2>1. UNCHANGED <<app, freed, worker>>
    BY DEF Elsewhere, appVars, refs, workerVars
  <2>2. CASE app \in {"destroying", "destroyed", "gone", "dropped"}
    <3>1. worker = "exited" /\ t = App /\ op[t].pc \in DisableStages /\ op[t].event = 0
      BY <1>0, <1>1, <2>2, OperationGoes, Indices
      DEF AppRoles, OpRoles, Free, EnableStages, DisableStages
    <3>2. ~EnableIn(t) /\ ~Commit(t) /\ ~Enable(t)
      BY <3>1 DEF EnableIn, Commit, Enable, DisableStages, In
    <3>3. ASSUME NEW d \in Connections, Undisturbed(d), ~is_enabled[d] PROVE ~is_enabled'[d]
      <4>1. CASE d # c
        BY <1>0, <3>3, <4>1, OperationElsewhere
      <4>2. CASE d = c
        <5>1. op[t].pc \notin {"disableIn", "disableOut"}
          BY <1>0, <3>3, <4>2 DEF Stages, Stage
        <5> QED
          BY <1>0, <1>1, <3>1, <3>3, <4>2, <5>1
          DEF Operation, Enable, Resize, ResizeFails, EnableOut, EnableIn, UndoOut, UndoWait, Commit,
              Disable, DisableIn, WaitIn, DisableOut, WaitOut, Flush, Disabled, In, DisableStages,
              MarkEnabled, connections, status, StatusTypes
      <4> QED
        BY <4>1, <4>2
    <3>4. Free(App)' /\ op'[App].ok => ~is_enabled'[c]
      <4>1. CASE Disable(t)
        <5>1. is_enabled' = is_enabled
          BY <4>1 DEF Disable, connections, status
        <5>2. is_enabled[c] => op'[t].pc = "disableIn"
          <6>1. is_enabled[c] => OpGoto(t, "disableIn")
            BY <4>1 DEF Disable
          <6>2. "disableIn" \in OpLabels
            BY DEF OpLabels
          <6> QED
            BY <1>0, <6>1, <6>2, OpSteps
        <5> QED
          BY <3>1, <5>1, <5>2 DEF Free
      <4>2. CASE Disabled(t)
        BY <1>0, <1>1, <4>2 DEF Disabled, MarkEnabled, StatusTypes
      <4>3. CASE DisableIn(t) \/ WaitIn(t) \/ DisableOut(t) \/ WaitOut(t) \/ Flush(t)
        <5>1. \/ \E label \in {"waitIn", "disableOut", "waitOut", "flush", "check"} :
                   OpGoto(t, label)
              \/ Return(t, FALSE)
              \/ op' = op
          BY <4>3 DEF DisableIn, WaitIn, DisableOut, WaitOut, Flush
        <5>2. op'[t].pc # "none" \/ op'[t].ok = FALSE
          <6>1. CASE \E label \in {"waitIn", "disableOut", "waitOut", "flush", "check"} :
                       OpGoto(t, label)
            BY <1>0, <6>1, OpSteps DEF OpLabels
          <6>2. CASE Return(t, FALSE)
            BY <1>0, <6>2, OpSteps
          <6>3. CASE op' = op
            BY <3>1, <6>3 DEF DisableStages
          <6> QED
            BY <5>1, <6>1, <6>2, <6>3
        <5> QED
          BY <3>1, <5>2 DEF Free
      <4> QED
        BY <3>1, <4>1, <4>2, <4>3
        DEF Operation, DisableStages, Enable, Resize, ResizeFails, EnableOut, EnableIn, UndoOut,
            UndoWait, Commit, In
    <3> QED
      BY <1>0, <1>1, <1>D, <2>1, <3>1, <3>3, <3>4 DEF Destroying, Types, AppTypes
  <2>3. CASE app \notin {"destroying", "destroyed", "gone", "dropped"}
    BY <1>0, <2>1, <2>3 DEF Destroying
  <2> QED
    BY <2>2, <2>3
<1> QED
  BY <1>3, <1>5, <1>6 DEF RestInv


\* A step of a port: it has a header or an event, and a callback.
LEMMA PortRest ==
  ASSUME Control, RestInv, NEW c \in Connections, Elsewhere,
         PortStep(c) \/ \E n \in Formats[c] : EventCallback(c, n)
  PROVE  RestInv'
<1>0. /\ Types /\ PoolTypes /\ PortTypes /\ StatusTypes /\ Stages /\ Places /\ Destroying
  BY DEF Control, Types, RestInv
<1>1. UNCHANGED <<is_enabled, stranded, clashed, headers, op, app, freed, worker, hand, Current>>
  BY DEF Elsewhere, appVars, refs, workerVars, loop, history, Current, PortStep, OutCallback,
         InCallback, InEventCallback, Post, EventCallback, status, pools, sizes, connections
<1>2. /\ Destroying'
      /\ \A d \in Connections : /\ DataHand(d)' = DataHand(d)
                                /\ Opening(d)' <=> Opening(d)
                                /\ Undisturbed(d)' <=> Undisturbed(d)
  BY <1>0, <1>1 DEF Destroying, DataHand, Opening, Free, Undisturbed
<1>3. \A d \in Connections :
        /\ poolQueue[d] \in Nat /\ headers[d] \in Nat /\ Queued({Data}, d) \in Nat
        /\ out[d].has \in Nat /\ in[d].has \in Nat /\ DataHand(d) \in 0..1
  BY <1>0, PlaceNumbers
<1>4. \A t \in Threads : op[t].cx \in Connections
  BY <1>0, OpSteps DEF Operating
<1>5. CASE OutCallback(c)
  <2>1. /\ out' = [out EXCEPT ![c].has = @ - 1] /\ out[c].has > 0
        /\ queue' = [queue EXCEPT ![c] = Append(@, Data)]
        /\ UNCHANGED <<in, poolQueue>>
    BY <1>5 DEF OutCallback, pools
  <2>2. /\ out'[c].on = out[c].on /\ out'[c].cb = out[c].cb /\ out'[c].has = out[c].has - 1
        /\ Queued({Data}, c)' = Queued({Data}, c) + 1
    <3>1. Data \in 0..MaxBuffers /\ Data \in {Data}
      BY Indices DEF Data
    <3>2. Queued({Data}, c)' = Queued({Data}, c) + 1
      BY <1>0, <2>1, <3>1, QueueAppends
    <3>3. out'[c].on = out[c].on /\ out'[c].cb = out[c].cb /\ out'[c].has = out[c].has - 1
      <4>1. out' = [out EXCEPT ![c].has = @ - 1] =>
              /\ out'[c].cb = out[c].cb /\ out'[c].on = out[c].on
              /\ out'[c].has = IF c = c THEN out[c].has - 1 ELSE out[c].has
        BY <1>0, OutNumbers
      <4> QED
        BY <2>1, <4>1
    <3> QED
      BY <3>2, <3>3
  <2>3. ASSUME NEW d \in Connections, d # c
        PROVE  UNCHANGED <<out[d], queue[d]>> /\ Queued({Data}, d)' = Queued({Data}, d)
    <3>1. UNCHANGED <<out[d], queue[d]>>
      BY <1>0, <2>1, <2>3 DEF PortTypes
    <3> QED
      BY <3>1 DEF Queued
  <2>4. Stages'
    <3> SUFFICES ASSUME NEW t \in Threads, Undisturbed(op[t].cx)'
                 PROVE  Stage(op[t].pc, op[t].cx)'
        BY DEF Stages
    <3>1. Stage(op[t].pc, op[t].cx) /\ op'[t] = op[t] /\ op[t].cx \in Connections
      BY <1>0, <1>1, <1>2, <1>4 DEF Stages, Undisturbed
    <3>2. op[t].cx = c => op[t].pc \notin {"flush", "check"}
      BY <1>3, <2>1, <3>1 DEF Stage
    <3> QED
      BY <1>1, <2>1, <2>2, <2>3, <3>1, <3>2 DEF Stage
  <2>5. ASSUME Undisturbed(c)' PROVE Closed(c)' /\ Balance(c)'
    <3>1. Closed(c) /\ Balance(c)
      BY <1>0, <1>2, <2>5 DEF Places
    <3>2. is_enabled[c] \/ Opening(c)
      BY <1>3, <2>1, <3>1 DEF Closed
    <3>3. Balance(c)'
      <4>1. /\ UNCHANGED <<poolQueue[c], headers[c], in[c]>>
            /\ DataHand(c)' = DataHand(c)
        BY <1>1, <1>2, <2>1
      <4>2. /\ poolQueue[c] \in Nat /\ headers[c] \in Nat /\ Queued({Data}, c) \in Nat
            /\ out[c].has \in Nat /\ in[c].has \in Nat /\ DataHand(c) \in 0..1
        BY <1>3
      <4> QED
        BY <2>2, <3>1, <4>1, <4>2 DEF Balance
    <3> QED
      BY <1>1, <1>2, <2>1, <2>2, <3>1, <3>2, <3>3 DEF Closed
  <2>6. \A d \in Connections : d # c /\ Undisturbed(d)' => Closed(d)' /\ Balance(d)'
    BY <1>0, <1>1, <1>2, <2>1, <2>3 DEF Places, Closed, Balance
  <2> QED
    BY <1>2, <2>4, <2>5, <2>6 DEF RestInv, Places
<1>6. CASE InCallback(c)
  <2>1. /\ in' = [in EXCEPT ![c].has = @ - 1] /\ in[c].has > 0
        /\ poolQueue' = [poolQueue EXCEPT ![c] = @ + 1]
        /\ UNCHANGED <<out, queue>>
    BY <1>6 DEF InCallback
  <2>2. /\ in'[c].on = in[c].on /\ in'[c].events = in[c].events /\ in'[c].has = in[c].has - 1
        /\ poolQueue'[c] = poolQueue[c] + 1
    <3>1. in'[c].on = in[c].on /\ in'[c].events = in[c].events /\ in'[c].has = in[c].has - 1
      <4>1. in' = [in EXCEPT ![c].has = @ - 1] =>
              /\ in'[c].events = in[c].events /\ in'[c].on = in[c].on
              /\ in'[c].has = IF c = c THEN in[c].has - 1 ELSE in[c].has
        BY <1>0, InNumbers
      <4> QED
        BY <2>1, <4>1
    <3> QED
      BY <1>0, <2>1, <3>1 DEF PoolTypes
  <2>3. \A d \in Connections :
          /\ d # c => UNCHANGED <<in[d], poolQueue[d]>>
          /\ Queued({Data}, d)' = Queued({Data}, d)
    <3>1. \A d \in Connections : d # c => UNCHANGED <<in[d], poolQueue[d]>>
      BY <1>0, <2>1 DEF PortTypes, PoolTypes
    <3> QED
      BY <1>0, <2>1, <3>1, QueueSame
  <2>4. Stages'
    <3> SUFFICES ASSUME NEW t \in Threads, Undisturbed(op[t].cx)'
                 PROVE  Stage(op[t].pc, op[t].cx)'
        BY DEF Stages
    <3>1. Stage(op[t].pc, op[t].cx) /\ op'[t] = op[t] /\ op[t].cx \in Connections
      BY <1>0, <1>1, <1>2, <1>4 DEF Stages, Undisturbed
    <3>2. op[t].cx = c => op[t].pc \notin {"disableOut", "waitOut", "flush", "check"}
      BY <1>3, <2>1, <3>1 DEF Stage
    <3> QED
      BY <1>1, <2>1, <2>2, <2>3, <3>1, <3>2 DEF Stage
  <2>5. ASSUME Undisturbed(c)' PROVE Closed(c)' /\ Balance(c)'
    <3>1. Closed(c) /\ Balance(c)
      BY <1>0, <1>2, <2>5 DEF Places
    <3>2. is_enabled[c]
      BY <1>3, <2>1, <3>1 DEF Closed
    <3>3. Balance(c)'
      <4>1. /\ UNCHANGED <<headers[c], out[c]>>
            /\ DataHand(c)' = DataHand(c) /\ Queued({Data}, c)' = Queued({Data}, c)
        BY <1>1, <1>2, <2>1, <2>3
      <4>2. /\ poolQueue[c] \in Nat /\ headers[c] \in Nat /\ Queued({Data}, c) \in Nat
            /\ out[c].has \in Nat /\ in[c].has \in Nat /\ DataHand(c) \in 0..1
        BY <1>3
      <4> QED
        BY <2>2, <3>1, <4>1, <4>2 DEF Balance
    <3> QED
      BY <1>1, <2>1, <3>1, <3>2, <3>3 DEF Closed
  <2>6. \A d \in Connections : d # c /\ Undisturbed(d)' => Closed(d)' /\ Balance(d)'
    BY <1>0, <1>1, <1>2, <2>1, <2>3 DEF Places, Closed, Balance
  <2> QED
    BY <1>2, <2>4, <2>5, <2>6 DEF RestInv, Places
<1>7. CASE InEventCallback(c)
  <2>1. /\ in' = [in EXCEPT ![c].events = @ - 1] /\ in[c].events > 0
        /\ UNCHANGED <<out, queue, poolQueue>>
    BY <1>7 DEF InEventCallback, pools
  <2>2. \A d \in Connections :
          /\ in'[d].on = in[d].on /\ in'[d].has = in[d].has
          /\ d # c => in'[d].events = in[d].events
          /\ Queued({Data}, d)' = Queued({Data}, d)
    BY <1>0, <2>1, InNumbers, QueueSame
  <2>3. Stages'
    <3> SUFFICES ASSUME NEW t \in Threads, Undisturbed(op[t].cx)'
                 PROVE  Stage(op[t].pc, op[t].cx)'
        BY DEF Stages
    <3>1. Stage(op[t].pc, op[t].cx) /\ op'[t] = op[t] /\ op[t].cx \in Connections
      BY <1>0, <1>1, <1>2, <1>4 DEF Stages, Undisturbed
    <3>2. op[t].cx = c => op[t].pc \notin {"disableOut", "waitOut", "flush", "check"}
      BY <2>1, <3>1 DEF Stage
    <3> QED
      BY <1>1, <2>1, <2>2, <3>1, <3>2 DEF Stage
  <2>4. Places'
    BY <1>0, <1>1, <1>2, <2>1, <2>2 DEF Places, Closed, Balance
  <2> QED
    BY <1>2, <2>3, <2>4 DEF RestInv
<1>8. CASE \E port \in Ports : Post(c, port)
  <2>1. UNCHANGED <<in, out, queue, poolQueue>>
    BY <1>8 DEF Post, connections, ports, pools
  <2>2. \A d \in Connections : Queued({Data}, d)' = Queued({Data}, d)
    BY <1>0, <2>1, QueueSame
  <2>3. Stages'
    BY <1>0, <1>1, <2>1 DEF Stages, Stage, Undisturbed
  <2>4. Places'
    BY <1>0, <1>1, <1>2, <2>1, <2>2 DEF Places, Closed, Balance
  <2> QED
    BY <1>2, <2>3, <2>4 DEF RestInv
<1>9. ASSUME NEW n \in Formats[c], EventCallback(c, n) PROVE RestInv'
  <2>1. /\ queue' = [queue EXCEPT ![c] = Append(@, n)] /\ out[c].cb
        /\ UNCHANGED <<in, out, poolQueue>>
    BY <1>9 DEF EventCallback, pools
  <2>2. n \in 0..MaxBuffers /\ n \notin {Data}
    BY Indices DEF Data
  <2>3. \A d \in Connections : Queued({Data}, d)' = Queued({Data}, d)
    BY <1>0, <2>1, <2>2, QueueAppends
  <2>4. Places'
    BY <1>0, <1>1, <1>2, <2>1, <2>3 DEF Places, Closed, Balance
  <2>5. Stages'
    <3> SUFFICES ASSUME NEW t \in Threads, Undisturbed(op[t].cx)'
                 PROVE  Stage(op[t].pc, op[t].cx)'
        BY DEF Stages
    <3>1. Stage(op[t].pc, op[t].cx) /\ op'[t] = op[t] /\ op[t].cx \in Connections
      BY <1>0, <1>1, <1>2, <1>4 DEF Stages, Undisturbed
    <3>2. op[t].cx = c => op[t].pc # "check"
      BY <2>1, <3>1 DEF Stage
    <3>3. op[t].cx # c => queue'[op[t].cx] = queue[op[t].cx]
      BY <1>0, <2>1, <3>1 DEF PortTypes
    <3> QED
      BY <1>1, <2>1, <3>1, <3>2, <3>3 DEF Stage
  <2> QED
    BY <1>2, <2>4, <2>5 DEF RestInv
<1> QED
  BY <1>5, <1>6, <1>7, <1>8, <1>9 DEF PortStep

\* What the worker does to the connection it is at
LEMMA WorkerMoves ==
  ASSUME Control, NEW c \in Connections, c = Current, Closed(c), Balance(c),
         UNCHANGED <<is_enabled, headers>>, Opening(c)' <=> Opening(c),
         FillTake \/ Send \/ SendFails \/ DrainTake \/ ProcessData
  PROVE  Closed(c)' /\ Balance(c)'
<1>0. /\ Types /\ PoolTypes /\ PortTypes /\ WorkerTypes /\ HandRoles
      /\ Nothing # Data
      /\ poolQueue[c] \in Nat /\ headers[c] \in Nat /\ Queued({Data}, c) \in Nat
      /\ out[c].has \in Nat /\ in[c].has \in Nat
  BY PlaceNumbers, CurrentIs DEF Control, Types, Roles
<1>1. queue' = queue => Queued({Data}, c)' = Queued({Data}, c)
  BY <1>0, QueueSame
<1>2. CASE FillTake
  <2>1. /\ UNCHANGED <<in, out, queue>> /\ poolQueue[c] > 0
        /\ poolQueue' = [poolQueue EXCEPT ![c] = @ - 1]
        /\ worker = "fill" /\ worker' = "send" /\ hand' = Data /\ Current' = c
    BY <1>2 DEF FillTake, ports, loop, Current
  <2>2. DataHand(c) = 0 /\ DataHand(c)' = 1 /\ poolQueue'[c] = poolQueue[c] - 1
    BY <1>0, <2>1 DEF DataHand, PoolTypes
  <2>3. Balance(c)'
    BY <1>0, <1>1, <2>1, <2>2 DEF Balance
  <2> QED
    BY <1>0, <1>1, <2>1, <2>3 DEF Closed
<1>3. CASE Send
  <2>1. /\ UNCHANGED <<in, queue, poolQueue>> /\ out[c].on
        /\ out' = [out EXCEPT ![c].has = @ + 1]
        /\ worker = "send" /\ worker' = "fill" /\ hand = Data
    BY <1>0, <1>3 DEF Send, pools, HandRoles
  <2>2. out'[c].on = out[c].on /\ out'[c].has = out[c].has + 1
    <3>1. out' = [out EXCEPT ![c].has = @ + 1] =>
            /\ out'[c].cb = out[c].cb /\ out'[c].on = out[c].on
            /\ out'[c].has = IF c = c THEN out[c].has + 1 ELSE out[c].has
      BY <1>0, OutNumbers
    <3> QED
      BY <2>1, <3>1
  <2>3. DataHand(c) = 1 /\ DataHand(c)' = 0
    BY <2>1 DEF DataHand
  <2>4. Balance(c)'
    BY <1>0, <1>1, <2>1, <2>2, <2>3 DEF Balance
  <2>5. is_enabled[c] \/ Opening(c)
    BY <2>1 DEF Closed
  <2> QED
    BY <1>0, <1>1, <2>1, <2>2, <2>4, <2>5 DEF Closed
<1>4. CASE SendFails
  <2>1. /\ UNCHANGED <<in, queue, out>>
        /\ poolQueue' = [poolQueue EXCEPT ![c] = @ + 1]
        /\ worker = "send" /\ hand' = Nothing /\ hand = Data
    BY <1>0, <1>4 DEF SendFails, ports, HandRoles
  <2>2. DataHand(c) = 1 /\ DataHand(c)' = 0 /\ poolQueue'[c] = poolQueue[c] + 1
    BY <1>0, <2>1 DEF DataHand, PoolTypes
  <2>3. Balance(c)'
    BY <1>0, <1>1, <2>1, <2>2 DEF Balance
  <2> QED
    BY <1>0, <1>1, <2>1, <2>3 DEF Closed
<1>5. CASE DrainTake
  <2>1. /\ UNCHANGED <<in, out, poolQueue>> /\ queue[c] # <<>>
        /\ queue' = [queue EXCEPT ![c] = Tail(@)]
        /\ worker = "drain" /\ worker' = "process" /\ hand' = Head(queue[c]) /\ Current' = c
    BY <1>5 DEF DrainTake, ports, pools, loop, Current
  <2>2. DataHand(c) = 0
    BY <2>1 DEF DataHand
  <2>3. /\ Queued({Data}, c)' + DataHand(c)' = Queued({Data}, c) + DataHand(c)
        /\ Queued({Data}, c)' \in Nat /\ DataHand(c)' \in Nat
    <3>1. CASE Head(queue[c]) = Data
      <4>1. Queued({Data}, c)' = Queued({Data}, c) - 1 /\ Queued({Data}, c)' \in Nat
        BY <1>0, <2>1, <3>1, QueueTakes
      <4>2. DataHand(c)' = 1
        BY <2>1, <3>1 DEF DataHand
      <4> QED
        BY <1>0, <2>2, <4>1, <4>2
    <3>2. CASE Head(queue[c]) # Data
      <4>1. Queued({Data}, c)' = Queued({Data}, c)
        BY <1>0, <2>1, <3>2, QueueTakes
      <4>2. DataHand(c)' = 0
        BY <2>1, <3>2 DEF DataHand
      <4> QED
        BY <1>0, <2>2, <4>1, <4>2
    <3> QED
      BY <3>1, <3>2
  <2>4. Balance(c)'
    <3>1. /\ UNCHANGED <<headers[c], in[c], out[c], poolQueue[c]>>
          /\ Queued({Data}, c)' + DataHand(c)' = Queued({Data}, c) + DataHand(c)
      BY <2>1, <2>3
    <3>2. /\ poolQueue[c] \in Nat /\ headers[c] \in Nat /\ Queued({Data}, c) \in Nat
          /\ out[c].has \in Nat /\ in[c].has \in Nat /\ DataHand(c) = 0
          /\ Queued({Data}, c)' \in Nat /\ DataHand(c)' \in Nat
      BY <1>0, <2>2, <2>3
    <3> QED
      BY <3>1, <3>2 DEF Balance
  <2>5. Queued({Data}, c) = 0 => Queued({Data}, c)' = 0
    BY <2>2, <2>3
  <2> QED
    BY <1>0, <2>1, <2>4, <2>5 DEF Closed
<1>6. CASE ProcessData
  <2>1. /\ UNCHANGED <<out, queue>> /\ worker = "process" /\ worker' = "drain" /\ hand = Data
        /\ \/ in[c].on /\ in' = [in EXCEPT ![c].has = @ + 1] /\ poolQueue' = poolQueue
           \/ Release(c, Data) /\ in' = in
    BY <1>6 DEF ProcessData, Processed
  <2>2. DataHand(c) = 1 /\ DataHand(c)' = 0
    BY <2>1 DEF DataHand
  <2>3. CASE in[c].on /\ in' = [in EXCEPT ![c].has = @ + 1] /\ poolQueue' = poolQueue
    <3>1. in'[c].has = in[c].has + 1
      <4>1. in' = [in EXCEPT ![c].has = @ + 1] =>
              /\ in'[c].events = in[c].events /\ in'[c].on = in[c].on
              /\ in'[c].has = IF c = c THEN in[c].has + 1 ELSE in[c].has
        BY <1>0, InNumbers
      <4> QED
        BY <2>3, <4>1
    <3>2. Balance(c)'
      BY <1>0, <1>1, <2>1, <2>2, <2>3, <3>1 DEF Balance
    <3>3. is_enabled[c]
      BY <2>3 DEF Closed
    <3> QED
      BY <2>1, <3>2, <3>3 DEF Closed
  <2>4. CASE Release(c, Data) /\ in' = in
    <3>1. poolQueue'[c] = poolQueue[c] + 1
      BY <1>0, <2>4, ReleaseNumbers
    <3>2. Balance(c)'
      BY <1>0, <1>1, <2>1, <2>2, <2>4, <3>1 DEF Balance
    <3> QED
      BY <1>0, <1>1, <2>1, <2>4, <3>2 DEF Closed
  <2> QED
    BY <2>1, <2>3, <2>4
<1> QED
  BY <1>2, <1>3, <1>4, <1>5, <1>6

LEMMA WorkerOthers ==
  ASSUME Control, FillTake \/ Send \/ SendFails \/ DrainTake \/ ProcessData
  PROVE  \A d \in Connections \ {Current} :
           /\ UNCHANGED <<in[d], out[d], queue[d], poolQueue[d]>>
           /\ DataHand(d) = 0 /\ DataHand(d)' = 0
<1>0. /\ PoolTypes /\ PortTypes /\ Nothing # Data
  BY CurrentIs DEF Control, Types
<1>1. \A d \in Connections \ {Current} : DataHand(d) = 0
  BY DEF DataHand
<1>2. \A d \in Connections \ {Current} : DataHand(d)' = 0
  <2>1. \/ Current' = Current
        \/ hand' = Nothing
    BY DEF FillTake, Send, SendFails, DrainTake, ProcessData, Processed, loop, Current
  <2> QED
    BY <1>0, <2>1 DEF DataHand
<1>3. \A d \in Connections \ {Current} : UNCHANGED <<in[d], out[d], queue[d], poolQueue[d]>>
  BY WorkerAt DEF Control, WorkerStep
<1> QED
  BY <1>1, <1>2, <1>3

\* A step of the worker takes a header or an event from one place to the next.
LEMMA WorkerRest ==
  ASSUME Control, RestInv, WorkerStep, UNCHANGED <<appVars, stop_thread>>
  PROVE  RestInv'
<1>0. /\ Types /\ PoolTypes /\ PortTypes /\ StatusTypes /\ WorkerTypes
      /\ Roles /\ HandRoles /\ AppRoles /\ OpRoles
      /\ Stages /\ Places /\ Destroying
      /\ Current \in Connections /\ Nothing # Data
      /\ App \in Threads /\ Worker \in Threads /\ App # Worker /\ Threads = {App, Worker}
  BY CurrentIs, Indices DEF Control, Types, Roles, RestInv
<1>1. /\ UNCHANGED <<is_enabled, stranded, headers, app, freed>>
      /\ \A d \in Connections : Undisturbed(d)' => Undisturbed(d)
  BY <1>0, WorkerAt DEF appVars, refs, Undisturbed
<1>2. /\ op'[App] = op[App]
      /\ op'[Worker] = op[Worker] \/ (op[Worker].pc = "none" /\ op'[Worker].pc = "disable")
  <2>1. CASE op' = op
    BY <2>1
  <2>2. CASE ReconfigureEvent
    <3>1. op'[App] = op[App]
      BY <1>0, <2>2, OthersStay DEF ReconfigureEvent
    <3>2. op[Worker].pc = "none" /\ op'[Worker].pc = "disable"
      BY <1>0, <2>2 DEF ReconfigureEvent, Start, Free, StatusTypes
    <3> QED
      BY <3>1, <3>2
  <2> QED
    BY <1>0, <2>1, <2>2, WorkerAt
<1>3. Destroying'
  <2>1. op[App].cx \in Connections
    BY <1>0, OpSteps DEF Operating
  <2> QED
    BY <1>0, <1>1, <1>2, <2>1 DEF Destroying, Free, Types, AppTypes
<1>4. \A d \in Connections : Opening(d)' <=> Opening(d)
  BY <1>0, <1>2 DEF Opening, OpeningStages
<1>5. Stages'
  <2> SUFFICES ASSUME NEW t \in Threads, Undisturbed(op[t].cx)'
               PROVE  Stage(op[t].pc, op[t].cx)'
      BY DEF Stages
  <2>1. CASE t = Worker
    <3>1. op'[Worker].pc \in {"none", "disable"}
      <4>1. worker = "reconfigure" => Reconfigured
        BY DEF WorkerStep, Wake, FillTake, FillLeave, Send, SendFails, DrainTake, DrainLeave,
               DrainTimeout, DrainNext, ProcessData, ForwardEvent, ReconfigureEvent
      <4>2. op[Worker].pc = "none"
        BY <1>0, <4>1 DEF OpRoles, Reconfigured, Free
      <4> QED
        BY <1>2, <4>2
    <3> QED
      BY <2>1, <3>1 DEF Stage
  <2>2. CASE t = App
    <3>1. PICK c \in Connections : c = op[t].cx
      BY <1>0, OpSteps DEF Operating
    <3>2. op'[t] = op[t] /\ Undisturbed(c) /\ Stage(op[t].pc, c)
      BY <1>0, <1>1, <1>2, <2>2, <3>1 DEF Stages
    <3>3. op[t].pc \in EnableStages \cup {"none", "disable"}
      <4>1. worker # "exited"
        BY DEF WorkerStep, Wake, FillTake, FillLeave, Send, SendFails, DrainTake, DrainLeave,
               DrainTimeout, DrainNext, ProcessData, ForwardEvent, ReconfigureEvent, Reconfigured
      <4> QED
        BY <1>0, <2>2, <4>1 DEF OpRoles, AppRoles, Free
    <3>4. out'[c].on = out[c].on /\ is_enabled' = is_enabled
      BY <1>0, WorkerAt
    <3> QED
      BY <3>1, <3>2, <3>3, <3>4 DEF Stage, EnableStages
  <2> QED
    BY <1>0, <2>1, <2>2
<1>6. ASSUME NEW d \in Connections, Undisturbed(d)'
      PROVE  /\ Closed(d) /\ Balance(d) /\ Queued({Data}, d) \in Nat
             /\ poolQueue[d] \in Nat /\ headers[d] \in Nat
             /\ out[d].has \in Nat /\ in[d].has \in Nat /\ DataHand(d) \in 0..1
  BY <1>0, <1>1, <1>6, PlaceNumbers DEF Places
<1>7. Places'
  <2>1. CASE Wake \/ FillLeave \/ DrainLeave \/ DrainTimeout \/ ForwardEvent
             \/ ReconfigureEvent \/ Reconfigured
    <3>1. UNCHANGED <<out, queue, poolQueue>>
      <4>1. hand # Data => (Release(Current, hand) => poolQueue' = poolQueue)
        BY DEF Release
      <4>2. worker = "reconfigure" => hand # Data
        BY <1>0, Indices DEF HandRoles, Data
      <4> QED
        BY <2>1, <4>1, <4>2
        DEF Wake, FillLeave, DrainLeave, DrainTimeout, DrainNext, ForwardEvent, ReconfigureEvent,
            Reconfigured, connectionVars, connections, ports, pools
    <3>2. \A d \in Connections : in'[d].on = in[d].on /\ in'[d].has = in[d].has
      <4>1. in' = in \/ in' = [in EXCEPT ![Current].events = @ + 1]
        BY <2>1
        DEF Wake, FillLeave, DrainLeave, DrainTimeout, DrainNext, ForwardEvent, ReconfigureEvent,
            Reconfigured, connectionVars, connections, ports
      <4> QED
        BY <1>0, <4>1, InNumbers
    <3>3. \A d \in Connections : DataHand(d) = 0 /\ DataHand(d)' = 0
      BY <1>0, <2>1, Indices
      DEF DataHand, Wake, FillLeave, FillNext, DrainLeave, DrainTimeout, DrainNext, ForwardEvent,
          ReconfigureEvent, Reconfigured, Processed, HandRoles, Data
    <3>4. \A d \in Connections : Queued({Data}, d)' = Queued({Data}, d)
      BY <1>0, <3>1, QueueSame
    <3> QED
      BY <1>1, <1>4, <1>6, <3>1, <3>2, <3>3, <3>4 DEF Places, Closed, Balance
  <2>2. CASE FillTake \/ Send \/ SendFails \/ DrainTake \/ ProcessData
    <3>1. ASSUME NEW d \in Connections \ {Current}, Undisturbed(d)'
          PROVE  Closed(d)' /\ Balance(d)'
      <4>1. /\ UNCHANGED <<in[d], out[d], queue[d], poolQueue[d]>>
            /\ DataHand(d) = 0 /\ DataHand(d)' = 0
        BY <2>2, WorkerOthers
      <4>2. Queued({Data}, d)' = Queued({Data}, d)
        BY <4>1 DEF Queued
      <4> QED
        BY <1>1, <1>4, <1>6, <3>1, <4>1, <4>2 DEF Closed, Balance
    <3>2. ASSUME NEW e \in Connections, e = Current, Undisturbed(e)'
          PROVE  Closed(e)' /\ Balance(e)'
      BY <1>1, <1>4, <1>6, <2>2, <3>2, WorkerMoves
    <3> QED
      BY <3>1, <3>2 DEF Places
  <2> QED
    BY <2>1, <2>2 DEF WorkerStep
<1> QED
  BY <1>3, <1>5, <1>7 DEF RestInv

\* What the application does, it does before and after the operations.
LEMMA AppRest ==
  ASSUME Control, RestInv, AppActs
  PROVE  RestInv'
<1>0. /\ Types /\ PortTypes /\ StatusTypes /\ AppTypes /\ AppRoles
      /\ Stages /\ Places /\ Destroying /\ App \in Threads
  BY Indices DEF Control, Types, Roles, RestInv
<1>1. UNCHANGED connections
  BY DEF AppActs, GraphEnable, GraphDisable, GraphDestroy, AppStep, Drop, EnableNext, EnableCheck,
         EnableDone, StopWorker, JoinWorker, DisableNext, DisableCheck, DestroyNext,
         DestroyConnection, connectionVars
<1>2. UNCHANGED <<is_enabled, stranded, clashed, headers, in, out, queue, poolQueue>>
  <2>1. clashed' = clashed
    BY DEF AppActs, GraphEnable, GraphDisable, GraphDestroy, AppStep, Drop, EnableNext,
           EnableCheck, EnableDone, StopWorker, JoinWorker, DisableNext, DisableCheck,
           DestroyNext, DestroyConnection, workerVars, history
  <2> QED
    BY <1>1, <2>1 DEF connections, status, pools, sizes, ports
<1>3. \A d \in Connections : Queued({Data}, d)' = Queued({Data}, d) /\ DataHand(d)' = DataHand(d)
  <2>1. UNCHANGED <<hand, loop>> /\ (worker' = worker \/ (worker = "exited" /\ worker' = "wait"))
    BY <1>0
    DEF AppActs, GraphEnable, GraphDisable, GraphDestroy, AppStep, Drop, EnableNext, EnableCheck,
        EnableDone, StopWorker, JoinWorker, DisableNext, DisableCheck, DestroyNext,
        DestroyConnection, workerVars, AppRoles, AppGoto
  <2>2. \A d \in Connections : DataHand(d)' = DataHand(d)
    BY <2>1 DEF DataHand, loop, Current
  <2> QED
    BY <1>0, <1>2, <2>2, QueueSame
<1>4. /\ \A t \in Threads : \/ op'[t] = op[t]
                            \/ op[t].pc = "none" /\ op'[t].pc \in {"enable", "disable"}
      /\ op' = op \/ ~Free(App)'
  <2>1. op' = op \/ \E label \in {"enable", "disable"}, c \in Connections : Start(App, label, c, 0)
    <3>1. app \in {"enabling", "disabling", "destroying"} /\ next < ConnectionNum
            => next \in Connections
      BY <1>0, Indices DEF AppTypes
    <3> QED
      BY <3>1
      DEF AppActs, GraphEnable, GraphDisable, GraphDestroy, AppStep, Drop, EnableNext,
          EnableCheck, EnableDone, StopWorker, JoinWorker, DisableNext, DisableCheck,
          DestroyNext, DestroyConnection, connectionVars, Call, ReleaseConnection
  <2>2. CASE op' = op
    BY <2>2
  <2>3. CASE \E label \in {"enable", "disable"}, c \in Connections : Start(App, label, c, 0)
    <3>1. PICK label \in {"enable", "disable"}, c \in Connections : Start(App, label, c, 0)
      BY <2>3
    <3>2. label \in OpLabels /\ 0 \in 0..MaxBuffers
      BY Indices DEF OpLabels
    <3>3. op[App].pc = "none" /\ op'[App].pc = label
      BY <1>0, <3>1, <3>2, OpSteps DEF Free
    <3>4. \A t \in Threads \ {App} : op'[t] = op[t]
      BY <1>0, <3>1, OthersStay
    <3> QED
      BY <3>3, <3>4 DEF Free
  <2> QED
    BY <2>1, <2>2, <2>3
<1>5. Stages'
  <2> SUFFICES ASSUME NEW t \in Threads, Undisturbed(op[t].cx)'
               PROVE  Stage(op[t].pc, op[t].cx)'
      BY DEF Stages
  <2>1. CASE op'[t] = op[t]
    BY <1>0, <1>2, <2>1 DEF Stages, Stage, Undisturbed
  <2>2. CASE op'[t].pc \in {"enable", "disable"}
    BY <2>2 DEF Stage
  <2> QED
    BY <1>4, <2>1, <2>2
<1>6. Places'
  <2>1. \A d \in Connections : Opening(d) => Opening(d)'
    BY <1>4 DEF Opening, OpeningStages
  <2> QED
    BY <1>0, <1>2, <1>3, <2>1 DEF Places, Closed, Balance, Undisturbed
<1>7. Destroying'
  <2>1. /\ app' \in {"destroyed", "dropped"} /\ Free(App)' => app' = app
        /\ freed' = freed \/ /\ freed' = freed \cup {op[App].cx} /\ Free(App) /\ op[App].ok
                             /\ app \in {"destroyed", "dropped"}
                             /\ app' \in {"destroying", "gone"}
        /\ app \in {"destroying", "destroyed", "gone", "dropped"} =>
             app' \in {"destroying", "destroyed", "gone", "dropped"}
    <3>1. \A label, c, n : Start(App, label, c, n) /\ label # "none" => ~Free(App)'
      BY <1>0 DEF Start, Free, StatusTypes
    <3>2. app' \in {"destroyed", "dropped"} /\ Free(App)' => app' = app
      BY <3>1
      DEF AppActs, GraphEnable, GraphDisable, GraphDestroy, AppStep, Drop, EnableNext,
          EnableCheck, EnableDone, StopWorker, JoinWorker, DisableNext, DisableCheck,
          DestroyNext, DestroyConnection, Call, ReleaseConnection, AppGoto
    <3>3. \/ freed' = freed
          \/ /\ freed' = freed \cup {op[App].cx} /\ Free(App) /\ op[App].ok
             /\ app \in {"destroyed", "dropped"} /\ app' \in {"destroying", "gone"}
      BY DEF AppActs, GraphEnable, GraphDisable, GraphDestroy, AppStep, Drop, EnableNext,
             EnableCheck, EnableDone, StopWorker, JoinWorker, DisableNext, DisableCheck,
             DestroyNext, DestroyConnection, AppGoto, refs
    <3>4. app \in {"destroying", "destroyed", "gone", "dropped"} =>
            app' \in {"destroying", "destroyed", "gone", "dropped"}
      BY DEF AppActs, GraphEnable, GraphDisable, GraphDestroy, AppStep, Drop, EnableNext,
             EnableCheck, EnableDone, StopWorker, JoinWorker, DisableNext, DisableCheck,
             DestroyNext, DestroyConnection, Call, ReleaseConnection, AppGoto
    <3> QED
      BY <3>2, <3>3, <3>4
  <2>2. app' = app /\ Free(App)' => op' = op
    BY <1>4
  <2> QED
    BY <1>0, <1>2, <1>4, <2>1, <2>2 DEF Destroying, Free, Undisturbed
<1> QED
  BY <1>5, <1>6, <1>7 DEF RestInv

LEMMA StepRest ==
  ASSUME Control, OrderInv, RestInv, [Next]_vars
  PROVE  RestInv'
<1>1. CASE UNCHANGED vars
  <2>1. UNCHANGED <<is_enabled, stranded, clashed, headers, in, out, queue, poolQueue, op, app,
                    freed, worker, hand, Current>>
    BY <1>1
    DEF vars, connectionVars, connections, status, pools, sizes, ports, appVars, refs, workerVars,
        loop, history, Current
  <2>2. \A d \in Connections : /\ Queued({Data}, d)' = Queued({Data}, d)
                               /\ DataHand(d)' = DataHand(d)
                               /\ Opening(d)' <=> Opening(d)
                               /\ Undisturbed(d)' <=> Undisturbed(d)
    BY <2>1, QueueSame DEF Control, Types, DataHand, Opening, Undisturbed
  <2>3. Stages'
    BY <2>1 DEF RestInv, Stages, Stage, Undisturbed
  <2>4. Places'
    BY <2>1, <2>2 DEF RestInv, Places, Closed, Balance
  <2>5. Destroying'
    BY <2>1 DEF RestInv, Destroying, Free, Undisturbed
  <2> QED
    BY <2>3, <2>4, <2>5 DEF RestInv
<1> QED
  BY <1>1, StepCases, AppRest, WorkerRest, OperationRest, PortRest

LEMMA RestInvariant == Spec => [](CountsExact /\ OrderInv /\ RestInv)
<1>1. Init => OrderInv /\ RestInv
  BY InitOrder, InitRest
<1>2. CountsExact /\ OrderInv /\ RestInv /\ [Next]_vars => OrderInv' /\ RestInv'
  BY StepOrder, StepRest DEF CountsExact
<1> QED
  BY <1>1, <1>2, CountsInvariant, PTL DEF Spec

\* When mmal_connection_disable compares the queue of the pool with the pool, every header has
\* come back, and every event but the one whose handling disables the connection - for any
\* number of connections, of buffers and of events, whatever fails, and however early the
\* output ports tell of new formats: on every connection but those that the worker began to
\* reconfigure while the application was enabling them, and those whose enable failed half way.
THEOREM AllComeBack == Spec => []AllBack
<1>1. CountsExact /\ OrderInv /\ RestInv => AllBack
  <2> SUFFICES ASSUME CountsExact, OrderInv, RestInv, NEW t \in Threads, op[t].pc = "check",
                      Undisturbed(op[t].cx)
               PROVE  /\ poolQueue[op[t].cx] = headers[op[t].cx]
                      /\ eventPool[op[t].cx] + (IF t = Worker THEN 1 ELSE 0) = EventNum
      BY DEF AllBack, In
  <2>0. /\ Control /\ Types /\ PortTypes /\ StatusTypes /\ Roles /\ OpRoles /\ HandRoles
        /\ Stages /\ Places /\ EventsExact /\ ~Free(t)
        /\ Threads = {App, Worker}
    BY Indices DEF CountsExact, Control, Types, Roles, RestInv, Free
  <2>1. PICK c \in Connections : c = op[t].cx
    BY <2>0, OpSteps DEF Operating
  <2>2. /\ in[c].has = 0 /\ in[c].events = 0 /\ out[c].has = 0
        /\ queue[c] = <<>> /\ Balance(c)
    BY <2>0, <2>1 DEF Stages, Stage, Places
  <2>3. /\ DataHand(c) = 0
        /\ t = App => worker = "exited"
    BY <2>0, <2>1, OperationAlone DEF DisableStages
  <2>4. Queued({Data}, c) = 0 /\ Queued(Asking, c) = 0
    <3>1. queue[c] = <<>> /\ queue[c] \in Seq(0..MaxBuffers)
      BY <2>0, <2>2 DEF PortTypes
    <3> QED
      BY <3>1, CountType DEF Queued
  <2>5. poolQueue[c] = headers[c]
    <3>1. poolQueue[c] \in Nat /\ headers[c] \in Nat
      BY <2>0, PlaceNumbers
    <3> QED
      BY <2>2, <2>3, <2>4, <3>1 DEF Balance
  <2>6. EventHand(c) = IF t = Worker THEN 1 ELSE 0
    <3>1. CASE t = Worker
      <4>1. worker = "reconfigure" /\ Current = c /\ hand # Data
        BY <2>0, <2>1, <3>1, Indices DEF OpRoles, HandRoles, Free, Data
      <4> QED
        BY <3>1, <4>1 DEF EventHand, EventAtHand
    <3>2. CASE t # Worker
      BY <2>0, <2>3, <3>2 DEF EventHand, EventAtHand
    <3> QED
      BY <3>1, <3>2
  <2>7. eventPool[c] + EventHand(c) = EventNum
    <3>1. eventPool[c] \in Nat /\ EventHand(c) \in 0..1
      BY <2>0, EventNumbers
    <3>2. eventPool[c] + Queued(Asking, c) + in[c].events + EventHand(c) = EventNum
      BY <2>0 DEF EventsExact
    <3> QED
      BY <2>2, <2>4, <3>1, <3>2
  <2> QED
    BY <2>1, <2>5, <2>6, <2>7
<1> QED
  BY <1>1, RestInvariant, PTL

\* Nobody has a header of a pool that is being resized or has been destroyed, with the same
\* connections excepted, however early the output ports tell of new formats.
THEOREM PoolsRest == Spec => []PoolAtRest
<1>1. CountsExact /\ OrderInv /\ RestInv => PoolAtRest
  <2> SUFFICES ASSUME CountsExact, OrderInv, RestInv
               PROVE  PoolAtRest
      OBVIOUS
  <2>0. /\ Control /\ Types /\ PortTypes /\ StatusTypes /\ AppTypes /\ Roles /\ AppRoles /\ OpRoles
        /\ Stages /\ Places /\ Destroying /\ Threads = {App, Worker}
    BY Indices DEF CountsExact, Control, Types, Roles, RestInv
  <2>1. ASSUME NEW c \in Connections, Undisturbed(c), ~is_enabled[c], ~Opening(c),
               DataHand(c) = 0
        PROVE  HeadersHome(c)
    <3>1. in[c].has = 0 /\ out[c].has = 0 /\ Queued({Data}, c) = 0
      BY <2>0, <2>1 DEF Places, Closed
    <3>2. Data \notin Range(queue[c])
      BY <2>0, <3>1, NoneQueued
    <3>3. ~(worker \in {"send", "process"} /\ Current = c /\ hand = Data)
      BY <2>1 DEF DataHand
    <3> QED
      BY <3>1, <3>2, <3>3 DEF HeadersHome
  <2>2. ASSUME NEW t \in Threads, op[t].pc = "resize", Undisturbed(op[t].cx)
        PROVE  HeadersHome(op[t].cx)
    <3>1. PICK c \in Connections : c = op[t].cx
      BY <2>0, OpSteps DEF Operating
    <3>2. ~is_enabled[c]
      BY <2>0, <2>2, <3>1 DEF Stages, Stage
    <3>3. ~Opening(c) /\ DataHand(c) = 0
      BY <2>0, <2>2, <3>1, OperationAlone DEF Free, OpeningStages
    <3> QED
      BY <2>1, <2>2, <3>1, <3>2, <3>3
  <2>3. ASSUME NEW c \in freed, Undisturbed(c) PROVE HeadersHome(c)
    <3>1. /\ c \in Connections /\ ~is_enabled[c] /\ worker = "exited"
          /\ app \in {"destroying", "destroyed", "gone", "dropped"}
      BY <2>0, <2>3 DEF AppTypes, Destroying, AppRoles
    <3>2. ~Opening(c) /\ DataHand(c) = 0
      BY <2>0, <3>1
      DEF Opening, OpeningStages, DataHand, OpRoles, DisableStages, EnableStages, Free
    <3> QED
      BY <2>1, <2>3, <3>1, <3>2
  <2> QED
    BY <2>2, <2>3 DEF PoolAtRest, In
<1> QED
  BY <1>1, RestInvariant, PTL
=============================================================================
