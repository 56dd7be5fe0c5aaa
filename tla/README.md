# A verification project for the camera program

This directory models the concurrent core of the visual-navigation program in
`src/Project`, of the MMAL library it runs on (`src/Resource/interface/mmal`), and the
compiler and emulator of the GPU language that comes with it (`src/QPULib`).
TLC checks small instances; TLAPS proves the main invariants for every value of the
constants. All paths below start at the repository's `src/`.

## 1. The system

`picam` (`Project/picam.cpp`) opens the Raspberry Pi camera, copies each frame into an
OpenGL texture and runs shaders over it. The camera class (`Project/camera.cpp`) sits on
MMAL: a *component* stands for a processing block on VideoCore, it has *ports*, and
*buffer headers* travel through a port, empty one way and filled the other.

| Part | State it keeps | Operations | Interacts with | Hard behaviour | Correct when |
| --- | --- | --- | --- | --- | --- |
| `CCameraOutput` (`Project/camera.cpp`) | `OutputQueue`, `BufferPool`, `BufferPort`, `LockedBuffer` | `Init`, `OnVideoBufferCallback`, `BeginReadFrame`, `EndReadFrame`, `ReadFrame`, `Release` | port (send, callback), pool, queue; the callback runs on another thread | two threads recycle headers through the same queues; a length read without a lock; refused sends; tear-down while callbacks run | headers are never lost or in two places; frames in order; the camera and the reader are both served; tear-down is orderly and ends |
| `CCamera`, `StartCamera`, `StopCamera` | `GCamera`, the component, the output | set-up and tear-down | component, connection, `CCameraOutput` | one of many steps fails | what was made is unmade once, in an order that uses nothing already destroyed |
| queue (`mmal_queue.c`) | list, `length`, `semaphore`, `lock` | put, put_back, get, wait, timedwait, length | everything | a claim on the semaphore comes before the lock; the length is read outside it | an atomic FIFO; a claim finds a header; nobody sleeps beside a header |
| pool and header (`mmal_pool.c`, `mmal_buffer.c`) | headers, reference counts, owner | create, release, resize, destroy | queue | a count without a lock | a released header goes to its owner, once |
| port (`mmal_port.c`) | `is_enabled`, `is_paused`, transit count, internal queue, connected port | enable, disable, send, flush, pause, connect | component, client callback | five locks; a wait for buffers in transit; failures half-way | disabling waits for all buffers; no send to a disabled port |
| VideoCore client (`mmal_vc_api.c`, `mmal_vc_client.c`) | `callback_queue`, event pool; the waiters, `refcount` and `usecount` of the process's client | send, receive, events, disable, flush; requests that wait for a reply | VCHIQ thread, action thread | a message and its bulk transfer are two calls; waiters are shared; who runs the callbacks | a reply reaches its caller; transfers meet their messages; every buffer comes back once |
| component (`mmal_component.c`) | two reference counts, action thread and its mutex, registry | create, destroy, acquire, release, actions | ports | destruction is deferred while ports are referenced | destroyed once, after the last reference |
| connection (`util/mmal_connection.c`) | `is_enabled`, queue, pool, reference count | create, enable, disable, reconfigure, destroy | two ports, a graph | partial failures; format changes | all headers are back when it is disabled; its pool is resized and freed at rest |
| graph (`util/mmal_graph.c`) | the connections, `sema`, `stop_thread` | enable, disable, destroy; a worker thread | connections | the worker sleeps when it finds no work; a timeout; both threads enable and disable | no wake-up is lost |
| main loop (`picam.cpp`) | loop counter, times | poll, read, draw | `CCamera` | a spin loop | it is served |
| QPULib compiler (`QPULib/Lib/Source`, `Target`) | instruction sequences, control-flow graph, live sets | one pass after another | emulator, hardware | conditions shared by nested statements, fixpoints, hardware constraints | the code has the meaning of its source and meets the constraints |
| QPULib interpreter and emulator | environment, heap; registers, VPM, DMA of each QPU | a statement, an instruction | each other | loads and stores in flight | both compute the same |
| VCOS (`interface/vcos`) | – | mutexes, semaphores, timed waits | pthreads | deadline arithmetic | – |

`PROJECT.json` lists each part with its status, and the hazards with the line where each bites.

## 2. The modules

| Module | What it is |
| --- | --- |
| `CameraOutput` | the pipeline of `CCameraOutput`, with the action thread, VideoCore and the application interleaved |
| `FrameMailbox` | what the pipeline promises its reader: a mailbox of two frames in order |
| `CameraSetup` | `StartCamera` and `StopCamera` with every failure, and the callbacks that run meanwhile |
| `HeaderPort` | what a port promises its client: it takes headers only while enabled, lends none twice, gives all back |
| `MMALPort` | one port: senders, callbacks, and threads that enable, disable, flush, pause and resume it |
| `MMALComponent` | the two reference counts of a component, its release by several threads and its destruction |
| `MMALQueue` | `mmal_queue.c` at the grain of its mutex, its semaphore and each pointer |
| `BufferQueue` | what the queue promises its callers: atomic put and get |
| `MMALClient` | the process's client of VideoCore: waiters, messages and bulk transfers, the use of the service |
| `MMALConnection` | connections with a pool and a queue: their operations and callbacks |
| `MMALGraph` | composes `MMALConnection` with the worker thread and the application of a graph |
| `QPUSyntax` | the source language, the instructions, lanes and integers of QPULib |
| `QPUInterpreter`, `QPUTranslate`, `QPUTarget` | its interpreter; the translation to instructions; the passes from liveness to label removal |
| `QPUKernel` | composes the three: compile a kernel, interpret it, emulate the result |
| `CameraOutputProofs`, `CameraSetupProofs`, `MMALPortProofs`, `MMALComponentProofs`, `MMALQueueProofs`, `MMALClientProofs`, `MMALGraphProofs` | the theorems and their proofs |
| `SequenceFacts` | the lemmas they share, about sequences in which an element occurs once and about cardinalities, and induction |
| `MC...` | the instances TLC checks, one for each detailed module with a next-state relation |

### CameraOutput

| State | Code |
| --- | --- |
| `poolQ`, `evPool` | `BufferPool->queue`; the event pool of the component |
| `gpu`, `cbQ`, `outQ` | headers VideoCore holds; `callback_queue`; `OutputQueue` |
| `outQState` | whether `OutputQueue` is NULL, live or freed |
| `enabled`, `transit`, `actLock` | `is_enabled`, `transit_buffer_headers`, the holder of `action_mutex` |
| `pc`, `cur`, `hand` | where a thread is, the header its callback is about, `existing_buffer` or `new_buffer` |
| `locked` | `LockedBuffer` |
| `stamp`, `clock`, `lastRead`, `lost`, `failures`, `crashed` | bookkeeping: frame numbers, headers nothing refers to, refused sends, a fault |

Each step of `OnVideoBufferCallback` that touches shared state is an action: `CheckLength`,
`Displace`, `ReleaseExisting`, `CheckEnabled`, `GetNew`, `SendNew`, `PutOutput`,
`ReturnFromCallback`. The tail of `EndReadFrame` is the same code, so it uses the same three
actions on the application's thread. `Release` is `DestroyOutputQueue`, `PoolDestroy` and the
disable of the port step by step (`DisablePort`, `LockAction`, `VCDisabled`, `DrainTake`,
`DrainDone`, `WaitTransit`) up to `FreePool`; while it drains, the application runs callbacks itself.

Abstractions, and why they are sound here:

- An operation on a queue is one step. `MMALQueue` shows that put and get are atomic.
  `mmal_queue_length` is a separate step. The short time in which the length is ahead of the
  semaphore cannot be seen by the callback: the callbacks are the only putters of
  `OutputQueue`, and they exclude each other by `action_mutex`. In the loops over
  `callback_queue` a failed get only makes the loop test the length again.
- A header carries a number instead of pixels. Numbers saturate at `MaxStamp`; the ordering
  properties say nothing of frames beyond it.
- VideoCore fills any buffer it has, in any order, while it captures, and returns the rest
  before it answers a disable. It is external; the code relies on exactly this
  (the assertion at `mmal_vc_api.c:312`).
- Use of a freed queue either faults (`FaultOnFreedQueue`) or goes on as if the memory were intact.
- `IN_TRANSIT_WAIT` is a wait for a count of zero. `mmal_port_disable` does not fail.
- `Init` starts where `EnablePortCallbackAndCreateBufferPool` has enabled the port. A
  failed `mmal_queue_create` faults when there is no resizer, as the error path does.
- The assertions that VCOS compiles out of release builds are not modelled as faults.

The camera's port is written into this module as far as the camera uses it, and `MMALPort` models the same code
for any client. `HeaderPort` ties the two together: both are shown to implement it (`ImplementsPort`), so
the pipeline relies on nothing but what the detailed port keeps. Here a header is lent while it is in
`gpu` or `cbQ`; it is given back as its callback begins, and the callback is dropped when
`mmal_port_disable` returns. Events are not lent: they belong to the component's pool, and `HeaderPort`
would not let one be sent.

### MMALQueue

`first`, `next` and `last` are the pointers, with `last = None` for `&queue->first`. Each
assignment under the lock is a step of its own, so nothing about atomicity is assumed. A
getter's claim on the semaphore (`Get`, `WakeUp`) precedes its lock (`LockGet`), as in the code.
`ReadLength` takes no lock. Callers put headers they hold; a header that leaves is held by the
caller. The queue outlives its callers; its destruction is modelled where it matters, in
`CameraOutput`.

### CameraSetup

| State | Code |
| --- | --- |
| `exists`, `held`, `bufferPort` | the objects that are allocated; the pointers of `Init`'s locals, then of the object, that are not NULL; `BufferPort` |
| `component`, `payloads` | whether a component is there, or released but pinned; its `refcount_ports` |
| `enabled`, `tunnel`, `connEnabled` | the enabled ports, whether the camera is connected to the resizer, `Connection->is_enabled` |
| `running`, `freeEvents` | the callback the action thread of each component is in; the free event headers |
| `pc`, `convert`, `stopping`, `fault` | where the application is, whether a resizer is needed, whether it is in `StopCamera`, a use of a null or freed object |

One action per call the code makes: `CreateCamera`, `EnableControlPort`, `ConfigureCamera`,
`NewOutput`, `CreateResizer`, `Connect`, `EnableTunnel`, `CreatePool`, `EnableBufferPort`,
`FillPort`, `CreateOutputQueue`, `StartCapture`, and for tear-down the steps of the error path of
`CCameraOutput::Init` (`Error...`) and of `CCameraOutput::Release`, each with its `if`. Any
call may fail. Abstractions: disabling a port is one step, taken when no callback of its
component runs (`MMALPort` and `CameraOutput` have the steps); disables of VideoCore succeed;
VideoCore accepts the tunnel, so the core owns no connection pool; a `mmal_connection_create`
that fails leaves NULL; the payloads of a pool are freed in one step.

### MMALPort

| State | Code |
| --- | --- |
| `isEnabled`, `isPaused`, `callback`, `queue`, `transit` | `is_enabled`, `is_paused`, `buffer_header_callback`, `queue_first`, `transit_buffer_headers` |
| `hasPool`, `component`, `done` | `has_pool`, the headers VideoCore holds, `callback_queue` |
| `connLock`, `sendLock`, `actLock` | the holders of `connection_lock`, `send_lock` and the component's `action_mutex` |
| `pc`, `back`, `cur`, `hand`, `chain` | where a thread is and returns to; the header of its callback, of its send, and those a flush has taken |

Threads are senders, controllers and the action thread; a callback, whichever thread runs it,
may send again. `transit_lock` protects single statements, so those are steps. The port's own
lock is taken inside `connection_lock` by the same two calls and is left out. VideoCore
(external) returns headers in any order, may refuse a send, an enable, a disable or a
flush, has returned every header when it answers a disable (the comment at `mmal_vc_api.c:310`), and
answers a flush when it likes (`mmal_port.h:170`). After a disable that failed, a header
that comes back finds its context freed (`ReturnFreedContext`), and an event that arrives while the
callback is being cleared may be delivered through NULL (`EventCall`): both are steps to a crash,
after which nothing is claimed except that headers and counts were right. Not modelled: a
port connected to another, and events that a client sends to a port.

For `HeaderPort` the port is accepting while `is_enabled`, has the client's callback while
`buffer_header_callback` is set, and is lent every header that has passed the test of `is_enabled` in
`mmal_port_send_buffer` (`Offered` before it) and has not been handed to a callback or refused. So
a header in the internal queue, in a chain that a flush has taken, or in the hand of a thread that sends is lent as much
as one that VideoCore has.

### MMALComponent

| State | Code |
| --- | --- |
| `refcount`, `refcountPorts`, `destructionPending` | `refcount`, `refcount_ports`, `destruction_pending` |
| `enabled`, `action`, `actionQuit` | the ports with `is_enabled`; whether the action thread waits, runs callbacks or has ended; `action_quit` |
| `component` | there, freed, or left allocated by a `pf_destroy` that failed |
| `held`, `pc`, `arg` | which thread has each reference; where a thread is; the reference it releases |

A reference is a token: a thread acquires one for itself or for another thread, needs one to
acquire another, and gives one up with `Release`. A reference to a port is what a payload buffer
has. `mmal_component_release_internal` is `CountDown`, `DisablePort` for each enabled port,
`PortsDisabled`, `CheckPorts` and, when it delays the destruction, `TraceDelayed`;
`mmal_port_release` is `CountDownPorts`; `mmal_component_destroy_internal` is `Deregister`,
`JoinAction` and `PfDestroy`. What is done under `private->lock` is one step, because the code
never waits while it holds it. Disabling a port is one step, which succeeds, taken while no callback
runs (`MMALPort` has the steps). Creation is over when the model starts: until it returns,
one thread alone has the component. Callbacks give up no references.

### MMALClient

| State | Code |
| --- | --- |
| `refcount`, `usecount`, `inited` | the fields of `client`; `usecount` may become negative, as in the code |
| `poolSem`, `waiterInUse`, `waiterSem` | `waitpool.sem`, `inuse` and `sem` of each waiter |
| `bulkLock`, `sentData` | the holder of `bulk_lock`; the ports with `sent_data_on_port` |
| `pc`, `call`, `waiter`, `claimed` | where a thread is, its message and its waiter; whether its component holds a `mmal_vc_use` |
| `open`, `inUse`, `wire`, `bulks` | VCHIQ: the service, the messages and the bulk transfers queued |
| `receiving`, `requests` | VideoCore: messages whose transfer it awaits, requests it has to answer |
| `unused`, `broken` | history: a `vchiq_use_service` failed; a message went out without its transfer |

`mmal_vc_sendwait_message` and `mmal_vc_send_message` are one chain of steps: `LockBulk`,
`GetWaiter`, `ScanWaiters`, `UseForCall`, `QueueMessage`, `QueueBulk`, `WaitReply`,
`UnuseForCall`, `FreeWaiter`, `PostWaiter`, of which a message without a reply or a transfer
leaves some out. A region under `client.lock` is one step, since no thread waits inside it. A thread is a
component with one port, whose `send_lock` lets one call in at a time; a visitor makes one request
without a component (`mmal_vc_api_drm.c`). VideoCore takes messages and transfers each in order,
and may answer requests in any order. The version of VideoCore's server is one that knows the
synchronising flush (`major >= 15`). After a failed bulk transfer the assertion at
`mmal_vc_client.c:581` stops the model.

### MMALConnection and MMALGraph

| State | Code |
| --- | --- |
| `is_enabled`, `queue` | of the connection; an entry of the queue is `Data` or the number of buffers a format asks for |
| `poolQueue`, `headers`, `allocated` | the length of the pool's queue, `headers_num`, `headers_alloc_num` |
| `out`, `in`, `eventPool` | the ports: `is_enabled`, the headers they hold; the event headers left |
| `wanted`, `bufferNum` | `buffer_num_recommended` and `buffer_num` of the output port |
| `op` | the operation a thread is in, step by step: `mmal_connection_enable`, `_disable`, `_reconfigure` |
| `calling`, `sema` | callbacks that have queued a header and not yet posted; `graph->sema` |
| `app`, `next`, `refcount`, `held`, `freed` | the loops of `mmal_graph_enable`, `_disable`, `_destroy`; references to connections |
| `worker`, `visited`, `connection_current`, `run_again`, `hand` | `graph_worker_thread` and the two loops of `graph_do_processing`, with the header it has taken |
| `stranded`, `clashed` | history: an error path that left the output port enabled or headers in the queue; the worker in an operation on the connection that the application is enabling |
| `refused`, `skipped` | history: a port that refused; a queue left by the timeout |

Headers are counted, not named: no property tells two of a pool apart. The ports are external here
(`MMALPort` is about them): an enabled port takes headers and gives them back one after the other;
disabling one waits for all of them and for the callbacks. A queue and a pool's queue are atomic
(`MMALQueue`). The 20 ms timeout of the second loop may strike whenever a queue is not empty. A
semaphore value of `MaxSema` stands for itself and everything above it, so that a post is never
forgotten and a wait may or may not lower it. `Failing` says which steps of a faulty connection may
fail. `mmal_pool_resize` is one step, and so are the formats of both ports (`Commit`). Each
operation writes `is_enabled` last, also when it has failed (`MarkEnabled`). Connections are neither
tunnelled nor direct, and the graph is not inside a component.

No lock keeps the two threads apart. The worker exists before `mmal_graph_enable` has enabled the
first connection, an enabled port may tell of a format at once, and the worker then reconfigures the
connection, whether or not the application has left it. `clashed` names the connections for which it
had not. In the code the two may then free and allocate one pool at the same time, and what is in
memory afterwards is no longer what the model's counts say: of such a connection the model claims
nothing from there on.

### QPUSyntax, QPUInterpreter, QPUTranslate, QPUTarget, QPUKernel

A source statement is a record (`Assign`, `Where`, `If`, ...), a kernel a statement. `Exec` of
`QPUInterpreter` takes the top statement off the interpreter's stack. `QPUTranslate` and `QPUTarget`
are pure: each function of the compiler is an operator on a generator (`code` so far, the
variables and labels used) or on a sequence of instructions. `QPUKernel` compiles each kernel with
the passes in the order of `compileKernel`, interprets it (`Interpret`) and emulates the
compiled code, one action per kind of instruction (`EmuALU`, `EmuBR`, ...). Everything the program has not
written starts as garbage. Abstractions: `Lanes` lanes of `Width`-bit integers for 16 of 32 bits,
`NumRegs` registers in a file for 32; one QPU; no floats, uniforms and strides other than
the ones that load and store set up themselves. A load or store moves its lanes in one step, at the
instruction at which the emulator does. An instruction is what the passes can tell apart:
the set-up words of DMA and VPM are loads of some immediate. When registers run out the compiler exits
(`stage = "exit"`).

## 3. What the runs check

| Run | Question | Answer |
| --- | --- | --- |
| `camera_reader` | With a reader that pairs its calls and one refused send: are frames read in order, does recycling always find a header, is `OutputQueue` a mailbox of two; is a polling reader served, does the camera get buffers whether or not anybody reads, and does `Release` end? | yes |
| `camera_any` | With any caller, an event in circulation, a refused send and a stop at any moment: is each header in one place, is the count exact, is the pool freed only when quiet, does the port keep the promise of `HeaderPort`? | yes |
| `release_queue` | Does `OutputQueue` outlive the callbacks? | **no**: `Release` frees it first |
| `setup_any` | Whatever fails, with or without a resizer: do callbacks find their object, do payloads pin their component, is everything cleaned up and no pointer left dangling, but for two faults told below? | yes |
| `queue_any` | Do four concurrent calls on a queue of three headers behave as an atomic queue, with one header also put in front, and does a header reach the threads that wait, even with an unfair mutex? | yes |
| `queue_length` | With one getter, does a get after a positive length always succeed? | **no**: the length runs ahead of the semaphore |
| `port_any` | With a sender, two controllers, an event and a VideoCore that may refuse anything: is each header in one place and counted, is it never called back through NULL, does disable return with every header back, are headers never overtaken, does nobody wait in a circle, and does all of it implement `HeaderPort`? | yes |
| `component_any` | With three threads, two references to a component and two to its ports, given up in any order: does exactly one thread destroy it, only when nobody has a reference and the action thread has ended, and is it destroyed in the end? | yes |
| `client_any` | With two components and a visitor, a waiter fewer than threads, and VCHIQ calls that may fail: does each reply reach its caller, does whoever passes the semaphore find a waiter, does each transfer meet its message, does no flush overtake data, is the service open and in use for all who need it? | yes |
| `graph_any` | With two connections, one of which may fail in most steps and changes its format at any time, also while the graph is being enabled: are all headers back when a connection is disabled, is no pool resized or freed while a header is out, does the worker never sleep on work? | yes |
| `qpu_any` | For 318 kernels of nested conditions, loops, loads and stores: does the compiled code print and store what the source does, and can the hardware execute it? | yes |
| `qpu_encode` | For kernels that use the lane's number beside a variable: can every operand be encoded? | **no**: a special register is taken for the general one with its number |

Two faults of the set-up have no run of their own. `CameraSetup` has them as steps, and
`PointersGood` says that nothing else goes wrong. When `mmal_queue_create` fails, the error path at
`Project/camera.cpp:390` reads `resizer->output[0]`, and `resizer` is NULL unless a conversion was
asked for (`ErrorPoolOfNoResizer`). When the capture does not start while a resizer is in use,
`Project/camera.cpp:254` destroys the camera component, which nothing pins, before the connection is
taken down through one of its ports (`UseFreedPort`). In the same way `AllBack` and `PoolAtRest`
leave out two kinds of connections (`Undisturbed`), each from where it has happened: those whose
output port the error path of `mmal_connection_enable` failed to disable, or whose queue it left
full (`stranded`, `mmal_connection.c:355`), and those the worker reconfigured while the application
was enabling them (`clashed`, `mmal_graph.c:418`). With one connection, which may fail in any step,
in a graph enabled twice, TLC finds both properties violated when either exemption is dropped.
`InUse` ends with the first `vchiq_use_service` that fails, after which the use count is one too low
(`mmal_vc_api.c:1345`). `NoLostWakeup` leaves out a queue the timeout left (`skipped`) and a pool
whose port refused (`refused`): there the worker does sleep until the next callback.

Bounds. The camera has three pool headers, the number `CCameraOutput::Init` asks for: fewer would
never displace a frame, and the interesting states (two waiting, one being recycled, one read) need
three. One event header and one refused send are enough for each to meet every other step;
`MaxStamp` 4 lets a frame be displaced, read and followed by another. Numbers are left out
(`MaxStamp` 0) where no property reads them. The set-up has nothing to bound but the event headers
of the control port. The queue runs have a getter, a putter and a thread that is both, so that two
claims, two puts and a claim against a put all meet, and three headers, so that the list has a
first, a middle and a last. The port has two headers, so that one can wait while the other is called
back or sent, and two controllers, so that a flush or a resume meets a disable. The component has
two references of each kind, so that a count can reach zero or not in each release, and three
threads, so that two releases of ports meet the one of the component. The client has two waiters for
three threads, so that a thread waits for a waiter that another frees, and one context to a port, so
that a port has data in flight or not. The graph has two connections: the first may fail and change
its format, the second does neither, so that the worker goes from one to the other in both orders
while the application is at either, and a pool grows from one header to two. The faults are those of
`Failing` without a payload that cannot be allocated and a send that is refused although the port is
enabled, which only make the run too long; the theorems on `AllBack` and `PoolAtRest` have them. The
application enables the graph once (`stop_thread` is never cleared, so a second worker would exit at
once). A state after a clash is checked and not followed (`UpToClash`): from there on the worker may
fill and drain what the application is allocating. (The theorem on `NoLostWakeup` has no such
bound.) Kernels run with two lanes, so that a condition holds in all, some or no lanes, on 6-bit
integers and four registers in a file, so that both files are used and sometimes run out (ten of the
kernels do not fit and the compiler exits), with garbage 0 and 5. Headers, controllers, the client's
threads and its waiters are symmetric in the runs without liveness.

Fairness. `FairSpec` of `CameraOutput` says that both threads run when they can, that VideoCore
goes on filling buffers while it captures, and that it answers a disable. It does not say that
the application ever reads or stops: `ReaderServed` is about a reader that polls (`Polling`),
which reads when there is something to read and ends what it began, the loop of `main`.
`FairSpec` of `MMALQueue` says that a thread that holds the lock or that a semaphore has woken
runs, and that some thread gets a free mutex, not which: pthread mutexes are not fair. `FairSpec` of
`MMALComponent` says that a call that has begun goes on, that callbacks return, and that a port that is
being disabled gets its turn between callbacks (strong fairness of `DisablePort`): VideoCore has
few headers left for such a port, so the callbacks end. Nobody has to release anything.
`FairSpec` of `QPUKernel` says that the one sequential program goes on. For the port
the absence of deadlock is a safety property, `NoWaitCycle`, so nothing is assumed of its locks.

Deadlock is checked in every run. `Ended`, `Over`, `Done` and, after a fault, `Faulted`, `Crashed` or
`Stopped` mark the states in which the program has stopped.

## 4. What is proved

The proof modules prove, for all values of the constants, what `Spec` keeps invariant and the four
refinements. Type invariants are proved and not checked again by the runs of the camera, the
port, the queue, the component, the client, the graph and the set-up.

- `CameraOutputProofs!TypeCorrect`, `OutputBounded`: `TypeOK` and `OutputBound`. The second is
  not inductive. A thread that has found fewer than two headers and is about to put must be the
  only one that can put: the strengthening (`IInv`) says which thread may be inside a callback (the
  holder of `action_mutex`), and that a thread past the test leaves room for its header.
- `CameraOutputProofs!HeadersUnique`, `TransitCounted`, `PoolFreedQuiet`: `OneHolder`, `TransitExact`,
  `PoolFreedQuiescent`. `PlaceInv` says that each header is in one of the places `Spots` and, if that
  is a queue, there once. Every step moves one header (`Moved`) or none, so that one lemma does for all
  steps, and each action only has to say where it takes its header. `StageInv` says how far the
  start and the tear-down have come (`Opening`, `Closing`); with the count exact, the pool can be
  freed only when no thread is in a callback and no queue of the port has a header.
- `CameraOutputProofs!NoHeaderStranded`, `HeadersSuffice`: `NoneStranded` and `NoShortage`. `Balanced`
  bounds the length of the pool's queue by the number of threads about to take from it, from above
  while the port is open and, when there are no events, from below.
- `CameraOutputProofs!FramesInOrder`: `ReadsInOrder`. `OrderInv` lines up the frame read last, those
  in `OutputQueue`, the one in the callback and those in `callback_queue`.
- `CameraOutputProofs!MailboxImplemented`: `ImplementsMailbox`, the refinement, step by step. The
  mapping takes the queue to its frame numbers (`Numbers`); a put is the mailbox's put because
  `OutputBound` leaves room for it and `OrderInv` makes it the newest.
- `CameraOutputProofs!PortUsedAsPromised`: `ImplementsPort`. `PlaceInv` shows that a header the pipeline sends is not
  lent already and that one whose callback begins is; `StageInv` that `gpu` and `cbQ` are empty where
  `mmal_port_disable` returns, the step in which `HeaderPort` lets the callback go.
- `CameraOutputProofs!ReleaseUnblocked`: the safety half of `ReleaseEnds`, for any number of headers. Two
  steps of `Release` wait. At `LockAction` the lock is only ever with the action thread in its callbacks (`LockOwner`: a
  thread has it for a reason), and no step of a callback waits. At `WaitTransit` the count is zero, because it is
  exact and every place it counts is empty. That each step is then taken is fairness, and TLC's.
- `CameraOutputProofs!CameraKeepsHeaders`: the safety half of `CameraFed`. At rest (`AtRest`: the action thread and
  the application between calls, `callback_queue` empty) the pool's queue holds no header, by `Balanced`, and every
  header has a place, by `PlaceInv`; so VideoCore has all but those with the reader and those lost. With the
  three headers of `Init`, and none lost, VideoCore runs dry at rest exactly when two wait and one is locked; one
  more header would always leave it one.
- `CameraSetupProofs!SetupTypeCorrect`, `CallbacksHaveContext`, `PayloadsPinComponent`: `TypeOK`,
  `CallbackContext` and `PayloadsPin`. A callback runs only for an enabled port, and a port is
  disabled only when its component is quiet; so the invariant says where the application can be
  while a port is enabled: the camera's ports are closed wherever `GCamera` or its output is
  deleted, and `BufferPool` exists only where a step that destroys it is still to come.
- `CameraSetupProofs!NothingLeft`, `PointersFollowed`: `CleanedUp` and `PointersGood`. `LeftInv` says for
  each position of the application which objects exist, which ports are tunnelled and which
  components live; that a way out leaves something behind would contradict it where the way ends.
- `MMALPortProofs`: all the invariants of `port_any`, and `TypeOK`. `Control` says what a thread holds at each
  of its steps, which locks it has (`LockInv`), and what the flags mean (`Flags`): headers wait in the
  queue of an enabled port with buffers only while it is paused, and in that of a disabled port only
  while some call to disable it empties it. `PlaceInv` is as in the camera, but for the steps of flush, disable and resume, which move a
  whole queue. `TransitExact` needs it: the count is a sum over the places (`TransitSum`). Then
  `Idle`: no header is in transit once the callback is cleared, which `DisabledEmpty` and
  `CallbackDefined` say piece by piece. `NoWaitCycle` follows from `LockInv` by a ranking: the holder of
  `send_lock` waits for nobody; who runs a callback or dispatches waits at most for that one; every
  other thread waits for one of these.
- `MMALPortProofs!PortImplemented`: `ImplementsPort`, one lemma for each kind of step. That a header called back is
  lent (`InHand`, `InCallback`) and that one offered to the port is not follow from `PlaceInv`; that a
  callback is there when one is called is `CallbackDefined`; the step that clears it is the one that needs
  `Idle`, that nothing is lent once every queue, hand and count of the port is empty. A failed disable sets
  `is_enabled` again and is then a second `Accept`, which `HeaderPort` allows.
- `MMALQueueProofs!QueueTypeCorrect`, `SemaphoreCounts`: the counts. `CountInv` adds to `TypeOK`
  and `SemaphoreExact` that at most the holder of the lock is inside, and that putters and
  getters are at steps of their own; that the length never goes below zero follows from the count.
- `MMALQueueProofs!ListIsSound`, `GetFindsHeader`: the list. `ListInv` says that some sequence of
  distinct headers is the list, with a case for each half-done put or get (`HalfWay`), and that
  no header is in it and with a caller at once. That `mmal_queue_get_core` never finds the
  list empty follows from both invariants together.
- `MMALQueueProofs!QueueImplemented`: `ImplementsQueue`, step by step. What `BufferQueue` sees is
  a walk along the pointers (`Queued`); that the walk finds the sequence of `ListInv` and no other is
  proved by induction on the number of hops (`HopsAre`, from `SequenceFacts!SetInduction`). The header of
  a put is left out until it is posted, and stands at one end of the list until then (`HalfWay`), in front
  only if it is one that may be put back. A get is a promise with its claim and is served when it
  unhooks the header; `PromisesExact`, that the semaphore and the promises make up the list, says
  that a claim has a header left to be promised and that a get fails only when there is none.

- `MMALComponentProofs`: the invariants of `component_any`, and `TypeOK`, `RefsExact` and `NotForgotten`
  on which they rest. `CountInv` ties the counts to the
  references that are held, which takes a lemma on cardinalities for each direction, and says that a
  thread in a release still has the reference it releases. `LifeInv` is about who destroys:
  at most one thread does (`Sole`), where it is says which counts are zero and that the flag is set
  (`Stage`), the flag is set only while somebody destroys (`Pending`), and if both counts are zero
  somebody does (`Remembered`). `OneDestroys` alone is not inductive: that the last release
  of a port does not start a second destruction rests on `Pending`.
- `MMALClientProofs!ClientTypeCorrect`, `WaiterAlwaysFound`, `ClientInUse`: `TypeOK`, `WaiterFound`
  and `InUse`. None is inductive. `PoolInv` counts: the waiters free are as many as the pool's
  semaphore says and the threads between two steps, those that passed the semaphore and have not
  scanned and those that cleared `inuse` and have not posted; that needs waiters to be given to
  one thread each (`Distinct`). `RefInv` makes the reference count the number of threads inside, and
  `UseInv` keeps the use count at least the number of those that rely on it: the first
  `mmal_vc_init` until it gives up its use, the components that have claimed VideoCore, and the
  requests under way. "At least", because a release that fails leaves the count too high; and only until a
  `vchiq_use_service` fails, for later releases then take away what was never counted.
- `MMALClientProofs!RepliesToWaiter`: `OwnReply`. `ReplyInv` adds that a request under way is the
  call its thread is in (`AskInv`), that it is in one place only, once (`Once`), and that a
  semaphore is posted exactly from the reply until its thread has taken it, so that a waiter
  comes back to the pool with its semaphore at zero (`SemInv`). That no two threads have the same
  waiter carries it.
- `MMALClientProofs!TransfersMatch`, `FlushesBehind`: `BulkPaired` and `FlushAfterData`, about `Sent`, the
  messages VideoCore has not taken with their transfers. `Paired` says that the places of those
  that announce a transfer can be listed in order and that the transfers are theirs one by one, but for
  the last, which has none while its thread is between the two calls; `Owner` makes that thread
  the holder of `bulk_lock`, so that nobody else announces one meanwhile. `CountListed` turns the
  list into the counts of the property. For the flush, `Marked` says that a port whose data are on
  the way has `sent_data_on_port` set, and no plain flush under way; and `Behind` that a thread has sent
  nothing behind its synchronising flush, because it waits for the reply.

- `MMALGraphProofs!GraphTypeCorrect`: `TypeOK`. That a reference count stays within its bound takes
  `RefsExact`, which counts the graph's and the application's references, and that the event pool
  does, `EventsExact`: each event is in the pool, in the queue, in the worker's hand or in the input port.
- `MMALGraphProofs!WorkerNeverSleeps`: `NoLostWakeup`. `WakeInv` says what the worker's two loops leave
  behind: every connection a loop has been to has no work left, unless the semaphore is up, a callback is
  about to post it, or there will be another pass (`run_again`). When it sleeps both loops have been
  everywhere.
- `MMALGraphProofs!AllComeBack`, `PoolsRest`: `AllBack` and `PoolAtRest`, however early formats change
  and whatever fails. `OrderInv` says why the worker and the application stay apart although nothing
  locks them out: a connection that the loop of `mmal_graph_enable` has not reached, or whose output
  port it has not enabled yet, has no header, no event and no callback, so that the worker passes it by (`Untouched`);
  disabling and destroying happen after the worker has been stopped (`Stopped`, `Halted`); and two
  operations on one connection are a clash (`Exclusive`). `RestInv` says what each
  step of an operation has done (`Stages`), that a connection which is not enabled has its headers at
  home (`Closed`), and that the headers of every other are in its pool's queue, its queue, its
  ports or the worker's hand (`Balance`), all of it of the undisturbed connections. After a clash
  this is a statement about the other connections as the model has them: they share no pool, queue
  or port with the one that clashed.

The proofs of the pool showed that `TypeOK` of the connection was too narrow: it bounded the headers of
a stranded connection's ports by those of its pool, which a later format change may shrink.

The assumptions are those of the modules: finite sets of headers and threads, `None` outside them.

Induction is stated of a set of numbers (`SetInduction`), not of a predicate, which the provers could not
instantiate; it follows from the fact that inclusion is well-founded on finite sets.

Only model-checked: every liveness property, which the prover cannot treat, and the QPULib modules,
which are recursive over statements, so that nothing about them is proved.

## 5. Not modelled

The repository is mostly a copy of the Raspberry Pi userland tree. Of its 259,000 lines the
program's own code and the libraries whose behaviour it depends on are a small part; the models
cover that part. The rest is left out: the Khronos clients (`interface/khronos`), which
marshal graphics calls to VideoCore; the vendored applications (`host_applications`, among them
several copies of `RaspiVid.c`), `lodepng` (twice) and `libfdt`; the container readers, the host components and the
OpenMAX adapter, which the program does not reach; VCHIQ, whose work is in a kernel driver that is
not here; the shaders and OpenGL calls of `Project/graphics.cpp`; `cameracontrol.cpp`, each
function of which sends one value and keeps nothing; `tracking_toolbox` (a stub); the thread pool of
`types.h`, which nothing instantiates; the earlier demos (`picamdemo`, `picam_gpu`), older
copies of the same class.

Of what is modelled in part, `PROJECT.json` says for each component what is missing. Hazards of this code
beyond the list there: the control callback keeps the event headers it is given
(`Project/camera.cpp:277`); an event larger than its header is dropped with the header
(`mmal_vc_client.c:224`); a header's reference count is not atomic (`mmal_buffer.c:63`); the
deadline of a timed wait is not normalised when the nanoseconds are exactly 10^9
(`vcos_platform.h:301`); `mmal_pool_resize` does not notice that a payload could not be allocated
(`mmal_pool.c:257`); `graph_connection_cb` tests the flag DIRECT with `==`, the worker with
`&` (`mmal_graph.c:106`, `:624`); the assertion on a rotation by a register tests the wrong operand's number
(`Encode.cpp:297`); QPUs that wait on each other's semaphores never end the emulation
(`Emulator.cpp:777`).

## 6. What could come next

1. Connected ports: `mmal_port_connect`, the two ends enabled and disabled together, whose locks are
   taken in the order of the caller (`mmal_port.c:385`, `:603`).
2. `MMALConnection` over two ports that keep `HeaderPort`, in place of the counts of headers it has now.
3. Several QPUs in lock step with their semaphores; an event pool with sizes; replicated headers;
   `mmal_component_enable` and `_disable`.
4. Proofs about the passes of QPULib that go over a list of instructions (`QPUTarget`), with their
   operators in a module of their own and their recursion as functions, for which `SetInduction` is
   enough.
