---------------------------- MODULE CameraSetup -----------------------------
(***************************************************************************)
(* StartCamera and StopCamera (src/Project/camera.cpp): which MMAL objects *)
(* CCamera and CCameraOutput create, what each failure leaves behind, and  *)
(* the order in which Release and the error paths destroy what exists.     *)
(*                                                                         *)
(* One application thread makes the calls; each component has an action    *)
(* thread that runs the callbacks of its ports.  Disabling a port is one   *)
(* step that waits for the callback in progress: module CameraOutput has   *)
(* the steps it is made of.                                                *)
(***************************************************************************)
EXTENDS Integers, FiniteSets

CONSTANTS
  Payloads,      \* payload buffers of BufferPool, each pins the port's component
  EventHeaders,  \* headers of the camera component's event pool
  MayFail        \* <<call, convert>>: the calls that can fail, per kind of setup

Calls == {"camera", "control", "configure", "resizer", "connect", "tunnel",
          "pool", "port", "send", "queue", "capture"}

ASSUME SetupAssumption ==
  /\ Payloads \in Nat \ {0} /\ EventHeaders \in Nat
  /\ MayFail \subseteq Calls \X BOOLEAN

Components == {"camera", "resizer"}
Ports      == {"control", "video", "resizerIn", "resizerOut"}
Objects    == {"GCamera", "Output", "Connection", "BufferPool", "OutputQueue"}
Pointers   == {"resizer", "connection", "pool", "queue"}

None == "none"

Owner(p)   == IF p \in {"control", "video"} THEN "camera" ELSE "resizer"
PortsOf(c) == {p \in Ports : Owner(p) = c}

VARIABLES
  pc,           \* where the application is
  convert,      \* do_argb_conversion, or another size: a resizer is needed
  stopping,     \* the application is in StopCamera
  exists,       \* the objects that are allocated
  component,    \* "none", "live", or "released" while payloads pin it
  payloads,     \* refcount_ports of each component
  enabled,      \* the ports with is_enabled
  tunnel,       \* the camera's video port and the resizer's input are connected
  connEnabled,  \* Connection->is_enabled
  held,         \* pointers of Init's locals, then of the object, that are not NULL
  bufferPort,   \* BufferPort
  running,      \* the port whose callback a component's action thread runs
  freeEvents,   \* event headers of the camera that are in their pool
  fault         \* "none", or what the application dereferenced

links == <<tunnel, connEnabled>>
own   == <<convert, stopping>>
env   == <<running, freeEvents>>
vars  == <<pc, own, exists, component, payloads, enabled, links, held, bufferPort, env, fault>>

Building == {"createCamera", "controlPort", "configure", "newOutput", "createResizer",
             "connect", "enableTunnel", "createPool", "enablePort", "fill",
             "createQueue", "capture"}
Undoing  == {"dropCamera", "dropPool", "errPool", "errConnection", "errResizer",
             "destroyQueue", "destroyPool", "destroyConnection", "destroyResizer",
             "deleteOutput", "destroyCamera", "deleteCamera"}

\* Every variable has its type; in particular an event header is only taken
\* from the pool when there is one.
TypeOK ==
  /\ pc \in Building \cup Undoing \cup {"idle", "on"}
  /\ convert \in BOOLEAN /\ stopping \in BOOLEAN
  /\ exists \subseteq Objects /\ held \subseteq Pointers
  /\ component \in [Components -> {"none", "live", "released"}]
  /\ payloads \in [Components -> {0, Payloads}]
  /\ enabled \subseteq Ports /\ tunnel \in BOOLEAN /\ connEnabled \in BOOLEAN
  /\ bufferPort \in {None, "video", "resizerOut"}
  /\ running \in [Components -> Ports \cup {None}]
  /\ freeEvents \in 0..EventHeaders
  /\ fault \in {"none", "null", "freed"}

Init ==
  /\ pc = "idle" /\ convert = FALSE /\ stopping = FALSE
  /\ exists = {} /\ held = {} /\ bufferPort = None
  /\ component = [c \in Components |-> "none"] /\ payloads = [c \in Components |-> 0]
  /\ enabled = {} /\ tunnel = FALSE /\ connEnabled = FALSE
  /\ running = [c \in Components |-> None] /\ freeEvents = 0
  /\ fault = "none"

At(label)      == fault = "none" /\ pc = label
Fails(call)    == <<call, convert>> \in MayFail
Valid(p)       == component[Owner(p)] # "none"

-----------------------------------------------------------------------------
(* What the MMAL calls do.                                                  *)

\* Mutant: mmal_port_disable does not take the action lock.
QuietAlways(c) == TRUE

\* mmal_component_action_lock: the component's callback in progress is over
Quiet(c) == running[c] = None

\* A disable reaches the port at the other end of the tunnel.
Closing(S) ==
  (S \cap enabled) \cup
  IF tunnel /\ S \cap enabled \cap {"video", "resizerIn"} # {}
  THEN {"video", "resizerIn"} \cap enabled ELSE {}

Disable(S) ==
  /\ \A p \in Closing(S) : Quiet(Owner(p))
  /\ enabled' = enabled \ Closing(S)

\* Mutant: the component is freed although payloads refer to its port.
PinnedNever(c) == FALSE

\* mmal_component_release_internal delays the destruction
Pinned(c) == payloads[c] > 0

\* mmal_component_destroy by the only holder of a reference
DestroyComponent(c) ==
  /\ Disable(PortsOf(c)) /\ tunnel' = FALSE
  /\ component' = [component EXCEPT ![c] = IF Pinned(c) THEN "released" ELSE "none"]
  /\ UNCHANGED <<payloads, connEnabled>>

\* Mutant: mmal_port_release never destroys the component.
UnpinnedStays(state) == state

\* mmal_port_release of the last payload
Unpinned(state) == IF state = "released" THEN "none" ELSE state

\* mmal_port_pool_destroy: the port is disabled if it is not yet
DestroyPool(p) ==
  /\ Disable({p})
  /\ payloads' = [payloads EXCEPT ![Owner(p)] = 0]
  /\ component' = [component EXCEPT ![Owner(p)] = Unpinned(@)]
  /\ exists' = exists \ {"BufferPool"}
  /\ UNCHANGED links

\* mmal_connection_disable fails on a port that is no longer enabled, and
\* mmal_connection_destroy then keeps the connection.
DestroyConnection ==
  /\ Disable({"video"})
  /\ IF connEnabled /\ "video" \notin enabled
     THEN UNCHANGED <<links, exists>>
     ELSE tunnel' = FALSE /\ connEnabled' = FALSE /\ exists' = exists \ {"Connection"}
  /\ UNCHANGED <<component, payloads>>

Fault(kind) ==
  /\ fault' = kind
  /\ UNCHANGED <<pc, own, exists, component, payloads, enabled, links, held, bufferPort, env>>

-----------------------------------------------------------------------------
(* CCamera::Init.                                                           *)

\* A second StartCamera returns NULL: GCamera is set.
StartCamera ==
  /\ At("idle") /\ "GCamera" \notin exists
  /\ exists' = {"GCamera"} /\ convert' \in BOOLEAN /\ pc' = "createCamera"
  /\ UNCHANGED <<stopping, component, payloads, enabled, links, held, bufferPort, env, fault>>

CreateCamera ==
  /\ At("createCamera")
  /\ \/ /\ component' = [component EXCEPT !["camera"] = "live"]
        /\ freeEvents' = EventHeaders /\ pc' = "controlPort"
     \/ /\ Fails("camera") /\ pc' = "deleteCamera"
        /\ UNCHANGED <<component, freeEvents>>
  /\ UNCHANGED <<own, exists, payloads, enabled, links, held, bufferPort, running, fault>>

EnableControlPort ==
  /\ At("controlPort")
  /\ \/ enabled' = enabled \cup {"control"} /\ pc' = "configure"
     \/ Fails("control") /\ pc' = "dropCamera" /\ UNCHANGED enabled
  /\ UNCHANGED <<own, exists, component, payloads, links, held, bufferPort, env, fault>>

\* The formats of the three ports and mmal_component_enable: any of them may fail.
ConfigureCamera ==
  /\ At("configure")
  /\ \/ pc' = "newOutput"
     \/ Fails("configure") /\ pc' = "dropCamera"
  /\ UNCHANGED <<own, exists, component, payloads, enabled, links, held, bufferPort, env, fault>>

DropCamera ==
  /\ At("dropCamera")
  /\ DestroyComponent("camera") /\ pc' = "deleteCamera"
  /\ UNCHANGED <<own, exists, held, bufferPort, env, fault>>

\* "new CCameraOutput" and the head of its Init, which picks the port
NewOutput ==
  /\ At("newOutput")
  /\ exists' = exists \cup {"Output"}
  /\ IF convert THEN pc' = "createResizer" /\ UNCHANGED bufferPort
                ELSE pc' = "createPool" /\ bufferPort' = "video"
  /\ UNCHANGED <<own, component, payloads, enabled, links, held, env, fault>>

StartCapture ==
  /\ At("capture")
  /\ \/ pc' = "on"
     \/ Fails("capture") /\ pc' = "destroyCamera"
  /\ UNCHANGED <<own, exists, component, payloads, enabled, links, held, bufferPort, env, fault>>

-----------------------------------------------------------------------------
(* CCameraOutput::Init.                                                     *)

\* CreateResizeComponentAndSetupPorts, which undoes its own failures
CreateResizer ==
  /\ At("createResizer")
  /\ \/ /\ component' = [component EXCEPT !["resizer"] = "live"]
        /\ held' = held \cup {"resizer"} /\ pc' = "connect"
     \/ Fails("resizer") /\ pc' = "errPool" /\ UNCHANGED <<component, held>>
  /\ UNCHANGED <<own, exists, payloads, enabled, links, bufferPort, env, fault>>

\* mmal_connection_create fails before it connects the ports, which are new and
\* so can be connected; such a failure leaves the pointer NULL.
Connect ==
  /\ At("connect")
  /\ \/ /\ exists' = exists \cup {"Connection"} /\ held' = held \cup {"connection"}
        /\ tunnel' = TRUE /\ pc' = "enableTunnel"
     \/ Fails("connect") /\ pc' = "errPool" /\ UNCHANGED <<exists, held, tunnel>>
  /\ UNCHANGED <<own, component, payloads, enabled, connEnabled, bufferPort, env, fault>>

EnableTunnel ==
  /\ At("enableTunnel")
  /\ \/ /\ enabled' = enabled \cup {"video", "resizerIn"} /\ connEnabled' = TRUE
        /\ bufferPort' = "resizerOut" /\ pc' = "createPool"
     \/ Fails("tunnel") /\ pc' = "errPool" /\ UNCHANGED <<enabled, connEnabled, bufferPort>>
  /\ UNCHANGED <<own, exists, component, payloads, tunnel, held, env, fault>>

\* Mutant: mmal_port_payload_alloc does not acquire the port.
AcquiredNone == 0

\* References of the payloads on the component of their port
Acquired == Payloads

\* EnablePortCallbackAndCreateBufferPool: pool, port, headers
CreatePool ==
  /\ At("createPool")
  /\ \/ /\ exists' = exists \cup {"BufferPool"} /\ pc' = "enablePort"
        /\ payloads' = [payloads EXCEPT ![Owner(bufferPort)] = Acquired]
     \/ Fails("pool") /\ pc' = "errPool" /\ UNCHANGED <<exists, payloads>>
  /\ UNCHANGED <<own, component, enabled, links, held, bufferPort, env, fault>>

EnableBufferPort ==
  /\ At("enablePort")
  /\ \/ enabled' = enabled \cup {bufferPort} /\ pc' = "fill"
     \/ Fails("port") /\ pc' = "dropPool" /\ UNCHANGED enabled
  /\ UNCHANGED <<own, exists, component, payloads, links, held, bufferPort, env, fault>>

FillPort ==
  /\ At("fill")
  /\ \/ held' = held \cup {"pool"} /\ pc' = "createQueue"
     \/ Fails("send") /\ pc' = "dropPool" /\ UNCHANGED held
  /\ UNCHANGED <<own, exists, component, payloads, enabled, links, bufferPort, env, fault>>

DropPool ==
  /\ At("dropPool")
  /\ DestroyPool(bufferPort) /\ pc' = "errPool"
  /\ UNCHANGED <<own, held, bufferPort, env, fault>>

CreateOutputQueue ==
  /\ At("createQueue")
  /\ \/ /\ exists' = exists \cup {"OutputQueue"} /\ held' = held \cup {"queue"}
        /\ pc' = "capture"
     \/ Fails("queue") /\ pc' = "errPool" /\ UNCHANGED <<exists, held>>
  /\ UNCHANGED <<own, component, payloads, enabled, links, bufferPort, env, fault>>

-----------------------------------------------------------------------------
(* The error path of CCameraOutput::Init and CCameraOutput::Release destroy *)
(* the same objects; they differ in the port they destroy the pool of.      *)

\* A step of either path that finds its pointer NULL does nothing.
Skip(pointer) ==
  pointer \notin held /\ UNCHANGED <<exists, component, payloads, enabled, links>>

PoolStep(p) ==
  \/ Skip("pool")
  \/ "pool" \in held /\ DestroyPool(p)

ConnectionStep ==
  \/ Skip("connection")
  \/ "connection" \in held /\ Valid("video") /\ DestroyConnection

ResizerStep ==
  \/ Skip("resizer")
  \/ "resizer" \in held /\ DestroyComponent("resizer") /\ UNCHANGED exists

\* "mmal_port_pool_destroy(resizer->output[0],video_buffer_pool)"
ErrorPool ==
  /\ At("errPool") /\ ("pool" \in held => "resizer" \in held)
  /\ PoolStep("resizerOut") /\ pc' = "errConnection"
  /\ UNCHANGED <<own, held, bufferPort, env, fault>>

ErrorPoolOfNoResizer ==
  /\ At("errPool") /\ "pool" \in held /\ "resizer" \notin held
  /\ Fault("null")

ErrorConnection ==
  /\ At("errConnection")
  /\ ConnectionStep /\ pc' = "errResizer"
  /\ UNCHANGED <<own, held, bufferPort, env, fault>>

\* The members are still NULL: Release, which follows, finds nothing to do.
ErrorResizer ==
  /\ At("errResizer")
  /\ ResizerStep /\ held' = {} /\ pc' = "destroyCamera"
  /\ UNCHANGED <<own, bufferPort, env, fault>>

DestroyQueue ==
  /\ At("destroyQueue")
  /\ exists' = exists \ {"OutputQueue"} /\ pc' = "destroyPool"
  /\ UNCHANGED <<own, component, payloads, enabled, links, held, bufferPort, env, fault>>

ReleasePool ==
  /\ At("destroyPool") /\ ("pool" \in held => Valid(bufferPort))
  /\ PoolStep(bufferPort) /\ pc' = "destroyConnection"
  /\ UNCHANGED <<own, held, bufferPort, env, fault>>

ReleaseConnection ==
  /\ At("destroyConnection")
  /\ ConnectionStep /\ pc' = "destroyResizer"
  /\ UNCHANGED <<own, held, bufferPort, env, fault>>

\* The connection, or the pool, refers to a port of a component that is freed.
UseFreedPort ==
  /\ \/ /\ At("destroyConnection") /\ "connection" \in held /\ ~Valid("video")
     \/ /\ At("destroyPool") /\ "pool" \in held /\ ~Valid(bufferPort)
  /\ Fault("freed")

ReleaseResizer ==
  /\ At("destroyResizer")
  /\ ResizerStep /\ pc' = "deleteOutput"
  /\ UNCHANGED <<own, held, bufferPort, env, fault>>

\* The memset at the end of Release, and "delete output"
DeleteOutput ==
  /\ At("deleteOutput")
  /\ exists' = exists \ {"Output"} /\ held' = {} /\ bufferPort' = None
  /\ pc' = IF stopping THEN "destroyCamera" ELSE "deleteCamera"
  /\ UNCHANGED <<own, component, payloads, enabled, links, env, fault>>

-----------------------------------------------------------------------------
(* The error path of CCamera::Init destroys the camera before it releases   *)
(* the output; CCamera::Release does it afterwards.                         *)

StopCamera ==
  /\ At("on")
  /\ stopping' = TRUE /\ pc' = "destroyQueue"
  /\ UNCHANGED <<convert, exists, component, payloads, enabled, links, held, bufferPort, env, fault>>

DestroyCamera ==
  /\ At("destroyCamera")
  /\ DestroyComponent("camera")
  /\ pc' = IF stopping THEN "deleteCamera" ELSE "destroyQueue"
  /\ UNCHANGED <<own, exists, held, bufferPort, env, fault>>

DeleteCamera ==
  /\ At("deleteCamera")
  /\ exists' = exists \ {"GCamera"} /\ stopping' = FALSE /\ pc' = "idle"
  /\ UNCHANGED <<convert, component, payloads, enabled, links, held, bufferPort, env, fault>>

-----------------------------------------------------------------------------
(* The action threads.                                                      *)

EventReady == freeEvents > 0

\* CameraControlCallback, with an event header of the camera
ControlCallback ==
  /\ fault = "none" /\ "control" \in enabled /\ running["camera"] = None /\ EventReady
  /\ running' = [running EXCEPT !["camera"] = "control"] /\ freeEvents' = freeEvents - 1
  /\ UNCHANGED <<pc, own, exists, component, payloads, enabled, links, held, bufferPort, fault>>

\* VideoBufferCallback; OnVideoBufferCallback itself is in CameraOutput
VideoCallback ==
  /\ fault = "none" /\ bufferPort \in enabled /\ running[Owner(bufferPort)] = None
  /\ running' = [running EXCEPT ![Owner(bufferPort)] = bufferPort]
  /\ UNCHANGED <<pc, own, exists, component, payloads, enabled, links, held, bufferPort,
                 freeEvents, fault>>

\* OnCameraControlCallback returns without releasing the event header.
CallbackReturns(c) ==
  /\ fault = "none" /\ running[c] # None
  /\ running' = [running EXCEPT ![c] = None]
  /\ UNCHANGED <<pc, own, exists, component, payloads, enabled, links, held, bufferPort,
                 freeEvents, fault>>

Faulted == fault # "none" /\ UNCHANGED vars

Starting ==
  \/ StartCamera \/ CreateCamera \/ EnableControlPort \/ ConfigureCamera \/ NewOutput
  \/ CreateResizer \/ Connect \/ EnableTunnel \/ CreatePool \/ EnableBufferPort
  \/ FillPort \/ CreateOutputQueue \/ StartCapture

Undo ==
  \/ DropCamera \/ DropPool \/ ErrorPool \/ ErrorPoolOfNoResizer \/ ErrorConnection
  \/ ErrorResizer \/ StopCamera \/ DestroyQueue \/ ReleasePool \/ ReleaseConnection
  \/ UseFreedPort \/ ReleaseResizer \/ DeleteOutput \/ DestroyCamera \/ DeleteCamera

Next ==
  \/ Starting \/ Undo
  \/ ControlCallback \/ VideoCallback \/ \E c \in Components : CallbackReturns(c)
  \/ Faulted

Spec == Init /\ [][Next]_vars

-----------------------------------------------------------------------------
(* Safety.                                                                  *)

\* A callback finds the object it is handed: GCamera for the control port
\* ("GCamera->OnCameraControlCallback"), the CCameraOutput in the port's
\* userdata for the buffer port, on every path that deletes either.
CallbackContext ==
  /\ "control" \in enabled \/ running["camera"] = "control" => "GCamera" \in exists
  /\ \A c \in Components : running[c] \in {"video", "resizerOut"} => "Output" \in exists

\* While BufferPool exists, the component of its port is not freed, even when
\* mmal_component_destroy comes first: the payloads' references on the port
\* delay it ("the component is not destroyed until the payload has been freed").
PayloadsPin == "BufferPool" \in exists => Valid(bufferPort)

\* When StartCamera has failed or StopCamera has returned, nothing is left:
\* no object, no component, no reference, no enabled port, no callback.
CleanedUp ==
  pc = "idle" =>
    /\ exists = {} /\ enabled = {} /\ ~tunnel
    /\ \A c \in Components : component[c] = "none" /\ payloads[c] = 0 /\ running[c] = None

\* With a conversion no path follows a NULL pointer; without one no path follows
\* a pointer into a component it has freed, although the error path of
\* CCamera::Init destroys the camera before the pool of its port.  The two other
\* combinations do happen: that error path uses Connection->out after the camera
\* it belongs to, and the one of CCameraOutput::Init resizer->output[0] without a
\* resizer (UseFreedPort, ErrorPoolOfNoResizer).
PointersGood == IF convert THEN fault # "null" ELSE fault # "freed"

=============================================================================
