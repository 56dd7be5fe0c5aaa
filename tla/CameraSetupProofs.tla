------------------------- MODULE CameraSetupProofs --------------------------
(***************************************************************************)
(* Proofs about CameraSetup, for every number of payloads and headers and  *)
(* every choice of the calls that fail: what a callback finds, what pins a *)
(* component, what is left behind and which pointers are followed.         *)
(***************************************************************************)
EXTENDS CameraSetup, TLAPS

Releasing == {"destroyQueue", "destroyPool", "destroyConnection", "destroyResizer",
              "deleteOutput"}

\* The steps between FillPort and the step that destroys the pool.
PoolHeld == {"createQueue", "capture", "on", "errPool", "destroyCamera", "destroyQueue",
             "destroyPool"}

\* Callbacks run only for an enabled port: "control", or the buffer port.
RunningEnabled ==
  \A c \in Components : running[c] # None =>
    /\ running[c] \in enabled /\ Owner(running[c]) = c
    /\ running[c] \in {"control", bufferPort}

CameraUp == pc # "idle" => "GCamera" \in exists

\* Where the camera's ports are closed.
CameraClosed ==
  \/ pc \in {"idle", "createCamera", "controlPort", "deleteCamera"}
  \/ ~stopping /\ pc \in Releasing

CameraDown ==
  /\ CameraClosed => enabled \cap {"control", "video"} = {}
  /\ pc \in {"configure", "dropCamera", "newOutput"} => "video" \notin enabled

StoppingAt == stopping => pc \in Releasing \cup {"destroyCamera", "deleteCamera"}

\* Where there is no CCameraOutput, or none that has chosen its port.
NoOutput ==
  \/ pc \in {"idle", "createCamera", "controlPort", "configure", "dropCamera", "newOutput",
             "deleteCamera"}
  \/ stopping /\ pc = "destroyCamera"

NothingHeld == NoOutput \/ pc = "createResizer" => held = {} /\ bufferPort = None

OutputBuilt ==
  /\ pc \in {"createResizer", "connect", "enableTunnel"} =>
       "Output" \in exists /\ bufferPort = None
  /\ bufferPort # None => "Output" \in exists
  /\ "resizer" \in held /\ ("pool" \in held \/ pc \in {"createPool", "enablePort", "fill"})
       => bufferPort = "resizerOut"

\* A step that destroys BufferPool is still to come.
HavePool ==
  \/ pc \in {"enablePort", "fill", "dropPool"}
  \/ "pool" \in held /\ pc \in PoolHeld

BufferPortOpen ==
  /\ bufferPort \in enabled => HavePool
  /\ "resizerOut" \in enabled => bufferPort = "resizerOut"

\* The pool is held after FillPort only.
PoolFilled ==
  "pool" \in held =>
    pc \in PoolHeld \cup Releasing \cup {"errConnection", "errResizer"}

PoolExists ==
  /\ "BufferPool" \in exists <=> HavePool
  /\ HavePool => /\ bufferPort # None
                 /\ payloads[Owner(bufferPort)] = Payloads
                 /\ component[Owner(bufferPort)] # "none"

ComponentsLive ==
  /\ pc \in {"controlPort", "configure", "newOutput", "createResizer", "connect",
            "enableTunnel"} =>
       component["camera"] = "live"
  /\ pc \in {"connect", "enableTunnel"} => component["resizer"] = "live"
  /\ pc = "createPool" => bufferPort # None /\ component[Owner(bufferPort)] = "live"

IInv ==
  /\ TypeOK /\ RunningEnabled /\ CameraUp /\ CameraDown /\ StoppingAt /\ NothingHeld
  /\ OutputBuilt /\ BufferPortOpen /\ PoolFilled /\ PoolExists /\ ComponentsLive

-----------------------------------------------------------------------------
(* What closing ports and destroying objects does to the rest.              *)

\* The callback in progress, if any, is of a port that stays enabled.
RunningKept == \A c \in Components : running[c] # None => running[c] \in enabled'

LEMMA Closes ==
  ASSUME TypeOK, RunningEnabled, NEW S, Disable(S)
  PROVE  enabled' \subseteq enabled /\ S \cap enabled' = {} /\ RunningKept
<1>1. S \cap enabled \subseteq Closing(S)
  BY DEF Closing
<1>2. ASSUME NEW c \in Components, running[c] # None PROVE running[c] \notin Closing(S)
  BY <1>2 DEF Disable, Quiet, RunningEnabled
<1> QED
  BY <1>1, <1>2 DEF Disable, RunningKept, RunningEnabled

\* What every destruction keeps: no port is opened, no object but BufferPool and
\* Connection goes, and a component that payloads refer to is not freed while
\* the pool exists.
Destroys ==
  /\ enabled' \subseteq enabled /\ RunningKept
  /\ exists' \subseteq exists /\ exists \ exists' \subseteq {"BufferPool", "Connection"}
  /\ component' \in [Components -> {"none", "live", "released"}]
  /\ payloads' \in [Components -> {0, Payloads}]
  /\ tunnel' \in BOOLEAN /\ connEnabled' \in BOOLEAN
  /\ "BufferPool" \in exists' =>
       /\ payloads' = payloads
       /\ \A c \in Components :
            payloads[c] = Payloads /\ component[c] # "none" => component'[c] # "none"

LEMMA ComponentDestroyed ==
  ASSUME TypeOK, RunningEnabled, NEW c \in Components, DestroyComponent(c), UNCHANGED exists
  PROVE  Destroys /\ PortsOf(c) \cap enabled' = {}
<1>1. Disable(PortsOf(c))
  BY DEF DestroyComponent
<1>2. enabled' \subseteq enabled /\ PortsOf(c) \cap enabled' = {} /\ RunningKept
  BY <1>1, Closes
<1>3. component' \in [Components -> {"none", "live", "released"}]
  BY DEF DestroyComponent, TypeOK
<1>4. \A d \in Components :
        payloads[d] = Payloads /\ component[d] # "none" => component'[d] # "none"
  BY SetupAssumption, SMT DEF DestroyComponent, Pinned, TypeOK
<1> QED
  BY <1>2, <1>3, <1>4 DEF DestroyComponent, Destroys, TypeOK

LEMMA PoolDestroyed ==
  ASSUME TypeOK, RunningEnabled, NEW p \in Ports, DestroyPool(p)
  PROVE  Destroys /\ p \notin enabled' /\ "BufferPool" \notin exists'
<1>1. Disable({p})
  BY DEF DestroyPool
<1>2. enabled' \subseteq enabled /\ p \notin enabled' /\ RunningKept
  BY <1>1, Closes
<1>3. Owner(p) \in Components
  BY DEF Owner, Components
<1>4. component' \in [Components -> {"none", "live", "released"}]
  BY <1>3, SMT DEF DestroyPool, Unpinned, TypeOK
<1>5. payloads' \in [Components -> {0, Payloads}]
  BY <1>3 DEF DestroyPool, TypeOK
<1> QED
  BY <1>2, <1>4, <1>5 DEF DestroyPool, Destroys, TypeOK, links

LEMMA ConnectionDestroyed ==
  ASSUME TypeOK, RunningEnabled, DestroyConnection
  PROVE  Destroys
<1>1. Disable({"video"})
  BY DEF DestroyConnection
<1>2. enabled' \subseteq enabled /\ RunningKept
  BY <1>1, Closes
<1> QED
  BY <1>2 DEF DestroyConnection, Destroys, TypeOK, links

LEMMA Skipped ==
  ASSUME TypeOK, RunningEnabled, NEW pointer, Skip(pointer)
  PROVE  Destroys
BY DEF Skip, Destroys, RunningKept, RunningEnabled, TypeOK, links

-----------------------------------------------------------------------------
(* The invariant.                                                           *)

LEMMA InitIInv == Init => IInv
<1> SUFFICES ASSUME Init PROVE IInv
  OBVIOUS
<1> USE DEF Init
<1>1. TypeOK
  <2>1. convert \in BOOLEAN /\ stopping \in BOOLEAN /\ tunnel \in BOOLEAN
          /\ connEnabled \in BOOLEAN
    BY Zenon
  <2>2. freeEvents \in 0..EventHeaders
    BY SetupAssumption
  <2> QED
    BY <2>1, <2>2, Zenon DEF TypeOK
<1>2. RunningEnabled /\ CameraUp /\ CameraDown /\ StoppingAt /\ NothingHeld
  BY DEF RunningEnabled, CameraUp, CameraDown, CameraClosed, StoppingAt, NothingHeld,
         NoOutput, Releasing
<1>3. OutputBuilt /\ BufferPortOpen /\ PoolFilled /\ PoolExists /\ ComponentsLive
  BY DEF OutputBuilt, BufferPortOpen, PoolFilled, PoolExists, ComponentsLive, None, HavePool,
         PoolHeld
<1> QED
  BY <1>1, <1>2, <1>3 DEF IInv

-----------------------------------------------------------------------------

LEMMA StartingStep == IInv /\ Starting => IInv'
<1> SUFFICES ASSUME IInv, Starting PROVE IInv'
  OBVIOUS
<1> USE SetupAssumption
    DEF IInv, TypeOK, RunningEnabled, CameraUp, CameraDown, CameraClosed, StoppingAt,
        NothingHeld, NoOutput, OutputBuilt, BufferPortOpen, PoolExists, ComponentsLive,
        HavePool, PoolFilled, PoolHeld, Releasing, Components, Ports, Objects, Pointers, None,
        Building, Undoing, own, links, env, Owner, At
<1>1. CASE StartCamera
  BY <1>1 DEF StartCamera
<1>2. CASE CreateCamera
  BY <1>2 DEF CreateCamera
<1>3. CASE EnableControlPort
  BY <1>3 DEF EnableControlPort
<1>4. CASE ConfigureCamera
  BY <1>4 DEF ConfigureCamera
<1>5. CASE NewOutput
  BY <1>5 DEF NewOutput
<1>6. CASE CreateResizer
  BY <1>6 DEF CreateResizer
<1>7. CASE Connect
  <2>1. TypeOK'
    BY <1>7 DEF Connect
  <2>2. (RunningEnabled /\ CameraUp /\ CameraDown /\ StoppingAt /\ NothingHeld)'
    BY <1>7 DEF Connect
  <2>3. (OutputBuilt /\ BufferPortOpen /\ PoolFilled)'
    BY <1>7 DEF Connect
  <2>4. PoolExists'
    BY <1>7 DEF Connect
  <2>5. ComponentsLive'
    BY <1>7 DEF Connect
  <2> QED
    BY <2>1, <2>2, <2>3, <2>4, <2>5
<1>8. CASE EnableTunnel
  <2>1. TypeOK'
    BY <1>8 DEF EnableTunnel
  <2>2. (RunningEnabled /\ CameraUp /\ CameraDown /\ StoppingAt /\ NothingHeld)'
    BY <1>8 DEF EnableTunnel
  <2>3. (OutputBuilt /\ BufferPortOpen /\ PoolFilled)'
    BY <1>8 DEF EnableTunnel
  <2>4. PoolExists'
    BY <1>8 DEF EnableTunnel
  <2>5. ComponentsLive'
    BY <1>8 DEF EnableTunnel
  <2> QED
    BY <2>1, <2>2, <2>3, <2>4, <2>5
<1>9. CASE CreatePool
  <2>1. TypeOK'
    BY <1>9 DEF CreatePool, Acquired
  <2>2. (RunningEnabled /\ CameraUp /\ CameraDown /\ StoppingAt /\ NothingHeld)'
    BY <1>9 DEF CreatePool, Acquired
  <2>3. (OutputBuilt /\ BufferPortOpen /\ PoolFilled)'
    BY <1>9 DEF CreatePool, Acquired
  <2>4. PoolExists'
    BY <1>9 DEF CreatePool, Acquired
  <2>5. ComponentsLive'
    BY <1>9 DEF CreatePool, Acquired
  <2> QED
    BY <2>1, <2>2, <2>3, <2>4, <2>5
<1>10. CASE EnableBufferPort
  BY <1>10 DEF EnableBufferPort
<1>11. CASE FillPort
  BY <1>11 DEF FillPort
<1>12. CASE CreateOutputQueue
  BY <1>12 DEF CreateOutputQueue
<1>13. CASE StartCapture
  BY <1>13 DEF StartCapture
<1> QED
  BY <1>1, <1>2, <1>3, <1>4, <1>5, <1>6, <1>7, <1>8, <1>9, <1>10, <1>11, <1>12, <1>13 DEF Starting

LEMMA UndoStep == IInv /\ Undo => IInv'
<1> SUFFICES ASSUME IInv, Undo PROVE IInv'
  OBVIOUS
<1> USE SetupAssumption
    DEF IInv, TypeOK, RunningEnabled, CameraUp, CameraDown, CameraClosed, StoppingAt,
        NothingHeld, NoOutput, OutputBuilt, BufferPortOpen, PoolExists, ComponentsLive,
        HavePool, PoolFilled, PoolHeld, Releasing, Components, Ports, Objects, Pointers, None,
        Building, Undoing, own, links, env, Owner, At
<1>1. CASE DropCamera
  <2>1. Destroys /\ {"control", "video"} \cap enabled' = {}
    BY <1>1, ComponentDestroyed DEF DropCamera, PortsOf
  <2> QED
    BY <1>1, <2>1 DEF DropCamera, Destroys, RunningKept
<1>2. CASE DropPool
  <2>1. bufferPort \in Ports /\ DestroyPool(bufferPort)
    BY <1>2 DEF DropPool
  <2>2. Destroys /\ bufferPort \notin enabled' /\ "BufferPool" \notin exists'
    BY <2>1, PoolDestroyed
  <2>3. TypeOK'
    BY <1>2, <2>2 DEF DropPool, Destroys
  <2>4. (RunningEnabled /\ CameraUp /\ CameraDown /\ StoppingAt /\ NothingHeld)'
    BY <1>2, <2>2 DEF DropPool, Destroys, RunningKept
  <2>5. (OutputBuilt /\ BufferPortOpen /\ PoolFilled)'
    BY <1>2, <2>2 DEF DropPool, Destroys
  <2>6. (PoolExists /\ ComponentsLive)'
    BY <1>2, <2>2 DEF DropPool, Destroys
  <2> QED
    BY <2>3, <2>4, <2>5, <2>6
<1>3. CASE ErrorPool
  <2>1. CASE "pool" \in held
    <3>1. bufferPort \in Ports /\ DestroyPool(bufferPort)
      BY <1>3, <2>1 DEF ErrorPool, PoolStep, Skip
    <3>2. Destroys /\ bufferPort \notin enabled' /\ "BufferPool" \notin exists'
      BY <3>1, PoolDestroyed
    <3> QED
      BY <1>3, <2>1, <3>2 DEF ErrorPool, Destroys, RunningKept
  <2>2. CASE "pool" \notin held
    <3>1. Destroys
      BY <1>3, <2>2, Skipped DEF ErrorPool, PoolStep
    <3> QED
      BY <1>3, <2>2, <3>1 DEF ErrorPool, Destroys, RunningKept
  <2> QED
    BY <2>1, <2>2
<1>4. CASE ErrorPoolOfNoResizer
  BY <1>4 DEF ErrorPoolOfNoResizer, Fault
<1>5. CASE ErrorConnection
  <2>1. Destroys
    BY <1>5, ConnectionDestroyed, Skipped DEF ErrorConnection, ConnectionStep
  <2> QED
    BY <1>5, <2>1 DEF ErrorConnection, Destroys, RunningKept
<1>6. CASE ErrorResizer
  <2>1. Destroys
    BY <1>6, ComponentDestroyed, Skipped DEF ErrorResizer, ResizerStep
  <2> QED
    BY <1>6, <2>1 DEF ErrorResizer, Destroys, RunningKept
<1>7. CASE StopCamera
  BY <1>7 DEF StopCamera
<1>8. CASE DestroyQueue
  BY <1>8 DEF DestroyQueue
<1>9. CASE ReleasePool
  <2>1. CASE "pool" \in held
    <3>1. bufferPort \in Ports /\ DestroyPool(bufferPort)
      BY <1>9, <2>1 DEF ReleasePool, PoolStep, Skip
    <3>2. Destroys /\ bufferPort \notin enabled' /\ "BufferPool" \notin exists'
      BY <3>1, PoolDestroyed
    <3> QED
      BY <1>9, <2>1, <3>2 DEF ReleasePool, Destroys, RunningKept
  <2>2. CASE "pool" \notin held
    <3>1. Destroys
      BY <1>9, <2>2, Skipped DEF ReleasePool, PoolStep
    <3> QED
      BY <1>9, <2>2, <3>1 DEF ReleasePool, Destroys, RunningKept
  <2> QED
    BY <2>1, <2>2
<1>10. CASE ReleaseConnection
  <2>1. Destroys
    BY <1>10, ConnectionDestroyed, Skipped DEF ReleaseConnection, ConnectionStep
  <2> QED
    BY <1>10, <2>1 DEF ReleaseConnection, Destroys, RunningKept
<1>11. CASE UseFreedPort
  BY <1>11 DEF UseFreedPort, Fault
<1>12. CASE ReleaseResizer
  <2>1. Destroys
    BY <1>12, ComponentDestroyed, Skipped DEF ReleaseResizer, ResizerStep
  <2> QED
    BY <1>12, <2>1 DEF ReleaseResizer, Destroys, RunningKept
<1>13. CASE DeleteOutput
  BY <1>13 DEF DeleteOutput
<1>14. CASE DestroyCamera
  <2>1. Destroys /\ {"control", "video"} \cap enabled' = {}
    BY <1>14, ComponentDestroyed DEF DestroyCamera, PortsOf
  <2> QED
    BY <1>14, <2>1 DEF DestroyCamera, Destroys, RunningKept
<1>15. CASE DeleteCamera
  BY <1>15 DEF DeleteCamera
<1> QED
  BY <1>1, <1>2, <1>3, <1>4, <1>5, <1>6, <1>7, <1>8, <1>9, <1>10, <1>11, <1>12, <1>13, <1>14,
     <1>15 DEF Undo

Callbacks ==
  ControlCallback \/ VideoCallback \/ \E c \in Components : CallbackReturns(c)

LEMMA CallbackStep == IInv /\ Callbacks => IInv'
<1> SUFFICES ASSUME IInv, Callbacks PROVE IInv'
  OBVIOUS
<1> USE SetupAssumption
    DEF IInv, TypeOK, RunningEnabled, CameraUp, CameraDown, CameraClosed, StoppingAt,
        NothingHeld, NoOutput, OutputBuilt, BufferPortOpen, PoolExists, ComponentsLive,
        HavePool, PoolFilled, PoolHeld, Releasing, Components, Ports, Objects, Pointers, None,
        Building, Undoing, own, links, env, Owner, At
<1>1. CASE ControlCallback
  BY <1>1 DEF ControlCallback, EventReady
<1>2. CASE VideoCallback
  BY <1>2 DEF VideoCallback
<1>3. CASE \E c \in Components : CallbackReturns(c)
  BY <1>3 DEF CallbackReturns
<1> QED
  BY <1>1, <1>2, <1>3 DEF Callbacks

LEMMA StutterStep == IInv /\ UNCHANGED vars => IInv'
BY DEF vars, own, links, env, IInv, TypeOK, RunningEnabled, CameraUp, CameraDown,
       CameraClosed, StoppingAt, NothingHeld, NoOutput, OutputBuilt, BufferPortOpen,
       PoolExists, ComponentsLive, HavePool,
       PoolFilled

-----------------------------------------------------------------------------
(* What is left, and which pointers are followed: a second invariant that   *)
(* is inductive only together with the first.                               *)

\* What a conversion decides: the resizer, the connection and the buffer port
Converted ==
  /\ pc \in {"createResizer", "connect", "enableTunnel"} => convert
  /\ held \cap {"resizer", "connection"} # {} => convert
  /\ bufferPort = "resizerOut" => convert
  /\ bufferPort = "video" => ~convert
  /\ convert /\ ("pool" \in held
                 \/ pc \in {"connect", "enableTunnel", "createPool", "enablePort", "fill"})
       => "resizer" \in held
  /\ "connection" \in held => "resizer" \in held

\* The error path of CCamera::Init has destroyed the camera.
CameraGone == ~stopping /\ pc \in Releasing

\* Each object is there only until the step that destroys it.
ObjectsLeft ==
  /\ NoOutput => "Output" \notin exists
  /\ "OutputQueue" \in exists =>
       pc \in {"capture", "on", "destroyQueue"} \/ (pc = "destroyCamera" /\ ~stopping)
  /\ "Connection" \in exists =>
       "connection" \in held /\ pc \notin {"errResizer", "destroyResizer", "deleteOutput"}
  /\ pc = "enableTunnel" => "Connection" \in exists
  /\ pc = "idle" => "GCamera" \notin exists

\* The same for the tunnel and its two ports
LinksLeft ==
  /\ tunnel => "Connection" \in exists
  /\ connEnabled => "Connection" \in exists /\ ("video" \in enabled \/ CameraGone)
  /\ "resizerIn" \in enabled => "resizer" \in held /\ pc # "deleteOutput"

\* Only the payloads of the pool pin a component, and nothing else keeps one.
ComponentsLeft ==
  /\ \A c \in Components :
       payloads[c] # 0 => HavePool /\ bufferPort # None /\ Owner(bufferPort) = c
  /\ component["camera"] =
       IF pc \in {"idle", "createCamera", "deleteCamera"}
         \/ (CameraGone /\ payloads["camera"] = 0) THEN "none"
       ELSE IF CameraGone THEN "released" ELSE "live"
  /\ component["resizer"] =
       IF "resizer" \in held /\ pc # "deleteOutput" THEN "live" ELSE "none"

LeftInv == Converted /\ PointersGood /\ ObjectsLeft /\ LinksLeft /\ ComponentsLeft

LEMMA InitLeft == Init => LeftInv
BY DEF Init, LeftInv, Converted, PointersGood, ObjectsLeft, LinksLeft, ComponentsLeft, NoOutput,
       CameraGone, Components, Pointers, None

LEMMA NextLeft ==
  ASSUME IInv, LeftInv, [Next]_vars
  PROVE  LeftInv'
<1> USE SetupAssumption
    DEF IInv, TypeOK, RunningEnabled, CameraUp, CameraDown, CameraClosed, StoppingAt,
        NothingHeld, NoOutput, OutputBuilt, BufferPortOpen, PoolExists, ComponentsLive,
        HavePool, PoolFilled, PoolHeld, Releasing, Components, Ports, Objects, Pointers, None,
        Building, Undoing, own, links, env, Owner, At,
        LeftInv, Converted, PointersGood, ObjectsLeft, LinksLeft, ComponentsLeft, CameraGone
<1>1. CASE StartCamera
  BY <1>1 DEF StartCamera
<1>2. CASE CreateCamera
  BY <1>2 DEF CreateCamera
<1>3. CASE EnableControlPort
  BY <1>3 DEF EnableControlPort
<1>4. CASE ConfigureCamera
  BY <1>4 DEF ConfigureCamera
<1>5. CASE NewOutput
  BY <1>5 DEF NewOutput
<1>6. CASE CreateResizer
  BY <1>6 DEF CreateResizer
<1>7. CASE Connect
  BY <1>7 DEF Connect
<1>8. CASE EnableTunnel
  BY <1>8 DEF EnableTunnel
<1>9. CASE CreatePool
  BY <1>9 DEF CreatePool, Acquired
<1>10. CASE EnableBufferPort
  BY <1>10 DEF EnableBufferPort
<1>11. CASE FillPort
  BY <1>11 DEF FillPort
<1>12. CASE CreateOutputQueue
  BY <1>12 DEF CreateOutputQueue
<1>13. CASE StartCapture
  BY <1>13 DEF StartCapture
<1>14. CASE DropCamera
  BY <1>14 DEF DropCamera, ResizerStep, Skip, DestroyComponent, Pinned, Disable, Closing, PortsOf
<1>15. CASE DropPool
  BY <1>15 DEF DropPool, PoolStep, Skip, DestroyPool, Unpinned, Disable, Closing
<1>16. CASE ErrorPool
  BY <1>16 DEF ErrorPool, PoolStep, Skip, DestroyPool, Unpinned, Disable, Closing
<1>17. CASE ErrorPoolOfNoResizer
  BY <1>17 DEF ErrorPoolOfNoResizer, Fault
<1>18. CASE ErrorConnection
  BY <1>18 DEF ErrorConnection, ConnectionStep, Skip, DestroyConnection, Disable, Closing, Valid
<1>19. CASE ErrorResizer
  BY <1>19 DEF ErrorResizer, ResizerStep, Skip, DestroyComponent, Pinned, Disable, Closing,
     PortsOf
<1>20. CASE StopCamera
  BY <1>20 DEF StopCamera
<1>21. CASE DestroyQueue
  BY <1>21 DEF DestroyQueue
<1>22. CASE ReleasePool
  BY <1>22 DEF ReleasePool, PoolStep, Skip, DestroyPool, Unpinned, Disable, Closing
<1>23. CASE ReleaseConnection
  BY <1>23 DEF ReleaseConnection, ConnectionStep, Skip, DestroyConnection, Disable, Closing, Valid
<1>24. CASE UseFreedPort
  <2>1. fault' = "freed" /\ UNCHANGED <<pc, own, exists, component, payloads, enabled, links,
                                       held, bufferPort>>
    BY <1>24 DEF UseFreedPort, Fault
  <2>2. convert
    BY <1>24 DEF UseFreedPort, Valid
  <2>3. (Converted /\ PointersGood)'
    BY <2>1, <2>2
  <2>4. (ObjectsLeft /\ LinksLeft)'
    BY <2>1
  <2>5. ComponentsLeft'
    BY <2>1
  <2> QED
    BY <2>3, <2>4, <2>5
<1>25. CASE ReleaseResizer
  BY <1>25 DEF ReleaseResizer, ResizerStep, Skip, DestroyComponent, Pinned, Disable, Closing,
     PortsOf
<1>26. CASE DeleteOutput
  BY <1>26 DEF DeleteOutput
<1>27. CASE DestroyCamera
  BY <1>27 DEF DestroyCamera, ResizerStep, Skip, DestroyComponent, Pinned, Disable, Closing,
     PortsOf
<1>28. CASE DeleteCamera
  BY <1>28 DEF DeleteCamera
<1>29. CASE Callbacks
  BY <1>29 DEF Callbacks, ControlCallback, VideoCallback, CallbackReturns
<1>30. CASE UNCHANGED vars
  BY <1>30 DEF vars
<1> QED
  BY <1>1, <1>2, <1>3, <1>4, <1>5, <1>6, <1>7, <1>8, <1>9, <1>10, <1>11, <1>12, <1>13, <1>14,
     <1>15, <1>16, <1>17, <1>18, <1>19, <1>20, <1>21, <1>22, <1>23, <1>24, <1>25, <1>26, <1>27,
     <1>28, <1>29, <1>30 DEF Next, Starting, Undo, Callbacks, Faulted

LEMMA BothInvariant == Spec => [](IInv /\ LeftInv)
<1>1. IInv /\ [Next]_vars => IInv'
  BY StartingStep, UndoStep, CallbackStep, StutterStep DEF Next, Callbacks, Faulted
<1>2. IInv /\ LeftInv /\ [Next]_vars => LeftInv'
  BY NextLeft
<1> QED
  BY InitIInv, InitLeft, <1>1, <1>2, PTL DEF Spec

-----------------------------------------------------------------------------
(* The theorems.                                                            *)

\* Every variable keeps its type; event headers are only taken from a pool that
\* has one.
THEOREM SetupTypeCorrect == Spec => []TypeOK
<1>1. IInv => TypeOK
  BY DEF IInv
<1> QED
  BY BothInvariant, <1>1, PTL

\* On every path of a set-up or a shutdown, whatever fails, a callback finds the
\* object it follows: GCamera, or the CCameraOutput.
THEOREM CallbacksHaveContext == Spec => []CallbackContext
<1>1. IInv => CallbackContext
  <2> SUFFICES ASSUME IInv PROVE CallbackContext
    OBVIOUS
  <2>1. "control" \in enabled => "GCamera" \in exists
    BY DEF IInv, CameraUp, CameraDown, CameraClosed
  <2>2. running["camera"] = "control" => "control" \in enabled
    BY DEF IInv, RunningEnabled, Components, None
  <2>3. ASSUME NEW c \in Components, running[c] \in {"video", "resizerOut"}
        PROVE  "Output" \in exists
    BY <2>3 DEF IInv, RunningEnabled, OutputBuilt, None
  <2> QED
    BY <2>1, <2>2, <2>3 DEF CallbackContext
<1> QED
  BY BothInvariant, <1>1, PTL

\* While BufferPool exists, the component whose port it belongs to is not freed:
\* destroying the camera first, as the error path of CCamera::Init does, is safe
\* for the pool.
THEOREM PayloadsPinComponent == Spec => []PayloadsPin
<1>1. IInv => PayloadsPin
  BY DEF IInv, PoolExists, PayloadsPin, Valid
<1> QED
  BY BothInvariant, <1>1, PTL

\* When StartCamera has failed at whatever call, or StopCamera has returned, no object,
\* component, reference, enabled port or callback is left.
THEOREM NothingLeft == Spec => []CleanedUp
<1>1. IInv /\ LeftInv => CleanedUp
  <2> SUFFICES ASSUME IInv, LeftInv, pc = "idle" PROVE CleanedUp
    BY DEF CleanedUp
  <2>1. held = {} /\ bufferPort = None /\ NoOutput
    BY DEF IInv, NothingHeld, NoOutput
  <2>2. exists = {}
    BY <2>1 DEF IInv, TypeOK, Objects, PoolExists, HavePool, LeftInv, ObjectsLeft
  <2>3. enabled = {}
    BY <2>1 DEF IInv, TypeOK, Ports, None, CameraDown, CameraClosed, BufferPortOpen,
                LeftInv, LinksLeft
  <2>4. ~tunnel
    BY <2>2 DEF LeftInv, LinksLeft
  <2>5. \A c \in Components : component[c] = "none" /\ payloads[c] = 0
    BY <2>1 DEF Components, LeftInv, ComponentsLeft
  <2>6. \A c \in Components : running[c] = None
    BY <2>3 DEF IInv, RunningEnabled
  <2> QED
    BY <2>2, <2>3, <2>4, <2>5, <2>6 DEF CleanedUp
<1> QED
  BY BothInvariant, <1>1, PTL

\* With a conversion no path follows a NULL pointer, and without one no path follows a
\* pointer into a freed component, whatever fails.
THEOREM PointersFollowed == Spec => []PointersGood
<1>1. LeftInv => PointersGood
  BY DEF LeftInv
<1> QED
  BY BothInvariant, <1>1, PTL

=============================================================================
