---------------------------- MODULE MMALComponent ----------------------------
(***************************************************************************)
(* The life of a component (mmal_component.c): references to the component *)
(* and to its ports, held by several threads, and its destruction by       *)
(* whichever release is the last, once the ports are disabled and the      *)
(* action thread is gone.                                                  *)
(*                                                                         *)
(* private->lock is never held across a call that waits here, so what is   *)
(* done under it is one step.                                              *)
(***************************************************************************)
EXTENDS Integers, FiniteSets

CONSTANTS
  Threads,        \* threads of the application
  ComponentRefs,  \* references to the component
  PortRefs,       \* references to its ports: payload buffers
  Ports,          \* the ports
  None            \* no thread, no reference

Refs == ComponentRefs \cup PortRefs

ASSUME ComponentAssumption ==
  /\ IsFiniteSet(ComponentRefs) /\ IsFiniteSet(PortRefs)
  /\ ComponentRefs \cap PortRefs = {} /\ ComponentRefs # {}
  /\ None \notin Threads \cup Refs

VARIABLES
  refcount, refcountPorts,  \* the two counts
  destructionPending,
  enabled,                  \* the ports with is_enabled
  action, actionQuit,       \* what the action thread does, action_quit
  component,                \* "live", "freed", or "leaked" when pf_destroy fails
  held,                     \* the thread that has each reference
  pc, arg                   \* where a thread is, and the reference it releases

counts == <<refcount, refcountPorts, destructionPending>>
thread == <<action, actionQuit>>
vars   == <<counts, enabled, thread, component, held, pc, arg>>

Last       == {"deregister", "join", "pfDestroy"}
Destroying == {"disable", "check"} \cup Last

\* Every variable has its type; in particular neither count goes below zero, as
\* the two vcos_verify of the releases say (mmal_component.c:272, :526).
TypeOK ==
  /\ refcount \in Nat /\ refcountPorts \in Nat /\ destructionPending \in BOOLEAN
  /\ enabled \subseteq Ports
  /\ action \in {"waiting", "running", "gone"} /\ actionQuit \in BOOLEAN
  /\ component \in {"live", "freed", "leaked"}
  /\ held \in [Refs -> Threads \cup {None}]
  /\ pc \in [Threads -> {"idle", "release", "releasePort", "delayed"} \cup Destroying]
  /\ arg \in [Threads -> Refs \cup {None}]

\* mmal_component_create has returned the first reference.
Init ==
  /\ refcount = 1 /\ refcountPorts = 0 /\ destructionPending = FALSE
  /\ enabled = {} /\ action = "waiting" /\ actionQuit = FALSE /\ component = "live"
  /\ \E r \in ComponentRefs, t \in Threads :
       held = [x \in Refs |-> IF x = r THEN t ELSE None]
  /\ pc = [t \in Threads |-> "idle"] /\ arg = [t \in Threads |-> None]

Has(t, S)      == \E r \in S : held[r] = t
Goto(t, label) == pc' = [pc EXCEPT ![t] = label]

-----------------------------------------------------------------------------

\* mmal_component_acquire by a thread that has a reference; the new one may be for
\* another thread.
Acquire(t, r, u) ==
  /\ pc[t] = "idle" /\ Has(t, ComponentRefs) /\ held[r] = None
  /\ refcount' = refcount + 1 /\ held' = [held EXCEPT ![r] = u]
  /\ UNCHANGED <<refcountPorts, destructionPending, enabled, thread, component, pc, arg>>

\* Mutant: the reference is not counted.
PortsCountedNot == refcountPorts

PortsCounted == refcountPorts + 1

\* mmal_port_acquire, for a payload buffer
AcquirePort(t, p, u) ==
  /\ pc[t] = "idle" /\ Has(t, Refs) /\ held[p] = None
  /\ refcountPorts' = PortsCounted /\ held' = [held EXCEPT ![p] = u]
  /\ UNCHANGED <<refcount, destructionPending, enabled, thread, component, pc, arg>>

EnablePort(t, q) ==
  /\ pc[t] = "idle" /\ Has(t, ComponentRefs) /\ q \notin enabled
  /\ enabled' = enabled \cup {q}
  /\ UNCHANGED <<counts, thread, component, held, pc, arg>>

-----------------------------------------------------------------------------
(* mmal_component_release_internal                                          *)

Release(t, r) ==
  /\ pc[t] = "idle" /\ held[r] = t
  /\ arg' = [arg EXCEPT ![t] = r]
  /\ Goto(t, IF r \in ComponentRefs THEN "release" ELSE "releasePort")
  /\ UNCHANGED <<counts, enabled, thread, component, held>>

\* The reference is given up when it is counted down.
DropRef(t) ==
  /\ held' = [held EXCEPT ![arg[t]] = None] /\ arg' = [arg EXCEPT ![t] = None]

CountDown(t) ==
  /\ pc[t] = "release" /\ DropRef(t)
  /\ refcount' = refcount - 1
  /\ destructionPending' = (destructionPending \/ refcount = 1)
  /\ Goto(t, IF refcount = 1 THEN "disable" ELSE "idle")
  /\ UNCHANGED <<refcountPorts, enabled, thread, component>>

\* mmal_port_disable of one port, which waits for the callback in progress
DisablePort(t, q) ==
  /\ pc[t] = "disable" /\ q \in enabled /\ action # "running"
  /\ enabled' = enabled \ {q}
  /\ UNCHANGED <<counts, thread, component, held, pc, arg>>

PortsDisabled(t) ==
  /\ pc[t] = "disable" /\ enabled = {} /\ Goto(t, "check")
  /\ UNCHANGED <<counts, enabled, thread, component, held, arg>>

\* Mutant: references to the ports are not looked at.
DelayedNever == FALSE

\* "If there is any reference pending on the ports we will delay the actual destruction"
Delayed == refcountPorts # 0

\* Mutant: the flag stays set.
PendingKept == destructionPending

PendingAfterDelay == FALSE

CheckPorts(t) ==
  /\ pc[t] = "check"
  /\ \/ Delayed /\ destructionPending' = PendingAfterDelay /\ Goto(t, "delayed")
     \/ ~Delayed /\ Goto(t, "deregister") /\ UNCHANGED destructionPending
  /\ UNCHANGED <<refcount, refcountPorts, enabled, thread, component, held, arg>>

\* The trace that the destruction is delayed names the component, without the lock.
TraceDelayed(t) ==
  /\ pc[t] = "delayed" /\ Goto(t, "idle")
  /\ UNCHANGED <<counts, enabled, thread, component, held, arg>>

-----------------------------------------------------------------------------
(* mmal_port_release                                                        *)

\* Mutant: a destruction in progress is not looked at.
NothingElseHereAlone == refcount = 0

\* What keeps the last release of a port from destroying the component
NothingElseHere == refcount = 0 /\ ~destructionPending

CountDownPorts(t) ==
  /\ pc[t] = "releasePort" /\ DropRef(t)
  /\ refcountPorts' = refcountPorts - 1
  /\ Goto(t, IF refcountPorts = 1 /\ NothingElseHere THEN "deregister" ELSE "idle")
  /\ UNCHANGED <<refcount, destructionPending, enabled, thread, component>>

-----------------------------------------------------------------------------
(* mmal_component_destroy_internal                                          *)

\* mmal_component_action_deregister
Deregister(t) ==
  /\ pc[t] = "deregister" /\ actionQuit' = TRUE /\ Goto(t, "join")
  /\ UNCHANGED <<counts, enabled, action, component, held, arg>>

\* Mutant: the action thread is told to quit and not joined.
JoinedNot == TRUE

\* vcos_thread_join
Joined == action = "gone"

JoinAction(t) ==
  /\ pc[t] = "join" /\ Joined /\ Goto(t, "pfDestroy")
  /\ UNCHANGED <<counts, enabled, thread, component, held, arg>>

\* A pf_destroy that fails leaves the component allocated.
PfDestroy(t) ==
  /\ pc[t] = "pfDestroy" /\ component' \in {"freed", "leaked"}
  /\ Goto(t, "idle")
  /\ UNCHANGED <<counts, enabled, thread, held, arg>>

-----------------------------------------------------------------------------
(* mmal_component_action_thread_func: it waits, runs callbacks, or quits.   *)

ActionRuns ==
  /\ action = "waiting" /\ ~actionQuit /\ action' = "running"
  /\ UNCHANGED <<counts, enabled, actionQuit, component, held, pc, arg>>

ActionDone ==
  /\ action = "running" /\ action' = "waiting"
  /\ UNCHANGED <<counts, enabled, actionQuit, component, held, pc, arg>>

ActionQuits ==
  /\ action = "waiting" /\ actionQuit /\ action' = "gone"
  /\ UNCHANGED <<counts, enabled, actionQuit, component, held, pc, arg>>

Over == component # "live" /\ (\A t \in Threads : pc[t] = "idle") /\ UNCHANGED vars

InCall(t) ==
  \/ CountDown(t) \/ (\E q \in Ports : DisablePort(t, q)) \/ PortsDisabled(t)
  \/ CheckPorts(t) \/ TraceDelayed(t) \/ CountDownPorts(t) \/ Deregister(t)
  \/ JoinAction(t) \/ PfDestroy(t)

Begin(t) ==
  \/ \E r \in ComponentRefs, u \in Threads : Acquire(t, r, u)
  \/ \E p \in PortRefs, u \in Threads : AcquirePort(t, p, u)
  \/ \E q \in Ports : EnablePort(t, q)
  \/ \E r \in Refs : Release(t, r)

Next ==
  \/ \E t \in Threads : InCall(t) \/ Begin(t)
  \/ ActionRuns \/ ActionDone \/ ActionQuits \/ Over

Spec == Init /\ [][Next]_vars

\* Calls that have begun go on and callbacks return; nobody has to release anything.
\* VideoCore has few headers left for a port that is being disabled, so the callbacks
\* do not keep the action lock from the disable for ever.
FairSpec ==
  /\ Spec /\ WF_vars(ActionDone) /\ WF_vars(ActionQuits)
  /\ \A t \in Threads : WF_vars(InCall(t)) /\ \A q \in Ports : SF_vars(DisablePort(t, q))

-----------------------------------------------------------------------------
(* Properties                                                               *)

Held(S) == {r \in S : held[r] # None}

\* The counts are the numbers of references that threads have.
RefsExact ==
  /\ refcount = Cardinality(Held(ComponentRefs))
  /\ refcountPorts = Cardinality(Held(PortRefs))

\* However releases of the component and of its ports meet, at most one thread is
\* destroying it, and none once it is gone.
OneDestroys ==
  \A t, u \in Threads :
    pc[t] \in Destroying => component = "live" /\ (pc[u] \in Destroying => t = u)

\* A component that is being taken apart or gone has no references left.
FreedUnreferenced ==
  (component # "live" \/ \E t \in Threads : pc[t] \in Last) =>
    Held(Refs) = {}

\* Once it is gone the action thread is too, and no thread is inside a call that
\* uses it, but for the trace of mmal_component_release_internal.
FreedQuiet ==
  component # "live" => action = "gone" /\ \A t \in Threads : pc[t] \in {"idle", "delayed"}

\* A component nobody has a reference to is never left behind: between them the two
\* releases see to it that somebody is destroying it.
NotForgotten ==
  Held(Refs) = {} /\ component = "live" => \E t \in Threads : pc[t] \in Destroying

\* When the last reference is given up, the component is destroyed.
EventuallyDestroyed == (Held(Refs) = {}) ~> (component # "live")

=============================================================================
