------------------------ MODULE MMALComponentProofs -------------------------
(***************************************************************************)
(* Proofs about MMALComponent, for any threads, references and ports.      *)
(***************************************************************************)
EXTENDS MMALComponent, FiniteSetTheorems, TLAPS

\* A thread in a release has the reference it releases.
ArgHeld ==
  \A t \in Threads :
    /\ pc[t] = "release" => arg[t] \in ComponentRefs /\ held[arg[t]] = t
    /\ pc[t] = "releasePort" => arg[t] \in PortRefs /\ held[arg[t]] = t

CountInv == TypeOK /\ RefsExact /\ ArgHeld

\* At most one thread is destroying, and where it is says what the counts are.
Sole ==
  \A t, u \in Threads : pc[t] \in Destroying /\ pc[u] \in Destroying => t = u

Stage ==
  \A t \in Threads :
    /\ pc[t] \in Destroying => component = "live" /\ refcount = 0
    /\ pc[t] \in {"disable", "check"} => destructionPending
    /\ pc[t] \in Last => refcountPorts = 0
    /\ pc[t] = "pfDestroy" => action = "gone"

Somebody == \E t \in Threads : pc[t] \in Destroying

\* Whoever set the flag is still there, or has destroyed the component.
Pending ==
  destructionPending => refcount = 0 /\ (component # "live" \/ Somebody)

Gone == component # "live" => refcount = 0 /\ refcountPorts = 0 /\ action = "gone"

Remembered == refcount = 0 /\ refcountPorts = 0 /\ component = "live" => Somebody

LifeInv == Sole /\ Stage /\ Pending /\ Gone /\ Remembered

IInv == CountInv /\ LifeInv

-----------------------------------------------------------------------------
(* Counting the references                                                  *)

HeldIn(h, S) == {r \in S : h[r] # None}

\* A set of references of which one more, or one less, is held has one more element,
\* or one less.
LEMMA HoldOne ==
  ASSUME NEW S, IsFiniteSet(S), NEW h, NEW g, NEW r \in S, h[r] = None, g[r] # None,
         \A x \in S \ {r} : g[x] = h[x]
  PROVE  Cardinality(HeldIn(g, S)) = Cardinality(HeldIn(h, S)) + 1
<1>1. IsFiniteSet(HeldIn(h, S))  BY FS_Subset DEF HeldIn
<1>2. HeldIn(g, S) = HeldIn(h, S) \cup {r} /\ r \notin HeldIn(h, S)  BY DEF HeldIn
<1> QED  BY <1>1, <1>2, FS_AddElement

LEMMA HoldSame ==
  ASSUME NEW S, NEW h, NEW g, \A x \in S : g[x] = h[x]
  PROVE  HeldIn(g, S) = HeldIn(h, S)
BY DEF HeldIn

LEMMA HeldCount ==
  ASSUME NEW S, IsFiniteSet(S), NEW h
  PROVE  /\ Cardinality(HeldIn(h, S)) \in Nat
         /\ Cardinality(HeldIn(h, S)) = 0 <=> \A r \in S : h[r] = None
<1>1. IsFiniteSet(HeldIn(h, S))  BY FS_Subset DEF HeldIn
<1> QED  BY <1>1, FS_CardinalityType, FS_EmptySet DEF HeldIn

\* What RefsExact says, with the argument of the count visible
LEMMA Exact ==
  RefsExact <=> /\ refcount = Cardinality(HeldIn(held, ComponentRefs))
                /\ refcountPorts = Cardinality(HeldIn(held, PortRefs))
BY DEF RefsExact, Held, HeldIn

LEMMA ExactPrime ==
  RefsExact' <=> /\ refcount' = Cardinality(HeldIn(held', ComponentRefs))
                 /\ refcountPorts' = Cardinality(HeldIn(held', PortRefs))
BY DEF RefsExact, Held, HeldIn

LEMMA CountInit == Init => CountInv
<1> SUFFICES ASSUME Init PROVE CountInv  OBVIOUS
<1> USE ComponentAssumption
<1>1. PICK r \in ComponentRefs, t \in Threads :
        held = [x \in Refs |-> IF x = r THEN t ELSE None]
      BY DEF Init
<1>2. t # None  OBVIOUS
<1>3. TypeOK  BY <1>1 DEF TypeOK, Init
<1>4. ArgHeld  BY DEF Init, ArgHeld
<1>5. Held(ComponentRefs) = {r}  BY <1>1, <1>2 DEF Held, Refs
<1>6. Held(PortRefs) = {}  BY <1>1, <1>2 DEF Held, Refs
<1>7. RefsExact  BY <1>5, <1>6, FS_Singleton, FS_EmptySet DEF RefsExact, Init
<1> QED  BY <1>3, <1>4, <1>7 DEF CountInv

\* A thread gives up the reference it releases: what the two releases share.
LEMMA CountedDown ==
  ASSUME CountInv, NEW t \in Threads, DropRef(t), NEW S, S \in {ComponentRefs, PortRefs},
         arg[t] \in S, held[arg[t]] = t,
         \A u \in Threads \ {t} : pc'[u] = pc[u],
         pc'[t] \notin {"release", "releasePort"}
  PROVE  /\ Cardinality(HeldIn(held, S)) = Cardinality(HeldIn(held', S)) + 1
         /\ \A T : T \in {ComponentRefs, PortRefs} /\ T # S => HeldIn(held', T) = HeldIn(held, T)
         /\ held' \in [Refs -> Threads \cup {None}] /\ arg' \in [Threads -> Refs \cup {None}]
         /\ ArgHeld'
<1> USE ComponentAssumption
<1>1. /\ held \in [Refs -> Threads \cup {None}] /\ arg \in [Threads -> Refs \cup {None}]
      /\ S \subseteq Refs /\ IsFiniteSet(S) /\ t # None
      BY DEF CountInv, TypeOK, Refs
<1>2. held' = [held EXCEPT ![arg[t]] = None] /\ arg' = [arg EXCEPT ![t] = None]
      BY DEF DropRef
<1>3. held'[arg[t]] = None /\ \A x \in Refs \ {arg[t]} : held'[x] = held[x]
      BY <1>1, <1>2
<1>4. Cardinality(HeldIn(held, S)) = Cardinality(HeldIn(held', S)) + 1
  <2>1. \A x \in S \ {arg[t]} : held[x] = held'[x]  BY <1>1, <1>3
  <2> QED  BY <1>1, <1>3, <2>1, HoldOne
<1>5. ASSUME NEW T, T \in {ComponentRefs, PortRefs}, T # S
      PROVE  HeldIn(held', T) = HeldIn(held, T)
  <2>1. arg[t] \notin T /\ T \subseteq Refs  BY <1>5 DEF Refs
  <2> QED  BY <1>3, <2>1, HoldSame
<1>6. held' \in [Refs -> Threads \cup {None}] /\ arg' \in [Threads -> Refs \cup {None}]
      BY <1>1, <1>2
<1>7. ArgHeld'
  <2> SUFFICES ASSUME NEW u \in Threads
               PROVE  /\ pc'[u] = "release" => arg'[u] \in ComponentRefs /\ held'[arg'[u]] = u
                      /\ pc'[u] = "releasePort" => arg'[u] \in PortRefs /\ held'[arg'[u]] = u
      BY DEF ArgHeld
  <2>1. CASE u = t  BY <2>1
  <2>2. CASE u # t
    <3>1. arg'[u] = arg[u] /\ pc'[u] = pc[u]  BY <1>1, <1>2, <2>2
    <3>2. ASSUME pc[u] \in {"release", "releasePort"} PROVE held'[arg[u]] = u
      <4>1. arg[u] \in Refs /\ held[arg[u]] = u  BY <3>2 DEF CountInv, ArgHeld, Refs
      <4> QED  BY <1>3, <2>2, <4>1
    <3> QED  BY <3>1, <3>2 DEF CountInv, ArgHeld
  <2> QED  BY <2>1, <2>2
<1> QED  BY <1>4, <1>5, <1>6, <1>7

LEMMA CountStep == CountInv /\ [Next]_vars => CountInv'
<1> SUFFICES ASSUME CountInv, [Next]_vars PROVE CountInv'  OBVIOUS
<1> USE ComponentAssumption
<1>0. TypeOK /\ ArgHeld /\ RefsExact  BY DEF CountInv
<1>1. ASSUME NEW t \in Threads, NEW r \in ComponentRefs, NEW u \in Threads, Acquire(t, r, u)
      PROVE  CountInv'
  <2>1. /\ refcount' = refcount + 1 /\ refcountPorts' = refcountPorts
        /\ held' = [held EXCEPT ![r] = u] /\ pc' = pc /\ arg' = arg /\ held[r] = None
        BY <1>1 DEF Acquire
  <2>2. held'[r] = u /\ u # None /\ \A x \in Refs \ {r} : held'[x] = held[x]
        BY <1>0, <2>1 DEF TypeOK, Refs
  <2>3. Cardinality(HeldIn(held', ComponentRefs)) = Cardinality(HeldIn(held, ComponentRefs)) + 1
    <3>1. \A x \in ComponentRefs \ {r} : held'[x] = held[x]  BY <2>2 DEF Refs
    <3> QED  BY <2>1, <2>2, <3>1, HoldOne
  <2>4. HeldIn(held', PortRefs) = HeldIn(held, PortRefs)
    <3>1. \A x \in PortRefs : held'[x] = held[x]  BY <2>2 DEF Refs
    <3> QED  BY <3>1, HoldSame
  <2>5. RefsExact'  BY <1>0, <2>1, <2>3, <2>4, Exact, ExactPrime
  <2>6. TypeOK'
    <3>1. held' \in [Refs -> Threads \cup {None}]  BY <1>0, <2>1 DEF TypeOK
    <3>2. UNCHANGED <<destructionPending, enabled, thread, component>>  BY <1>1 DEF Acquire
    <3> QED  BY <1>0, <2>1, <3>1, <3>2 DEF TypeOK, thread
  <2>7. ArgHeld'  BY <1>0, <2>1, <2>2 DEF ArgHeld, Refs
  <2> QED  BY <2>5, <2>6, <2>7 DEF CountInv
<1>2. ASSUME NEW t \in Threads, NEW p \in PortRefs, NEW u \in Threads, AcquirePort(t, p, u)
      PROVE  CountInv'
  <2>1. /\ refcount' = refcount /\ refcountPorts' = refcountPorts + 1
        /\ held' = [held EXCEPT ![p] = u] /\ pc' = pc /\ arg' = arg /\ held[p] = None
        BY <1>2 DEF AcquirePort, PortsCounted
  <2>2. held'[p] = u /\ u # None /\ \A x \in Refs \ {p} : held'[x] = held[x]
        BY <1>0, <2>1 DEF TypeOK, Refs
  <2>3. Cardinality(HeldIn(held', PortRefs)) = Cardinality(HeldIn(held, PortRefs)) + 1
    <3>1. \A x \in PortRefs \ {p} : held'[x] = held[x]  BY <2>2 DEF Refs
    <3> QED  BY <2>1, <2>2, <3>1, HoldOne
  <2>4. HeldIn(held', ComponentRefs) = HeldIn(held, ComponentRefs)
    <3>1. \A x \in ComponentRefs : held'[x] = held[x]  BY <2>2 DEF Refs
    <3> QED  BY <3>1, HoldSame
  <2>5. RefsExact'  BY <1>0, <2>1, <2>3, <2>4, Exact, ExactPrime
  <2>6. TypeOK'
    <3>1. held' \in [Refs -> Threads \cup {None}]  BY <1>0, <2>1 DEF TypeOK
    <3>2. UNCHANGED <<destructionPending, enabled, thread, component>>  BY <1>2 DEF AcquirePort
    <3> QED  BY <1>0, <2>1, <3>1, <3>2 DEF TypeOK, thread
  <2>7. ArgHeld'  BY <1>0, <2>1, <2>2 DEF ArgHeld, Refs
  <2> QED  BY <2>5, <2>6, <2>7 DEF CountInv
<1>3. ASSUME NEW t \in Threads, NEW r \in Refs, Release(t, r)  PROVE  CountInv'
  <2>1. RefsExact'  BY <1>0, <1>3 DEF RefsExact, Held, Release, counts
  <2>2. TypeOK'  BY <1>0, <1>3 DEF TypeOK, Release, counts, thread, Goto
  <2>3. ArgHeld'  BY <1>0, <1>3 DEF ArgHeld, TypeOK, Release, Goto, Refs
  <2> QED  BY <2>1, <2>2, <2>3 DEF CountInv
<1>4. ASSUME NEW t \in Threads, CountDown(t)  PROVE  CountInv'
  <2>1. /\ refcount' = refcount - 1 /\ refcountPorts' = refcountPorts
        /\ pc[t] = "release" /\ DropRef(t) /\ pc' = [pc EXCEPT ![t] = pc'[t]]
        /\ pc'[t] \in {"disable", "idle"} /\ destructionPending' \in BOOLEAN
        BY <1>0, <1>4 DEF CountDown, Goto, TypeOK
  <2>2. arg[t] \in ComponentRefs /\ held[arg[t]] = t  BY <1>0, <2>1 DEF ArgHeld
  <2>3. /\ Cardinality(HeldIn(held, ComponentRefs)) = Cardinality(HeldIn(held', ComponentRefs)) + 1
        /\ \A T : T \in {ComponentRefs, PortRefs} /\ T # ComponentRefs
                    => HeldIn(held', T) = HeldIn(held, T)
        /\ held' \in [Refs -> Threads \cup {None}] /\ arg' \in [Threads -> Refs \cup {None}]
        /\ ArgHeld'
    <3>1. \A u \in Threads \ {t} : pc'[u] = pc[u]  BY <1>0, <2>1 DEF TypeOK
    <3> QED  BY <2>1, <2>2, <3>1, CountedDown
  <2>4. HeldIn(held', PortRefs) = HeldIn(held, PortRefs)
    <3>1. PortRefs # ComponentRefs  BY <2>2
    <3> QED  BY <2>3, <3>1
  <2>5. Cardinality(HeldIn(held', ComponentRefs)) \in Nat  BY HeldCount
  <2>6. refcount' \in Nat /\ RefsExact'  BY <1>0, <2>1, <2>3, <2>4, <2>5, Exact, ExactPrime
  <2>7. TypeOK'
    <3>1. pc' \in [Threads -> {"idle", "release", "releasePort", "delayed"} \cup Destroying]
          BY <1>0, <2>1 DEF TypeOK, Destroying
    <3>2. UNCHANGED <<enabled, thread, component>>  BY <1>4 DEF CountDown
    <3> QED  BY <1>0, <2>1, <2>3, <2>6, <3>1, <3>2 DEF TypeOK, thread
  <2> QED  BY <2>3, <2>6, <2>7 DEF CountInv
<1>5. ASSUME NEW t \in Threads, CountDownPorts(t)  PROVE  CountInv'
  <2>1. /\ refcount' = refcount /\ refcountPorts' = refcountPorts - 1
        /\ pc[t] = "releasePort" /\ DropRef(t) /\ pc' = [pc EXCEPT ![t] = pc'[t]]
        /\ pc'[t] \in {"deregister", "idle"}
        BY <1>0, <1>5 DEF CountDownPorts, Goto, TypeOK
  <2>2. arg[t] \in PortRefs /\ held[arg[t]] = t  BY <1>0, <2>1 DEF ArgHeld
  <2>3. /\ Cardinality(HeldIn(held, PortRefs)) = Cardinality(HeldIn(held', PortRefs)) + 1
        /\ \A T : T \in {ComponentRefs, PortRefs} /\ T # PortRefs
                    => HeldIn(held', T) = HeldIn(held, T)
        /\ held' \in [Refs -> Threads \cup {None}] /\ arg' \in [Threads -> Refs \cup {None}]
        /\ ArgHeld'
    <3>1. \A u \in Threads \ {t} : pc'[u] = pc[u]  BY <1>0, <2>1 DEF TypeOK
    <3> QED  BY <2>1, <2>2, <3>1, CountedDown
  <2>4. HeldIn(held', ComponentRefs) = HeldIn(held, ComponentRefs)
    <3>1. PortRefs # ComponentRefs  BY <2>2
    <3> QED  BY <2>3, <3>1
  <2>5. Cardinality(HeldIn(held', PortRefs)) \in Nat  BY HeldCount
  <2>6. refcountPorts' \in Nat /\ RefsExact'
        BY <1>0, <2>1, <2>3, <2>4, <2>5, Exact, ExactPrime
  <2>7. TypeOK'
    <3>1. pc' \in [Threads -> {"idle", "release", "releasePort", "delayed"} \cup Destroying]
          BY <1>0, <2>1 DEF TypeOK, Destroying, Last
    <3>2. UNCHANGED <<destructionPending, enabled, thread, component>>
          BY <1>5 DEF CountDownPorts
    <3> QED  BY <1>0, <2>1, <2>3, <2>6, <3>1, <3>2 DEF TypeOK, thread
  <2> QED  BY <2>3, <2>6, <2>7 DEF CountInv
<1>6. ASSUME NEW t \in Threads,
             \/ \E q \in Ports : EnablePort(t, q) \/ DisablePort(t, q)
             \/ PortsDisabled(t) \/ CheckPorts(t) \/ TraceDelayed(t)
             \/ Deregister(t) \/ JoinAction(t) \/ PfDestroy(t)
      PROVE  CountInv'
  <2>1. /\ UNCHANGED <<refcount, refcountPorts, held, arg>>
        /\ pc' = [pc EXCEPT ![t] = pc'[t]] /\ enabled' \subseteq Ports
        /\ pc'[t] \notin {"release", "releasePort"} \/ pc'[t] = pc[t]
        /\ pc'[t] \in {"idle", "release", "releasePort", "delayed"} \cup Destroying
        /\ destructionPending' \in BOOLEAN /\ actionQuit' \in BOOLEAN
        /\ component' \in {"live", "freed", "leaked"} /\ action' = action
        BY <1>0, <1>6 DEF EnablePort, DisablePort, PortsDisabled, CheckPorts, TraceDelayed,
           Deregister, JoinAction, PfDestroy, Goto, counts, thread, TypeOK, Destroying, Last,
           PendingAfterDelay
  <2>2. RefsExact'  BY <1>0, <2>1 DEF RefsExact, Held
  <2>3. TypeOK'  BY <1>0, <2>1 DEF TypeOK
  <2>4. ArgHeld'  BY <1>0, <2>1 DEF ArgHeld, TypeOK
  <2> QED  BY <2>2, <2>3, <2>4 DEF CountInv
<1>7. CASE ActionRuns \/ ActionDone \/ ActionQuits
  <2>1. /\ UNCHANGED <<refcount, refcountPorts, destructionPending, enabled, actionQuit>>
        /\ UNCHANGED <<component, held, pc, arg>> /\ action' \in {"waiting", "running", "gone"}
        BY <1>7 DEF ActionRuns, ActionDone, ActionQuits, counts
  <2> QED  BY <1>0, <2>1 DEF CountInv, TypeOK, RefsExact, Held, ArgHeld
<1>8. CASE UNCHANGED vars
  <2>1. /\ UNCHANGED <<refcount, refcountPorts, destructionPending, enabled, action, actionQuit>>
        /\ UNCHANGED <<component, held, pc, arg>>
        BY <1>8 DEF vars, counts, thread
  <2> QED  BY <1>0, <2>1 DEF CountInv, TypeOK, RefsExact, Held, ArgHeld
<1> QED  BY <1>1, <1>2, <1>3, <1>4, <1>5, <1>6, <1>7, <1>8 DEF Next, InCall, Begin, Over

-----------------------------------------------------------------------------
(* Who destroys the component                                               *)

\* A reference that a thread has is counted.
LEMMA Counted ==
  ASSUME CountInv, NEW t \in Threads
  PROVE  /\ Has(t, ComponentRefs) \/ pc[t] = "release" => refcount > 0
         /\ Has(t, Refs) => refcount > 0 \/ refcountPorts > 0
         /\ pc[t] = "releasePort" => refcountPorts > 0
<1> USE ComponentAssumption
<1>1. /\ refcount = Cardinality(HeldIn(held, ComponentRefs)) /\ refcount \in Nat
      /\ refcountPorts = Cardinality(HeldIn(held, PortRefs)) /\ refcountPorts \in Nat
      BY Exact DEF CountInv, TypeOK
<1>2. t # None  OBVIOUS
<1>3. ASSUME NEW r \in ComponentRefs, held[r] = t PROVE refcount > 0
      BY <1>1, <1>2, <1>3, HeldCount
<1>4. ASSUME NEW r \in PortRefs, held[r] = t PROVE refcountPorts > 0
      BY <1>1, <1>2, <1>4, HeldCount
<1> QED  BY <1>3, <1>4 DEF Has, Refs, CountInv, ArgHeld

\* A step of a thread that destroys nothing and changes no count keeps LifeInv.
LEMMA Elsewhere ==
  ASSUME TypeOK, LifeInv, NEW t \in Threads,
         UNCHANGED <<destructionPending, component>>,
         action = "gone" => action' = "gone",
         \A u \in Threads : pc'[u] = pc[u] \/ (pc[u] \notin Destroying /\ pc'[u] \notin Destroying),
         \/ UNCHANGED <<refcount, refcountPorts>>
         \/ /\ refcount > 0 \/ (refcountPorts > 0 /\ refcount' = refcount)
            /\ refcount' > 0 \/ refcountPorts' > 0
            /\ refcount > 0 => refcount' > 0
  PROVE  LifeInv'
<1> USE DEF LifeInv, Destroying, Last
<1>1. Sole'  BY DEF Sole
<1>2. Somebody <=> Somebody'  BY DEF Somebody
<1>3. Stage'  BY DEF Stage, TypeOK
<1>4. Pending'  BY <1>2 DEF Pending, TypeOK
<1>5. Gone'  BY DEF Gone, TypeOK
<1>6. Remembered'  BY <1>2 DEF Remembered, TypeOK
<1> QED  BY <1>1, <1>3, <1>4, <1>5, <1>6

LEMMA LifeInit == Init => LifeInv
BY DEF Init, LifeInv, Sole, Stage, Pending, Gone, Remembered, Somebody, Destroying, Last

LEMMA LifeStep == CountInv /\ LifeInv /\ [Next]_vars => LifeInv'
<1> SUFFICES ASSUME CountInv, LifeInv, [Next]_vars PROVE LifeInv'  OBVIOUS
<1>0. TypeOK /\ refcount \in Nat /\ refcountPorts \in Nat  BY DEF CountInv, TypeOK
<1>1. ASSUME NEW t \in Threads, NEW r \in ComponentRefs, NEW u \in Threads, Acquire(t, r, u)
      PROVE  LifeInv'
  <2>1. refcount > 0  BY <1>1, Counted DEF Acquire
  <2> QED  BY <1>0, <1>1, <2>1, Elsewhere DEF Acquire, thread
<1>2. ASSUME NEW t \in Threads, NEW p \in PortRefs, NEW u \in Threads, AcquirePort(t, p, u)
      PROVE  LifeInv'
  <2>1. refcount > 0 \/ refcountPorts > 0  BY <1>2, Counted DEF AcquirePort
  <2> QED  BY <1>0, <1>2, <2>1, Elsewhere DEF AcquirePort, PortsCounted, thread
<1>3. ASSUME NEW t \in Threads, \E q \in Ports : EnablePort(t, q) \/ DisablePort(t, q)
      PROVE  LifeInv'
      BY <1>0, <1>3, Elsewhere DEF EnablePort, DisablePort, counts, thread
<1>4. ASSUME NEW t \in Threads, NEW r \in Refs, Release(t, r)  PROVE  LifeInv'
  <2>1. \A u \in Threads :
          pc'[u] = pc[u] \/ (pc[u] \notin Destroying /\ pc'[u] \notin Destroying)
        BY <1>0, <1>4 DEF Release, Goto, TypeOK, Destroying, Last
  <2> QED  BY <1>0, <1>4, <2>1, Elsewhere DEF Release, counts, thread
<1>5. ASSUME NEW t \in Threads, TraceDelayed(t)  PROVE  LifeInv'
  <2>1. \A u \in Threads :
          pc'[u] = pc[u] \/ (pc[u] \notin Destroying /\ pc'[u] \notin Destroying)
        BY <1>0, <1>5 DEF TraceDelayed, Goto, TypeOK, Destroying, Last
  <2> QED  BY <1>0, <1>5, <2>1, Elsewhere DEF TraceDelayed, counts, thread
<1>6. ASSUME NEW t \in Threads, CountDown(t)  PROVE  LifeInv'
  <2>1. refcount > 0 /\ ~Somebody /\ ~destructionPending /\ component = "live"
        BY <1>0, <1>6, Counted DEF CountDown, LifeInv, Stage, Somebody, Pending, Gone
  <2>2. /\ refcount' = refcount - 1 /\ refcountPorts' = refcountPorts
        /\ component' = component /\ action' = action
        /\ destructionPending' = (destructionPending \/ refcount = 1)
        /\ pc' = [pc EXCEPT ![t] = IF refcount = 1 THEN "disable" ELSE "idle"]
        BY <1>6 DEF CountDown, Goto, thread
  <2>3. \A u \in Threads \ {t} : pc'[u] \notin Destroying
        BY <1>0, <2>1, <2>2 DEF Somebody, TypeOK
  <2>4. pc'[t] = IF refcount = 1 THEN "disable" ELSE "idle"  BY <1>0, <2>2 DEF TypeOK
  <2>5. Sole'  BY <2>3 DEF Sole
  <2>6. CASE refcount = 1
    <3>0. destructionPending' = TRUE  BY <2>2, <2>6, Zenon
    <3>1. pc'[t] = "disable" /\ refcount' = 0 /\ destructionPending'
      <4>1. pc'[t] = "disable"  BY <2>4, <2>6
      <4>2. refcount' = 0  BY <2>2, <2>6
      <4> QED  BY <3>0, <4>1, <4>2, Zenon
    <3>2. Stage'
      <4> SUFFICES ASSUME NEW u \in Threads, pc'[u] \in Destroying
                   PROVE  /\ component' = "live" /\ refcount' = 0 /\ destructionPending'
                          /\ pc'[u] \notin Last
          BY DEF Stage, Destroying, Last
      <4>1. u = t  BY <2>3
      <4> QED  BY <2>1, <2>2, <3>1, <4>1 DEF Last
    <3>3. Somebody'  BY <3>1 DEF Somebody, Destroying
    <3> QED  BY <2>1, <2>2, <2>5, <3>1, <3>2, <3>3 DEF LifeInv, Pending, Gone, Remembered
  <2>7. CASE refcount # 1
    <3>1. pc'[t] = "idle" /\ refcount' # 0 /\ ~destructionPending'
      <4>1. pc'[t] = "idle"  BY <2>4, <2>7
      <4>2. refcount' # 0  BY <1>0, <2>1, <2>2, <2>7
      <4>3. ~destructionPending'  BY <2>1, <2>2, <2>7, Zenon
      <4> QED  BY <4>1, <4>2, <4>3, Zenon
    <3>2. Stage'  BY <2>3, <3>1 DEF Stage, Destroying, Last
    <3> QED  BY <2>1, <2>2, <2>5, <3>1, <3>2 DEF LifeInv, Pending, Gone, Remembered
  <2> QED  BY <2>6, <2>7
<1>7. ASSUME NEW t \in Threads, CountDownPorts(t)  PROVE  LifeInv'
  <2>1. refcountPorts > 0 /\ component = "live" /\ \A u \in Threads : pc[u] \notin Last
        BY <1>0, <1>7, Counted DEF CountDownPorts, LifeInv, Stage, Gone
  <2>2. /\ refcount' = refcount /\ refcountPorts' = refcountPorts - 1
        /\ component' = component /\ action' = action /\ destructionPending' = destructionPending
        /\ pc' = [pc EXCEPT ![t] = IF refcountPorts = 1 /\ NothingElseHere
                                   THEN "deregister" ELSE "idle"]
        /\ pc[t] = "releasePort"
        BY <1>7 DEF CountDownPorts, Goto, thread
  <2>3. /\ \A u \in Threads \ {t} : pc'[u] = pc[u]
        /\ pc'[t] = IF refcountPorts = 1 /\ NothingElseHere THEN "deregister" ELSE "idle"
        BY <1>0, <2>2 DEF TypeOK
  <2>4. CASE refcountPorts = 1 /\ NothingElseHere
    <3>1. refcount = 0 /\ ~destructionPending  BY <2>4 DEF NothingElseHere
    <3>2. \A u \in Threads : pc[u] \notin Destroying
          BY <2>1, <3>1 DEF LifeInv, Stage, Destroying
    <3>3. \A u \in Threads \ {t} : pc'[u] \notin Destroying  BY <2>3, <3>2
    <3>4. pc'[t] = "deregister"  BY <2>3, <2>4
    <3>5. Sole'  BY <3>3 DEF Sole
    <3>6. Stage'  BY <2>1, <2>2, <2>4, <3>1, <3>3, <3>4 DEF Stage, Destroying, Last
    <3>7. Pending' /\ Gone' /\ Remembered'
          BY <2>1, <2>2, <3>1, <3>4 DEF Pending, Gone, Remembered, Somebody, Destroying, Last
    <3> QED  BY <3>5, <3>6, <3>7 DEF LifeInv
  <2>5. CASE ~(refcountPorts = 1 /\ NothingElseHere)
    <3>1. pc'[t] = "idle"  BY <2>3, <2>5
    <3>2. Somebody' <=> Somebody  BY <2>2, <2>3, <3>1 DEF Somebody, Destroying, Last
    <3>3. Sole'  BY <2>3, <3>1 DEF LifeInv, Sole, Destroying, Last
    <3>4. Stage'
      <4> SUFFICES ASSUME NEW u \in Threads, pc'[u] \in Destroying
                   PROVE  /\ component' = "live" /\ refcount' = 0
                          /\ pc'[u] \in {"disable", "check"} => destructionPending'
                          /\ pc'[u] \notin Last
          BY DEF Stage, Destroying, Last
      <4>1. u # t /\ pc'[u] = pc[u]  BY <2>3, <3>1 DEF Destroying, Last
      <4> QED  BY <2>1, <2>2, <4>1 DEF LifeInv, Stage
    <3>5. Pending' /\ Gone'  BY <2>1, <2>2, <3>2 DEF LifeInv, Pending, Gone
    <3>6. Remembered'
      <4> SUFFICES ASSUME refcount = 0, refcountPorts = 1 PROVE Somebody
          BY <1>0, <2>2, <3>2 DEF Remembered
      <4>1. destructionPending  BY <2>5 DEF NothingElseHere
      <4> QED  BY <2>1, <4>1 DEF LifeInv, Pending
    <3> QED  BY <3>3, <3>4, <3>5, <3>6 DEF LifeInv
  <2> QED  BY <2>4, <2>5
<1>8. ASSUME NEW t \in Threads, PortsDisabled(t) \/ Deregister(t) \/ JoinAction(t)
      PROVE  LifeInv'
  <2>1. /\ UNCHANGED <<refcount, refcountPorts, destructionPending, component, action>>
        /\ \A u \in Threads \ {t} : pc'[u] = pc[u]
        /\ pc[t] \in Destroying /\ pc'[t] \in Destroying
        /\ pc'[t] \in {"disable", "check"} => pc[t] \in {"disable", "check"}
        /\ pc'[t] \in Last => pc[t] \in Last
        /\ pc'[t] = "pfDestroy" => action = "gone"
        BY <1>0, <1>8 DEF PortsDisabled, Deregister, JoinAction, Joined, Goto, counts, thread,
           TypeOK, Destroying, Last
  <2>2. Sole'  BY <2>1 DEF LifeInv, Sole
  <2>3. Stage'  BY <2>1 DEF LifeInv, Stage
  <2>4. Somebody /\ Somebody'  BY <2>1 DEF Somebody
  <2>5. Pending' /\ Gone' /\ Remembered'
        BY <2>1, <2>4 DEF LifeInv, Pending, Gone, Remembered
  <2> QED  BY <2>2, <2>3, <2>5 DEF LifeInv
<1>9. ASSUME NEW t \in Threads, CheckPorts(t)  PROVE  LifeInv'
  <2>1. /\ pc[t] = "check" /\ component = "live" /\ refcount = 0
        /\ UNCHANGED <<refcount, refcountPorts, component, action>>
        BY <1>9 DEF CheckPorts, LifeInv, Stage, Destroying, thread
  <2>2. \A u \in Threads \ {t} : pc'[u] = pc[u] /\ pc[u] \notin Destroying
        BY <1>0, <1>9, <2>1 DEF CheckPorts, Goto, TypeOK, LifeInv, Sole, Destroying
  <2>3. \/ refcountPorts # 0 /\ destructionPending' = FALSE /\ pc'[t] = "delayed"
        \/ /\ refcountPorts = 0 /\ destructionPending' = destructionPending
           /\ pc'[t] = "deregister"
        BY <1>0, <1>9 DEF CheckPorts, Delayed, PendingAfterDelay, Goto, TypeOK
  <2>4. Sole'  BY <2>2 DEF Sole
  <2>5. Stage'  BY <2>1, <2>2, <2>3 DEF Stage, Destroying, Last
  <2>6. Pending' /\ Gone' /\ Remembered'
        BY <2>1, <2>3 DEF Pending, Gone, Remembered, Somebody, Destroying, Last
  <2> QED  BY <2>4, <2>5, <2>6 DEF LifeInv
<1>10. ASSUME NEW t \in Threads, PfDestroy(t)  PROVE  LifeInv'
  <2>1. /\ pc[t] = "pfDestroy" /\ refcount = 0 /\ refcountPorts = 0 /\ action = "gone"
        /\ UNCHANGED <<refcount, refcountPorts, destructionPending, action>>
        /\ component' # "live"
        BY <1>10 DEF PfDestroy, LifeInv, Stage, Destroying, Last, counts, thread
  <2>2. /\ \A u \in Threads \ {t} : pc'[u] \notin Destroying
        /\ pc'[t] = "idle"
        BY <1>0, <1>10, <2>1 DEF PfDestroy, Goto, TypeOK, LifeInv, Sole, Destroying, Last
  <2>3. Sole'  BY <2>2 DEF Sole
  <2>4. Stage'  BY <2>2 DEF Stage, Destroying, Last
  <2> QED  BY <2>1, <2>3, <2>4 DEF LifeInv, Pending, Gone, Remembered
<1>11. CASE ActionRuns \/ ActionDone \/ ActionQuits
  <2>1. /\ UNCHANGED <<refcount, refcountPorts, destructionPending, component, pc>>
        /\ action = "gone" => action' = "gone"
        BY <1>11 DEF ActionRuns, ActionDone, ActionQuits, counts
  <2> QED  BY <2>1 DEF LifeInv, Sole, Stage, Pending, Gone, Remembered, Somebody
<1>12. CASE UNCHANGED vars
  <2>1. UNCHANGED <<refcount, refcountPorts, destructionPending, component, pc, action>>
        BY <1>12 DEF vars, counts, thread
  <2> QED  BY <2>1 DEF LifeInv, Sole, Stage, Pending, Gone, Remembered, Somebody
<1> QED  BY <1>1, <1>2, <1>3, <1>4, <1>5, <1>6, <1>7, <1>8, <1>9, <1>10, <1>11, <1>12
         DEF Next, InCall, Begin, Over

-----------------------------------------------------------------------------

\* The invariant the rest follows from: the counts are exact, one thread at most is
\* destroying the component, and where it is says what the counts and the flag are.
THEOREM Inductive == Spec => []IInv
<1>1. Init => IInv  BY CountInit, LifeInit DEF IInv
<1>2. IInv /\ [Next]_vars => IInv'  BY CountStep, LifeStep DEF IInv
<1> QED  BY <1>1, <1>2, PTL DEF Spec

\* Every variable has its type, and neither count of mmal_component.c goes below zero.
THEOREM ComponentTypeCorrect == Spec => []TypeOK
<1>1. IInv => TypeOK  BY DEF IInv, CountInv
<1> QED  BY <1>1, Inductive, PTL

\* refcount and refcount_ports are the numbers of references that threads have.
THEOREM ReferencesCounted == Spec => []RefsExact
<1>1. IInv => RefsExact  BY DEF IInv, CountInv
<1> QED  BY <1>1, Inductive, PTL

\* However releases of the component and of its ports meet, one thread at most is
\* destroying the component, and it destroys a component that is still there.
THEOREM OneDestroyer == Spec => []OneDestroys
<1>1. IInv => OneDestroys  BY DEF IInv, LifeInv, Sole, Stage, OneDestroys
<1> QED  BY <1>1, Inductive, PTL

\* No thread has a reference when both counts are zero.
LEMMA NoneHeld ==
  ASSUME RefsExact, TypeOK
  PROVE  refcount = 0 /\ refcountPorts = 0 <=> Held(Refs) = {}
<1> USE ComponentAssumption
<1>1. refcount = 0 <=> \A r \in ComponentRefs : held[r] = None  BY Exact, HeldCount
<1>2. refcountPorts = 0 <=> \A p \in PortRefs : held[p] = None  BY Exact, HeldCount
<1> QED  BY <1>1, <1>2 DEF Held, Refs

\* Nobody has a reference to a component that mmal_component_destroy_internal is
\* taking apart, or has freed.
THEOREM FreedHasNoReferences == Spec => []FreedUnreferenced
<1>1. ASSUME IInv PROVE FreedUnreferenced
  <2>1. TypeOK /\ RefsExact /\ Stage /\ Gone  BY <1>1 DEF IInv, CountInv, LifeInv
  <2>2. component # "live" \/ (\E t \in Threads : pc[t] \in Last)
          => refcount = 0 /\ refcountPorts = 0
        BY <2>1 DEF Stage, Gone, Destroying
  <2> QED  BY <2>1, <2>2, NoneHeld DEF FreedUnreferenced
<1> QED  BY <1>1, Inductive, PTL

\* When the component is freed its action thread has ended, and no other call uses
\* the component but for the trace of a delayed destruction.
THEOREM FreedIsQuiet == Spec => []FreedQuiet
<1>1. ASSUME IInv PROVE FreedQuiet
  <2> SUFFICES ASSUME component # "live", NEW t \in Threads
               PROVE  action = "gone" /\ pc[t] \in {"idle", "delayed"}
      BY <1>1 DEF FreedQuiet, IInv, LifeInv, Gone
  <2>1. action = "gone" /\ refcount = 0 /\ refcountPorts = 0
        BY <1>1 DEF IInv, LifeInv, Gone
  <2>2. pc[t] \notin Destroying  BY <1>1 DEF IInv, LifeInv, Stage
  <2>3. pc[t] \notin {"release", "releasePort"}
        BY <1>1, <2>1, Counted DEF IInv, CountInv, TypeOK
  <2> QED  BY <1>1, <2>1, <2>2, <2>3 DEF IInv, CountInv, TypeOK
<1> QED  BY <1>1, Inductive, PTL

\* A live component without references is being destroyed by some thread.
THEOREM NeverForgotten == Spec => []NotForgotten
<1>1. ASSUME IInv PROVE NotForgotten
  <2>1. TypeOK /\ RefsExact /\ Remembered  BY <1>1 DEF IInv, CountInv, LifeInv
  <2> QED  BY <2>1, NoneHeld DEF NotForgotten, Remembered, Somebody
<1> QED  BY <1>1, Inductive, PTL

=============================================================================
