-------------------------- MODULE InstanceLeases --------------------------
(***************************************************************************)
(* ScopedAgentInstancePool of mcp/server/instance_lease_pool.py on top of  *)
(* the factory of core/managed_runtime.py, reloads of the agents           *)
(* (core/agent_card_runtime.py) and the end of the run                     *)
(* (core/run_runtime.py).                                                  *)
(*                                                                         *)
(* Requests lease instances: the shared one, one of their own or the one   *)
(* of their connection. An action runs from one await to the next. What    *)
(* actors dispose of they keep in todo, and every disposal, a request's, a *)
(* session's or the shutdown's, goes through Dispose and ShutDown.         *)
(***************************************************************************)
EXTENDS Integers, Sequences, FiniteSets, SequencesExt

CONSTANTS
    Tasks,         \* the requests
    Keys,          \* the connections, by the id of their session
    Stacked,       \* connections whose session has an exit stack
    Main,          \* who shuts the pool down and finalizes the run
    None,          \* nobody
    Scopes,        \* instance_scope: see ScopeValues
    MaxInstances,  \* bound: instances at a time
    MaxVersion,    \* bound: versions of the registry of agents
    Drained,       \* whether the pool is shut down after its last request
    Interruptible  \* the awaits at which a request may be cancelled

Actors == Tasks \cup Keys \cup {Main}
Instances == 1..MaxInstances
Locks == {"shared", "connection", "instance"}
ScopeValues == {"shared", "request", "connection"}
Awaits == {"refresh", "connect", "instantiate", "building", "dispose", "shutting"}

ASSUME ActorsAssumption == /\ Tasks \cap Keys = {} /\ Main \notin Tasks \cup Keys
                           /\ None \notin Actors
ASSUME FiniteAssumption == IsFiniteSet(Tasks)
ASSUME StackedAssumption == Stacked \subseteq Keys
ASSUME BoundsAssumption == MaxInstances \in Nat \ {0} /\ MaxVersion \in Nat
ASSUME ScopesAssumption == Scopes \subseteq ScopeValues
ASSUME DrainedAssumption == Drained \in BOOLEAN
ASSUME InterruptibleAssumption == Interruptible \subseteq Awaits

VARIABLES
    scope,     \* instance_scope
    version,   \* _agent_registry_version
    lock,      \* holder of each lock: the pool's two and the runtime's
    primary,   \* primary_instance
    current,   \* _primary_registry_version
    count,     \* _shared_active_requests
    stale,     \* _stale_instances
    conns,     \* _connection_instances: of a connection, or 0
    cleanups,  \* the keys of _connection_cleanup_tasks
    managed,   \* managed_instances of the runtime
    label,     \* registry_version of an instance
    state,     \* whether an instance is live, being shut down or shut down
    pc,        \* where each actor is
    lease,     \* the instance a request holds, or 0
    key,       \* the connection of a request
    todo,      \* the instances an actor is about to dispose of
    phase,     \* how far the shutdown is
    pending,   \* the cleanups the shutdown has yet to call
    reading,   \* the version whose definitions are being built, or 0
    made,      \* the version of the definitions an instance was built from
    since      \* the version when a request called acquire

pool == <<primary, current, count, stale>>
connections == <<conns, cleanups>>
factory == <<managed, label, state, reading, made>>
request == <<lease, key, since>>
closing == <<phase, pending>>
vars == <<scope, version, lock, pool, connections, factory, request, closing, pc, todo>>

----------------------------------------------------------------------------
Goto(a, to) == pc' = [pc EXCEPT ![a] = to]
Lock(l, a) == lock' = [lock EXCEPT ![l] = a]
Open == Drained => phase = "serving"
Quiet == Drained => \A a \in Tasks \cup Keys : pc[a] = "idle"

(* An instance nobody refers to any more is garbage: its number is used again. *)
Referred == {primary} \cup ToSet(stale) \cup managed
              \cup {conns[k] : k \in Keys} \cup {lease[t] : t \in Tasks}
              \cup UNION {ToSet(todo[a]) : a \in Actors}
Unused == {i \in Instances \ Referred : state[i] \in {"none", "shut"}}

Init ==
    /\ scope \in Scopes
    /\ version = 0 /\ current = 0
    /\ lock = [l \in Locks |-> None]
    /\ primary = 1 /\ count = 0 /\ stale = <<>>
    /\ conns = [k \in Keys |-> 0] /\ cleanups = {}
    /\ managed = {1}
    /\ label = [i \in Instances |-> 0] /\ made = label /\ reading = 0
    /\ state = [i \in Instances |-> IF i = 1 THEN "live" ELSE "none"]
    /\ pc = [a \in Actors |-> "idle"]
    /\ lease = [t \in Tasks |-> 0] /\ key = [t \in Tasks |-> None]
    /\ since = [t \in Tasks |-> 0]
    /\ todo = [a \in Actors |-> <<>>]
    /\ phase = "serving" /\ pending = {}

----------------------------------------------------------------------------
(* acquire *)

Called(t, s) ==
    /\ scope = s /\ pc[t] = "idle" /\ Open
    /\ since' = [since EXCEPT ![t] = version]

Hold(t, i) ==
    /\ Goto(t, "using")
    /\ lease' = [lease EXCEPT ![t] = i]

BugUpToDate == version <= current + 1

UpToDate == version <= current

(* maybe_refresh_shared_instance looks at the versions without the lock first. *)
AcquireShared(t) ==
    /\ Called(t, "shared")
    /\ IF UpToDate
         THEN Hold(t, primary) /\ count' = count + 1
         ELSE Goto(t, "refresh") /\ UNCHANGED <<lease, count>>
    /\ UNCHANGED <<scope, version, lock, primary, current, stale, connections, factory,
                   key, closing, todo>>

Refresh(t) ==
    /\ pc[t] = "refresh" /\ lock["shared"] = None
    /\ IF UpToDate
         THEN Hold(t, primary) /\ count' = count + 1 /\ UNCHANGED lock
         ELSE Goto(t, "instantiate") /\ Lock("shared", t) /\ UNCHANGED <<lease, count>>
    /\ UNCHANGED <<scope, version, primary, current, stale, connections, factory, key,
                   since, closing, todo>>

AcquireOwn(t) ==
    /\ Called(t, "request")
    /\ Goto(t, "instantiate")
    /\ UNCHANGED <<scope, version, lock, pool, connections, factory, lease, key, closing, todo>>

AcquireConnection(t, k) ==
    /\ Called(t, "connection")
    /\ pc[k] = "idle"
    /\ key' = [key EXCEPT ![t] = k]
    /\ Goto(t, "connect")
    /\ UNCHANGED <<scope, version, lock, pool, connections, factory, lease, closing, todo>>

Connect(t) ==
    /\ pc[t] = "connect" /\ lock["connection"] = None
    /\ IF conns[key[t]] # 0
         THEN Hold(t, conns[key[t]]) /\ UNCHANGED lock
         ELSE Goto(t, "instantiate") /\ Lock("connection", t) /\ UNCHANGED lease
    /\ UNCHANGED <<scope, version, pool, connections, factory, key, since, closing, todo>>

----------------------------------------------------------------------------
(* create_instance: _instantiate_agent_instance, and what acquire does with  *)
(* the instance. The agents are built from definitions read at the start;    *)
(* the version is read at the end.                                           *)

Unlocked(t) == [l \in Locks |-> IF lock[l] = t THEN None ELSE lock[l]]

Instantiate(t) ==
    /\ pc[t] = "instantiate" /\ lock["instance"] = None
    /\ Lock("instance", t)
    /\ Goto(t, "building")
    /\ reading' = version
    /\ UNCHANGED <<scope, version, pool, connections, managed, label, state, made, request,
                   closing, todo>>

Swap(i) ==
    /\ primary' = i
    /\ current' = version
    /\ stale' = Append(stale, primary)
    /\ count' = count + 1

BugRegister(k, i) ==
    /\ conns' = [conns EXCEPT ![k] = i]
    /\ cleanups' = cleanups \cup {k}

Register(k, i) ==
    /\ conns' = [conns EXCEPT ![k] = i]
    /\ cleanups' = IF k \in Stacked THEN cleanups ELSE cleanups \cup {k}

Created(t) ==
    /\ pc[t] = "building" /\ Unused # {}
    /\ LET i == CHOOSE j \in Unused : TRUE
       IN /\ managed' = managed \cup {i}
          /\ state' = [state EXCEPT ![i] = "live"]
          /\ label' = [label EXCEPT ![i] = version]
          /\ made' = [made EXCEPT ![i] = reading]
          /\ reading' = 0
          /\ Hold(t, i)
          /\ IF scope = "shared" THEN Swap(i) ELSE UNCHANGED pool
          /\ IF scope = "connection" THEN Register(key[t], i) ELSE UNCHANGED connections
    /\ lock' = Unlocked(t)
    /\ UNCHANGED <<scope, version, key, since, closing, todo>>

GiveUp(t) ==
    /\ Goto(t, "idle")
    /\ key' = [key EXCEPT ![t] = None]
    /\ since' = [since EXCEPT ![t] = 0]
    /\ todo' = [todo EXCEPT ![t] = <<>>]
    /\ lock' = Unlocked(t)
    /\ reading' = IF lock["instance"] = t THEN 0 ELSE reading

CreateFails(t) ==
    /\ pc[t] = "building"
    /\ GiveUp(t)
    /\ UNCHANGED <<scope, version, pool, connections, managed, label, state, made, lease,
                   closing>>

----------------------------------------------------------------------------
(* release, and disposals *)

(* The actor goes on to dispose of s, unless there is nothing in it. *)
Discard(a, s) ==
    /\ todo' = [todo EXCEPT ![a] = s]
    /\ Goto(a, IF s = <<>> THEN "idle" ELSE "dispose")

BugIdle(left) == stale

BugKept(gone) == stale

(* dispose_stale_instances_if_idle: what it takes, and what it leaves. *)
Idle(left) == IF left = 0 THEN stale ELSE <<>>

Kept(gone) == IF gone = <<>> THEN stale ELSE <<>>

Release(t) ==
    /\ pc[t] = "using"
    /\ lease' = [lease EXCEPT ![t] = 0]
    /\ key' = [key EXCEPT ![t] = None]
    /\ since' = [since EXCEPT ![t] = 0]
    /\ CASE scope = "shared" ->
              LET left == IF count > 0 THEN count - 1 ELSE 0
              IN /\ count' = left
                 /\ Discard(t, Idle(left))
                 /\ stale' = Kept(Idle(left))
         [] scope = "request" -> Discard(t, <<lease[t]>>) /\ UNCHANGED <<count, stale>>
         [] scope = "connection" -> Discard(t, <<>>) /\ UNCHANGED <<count, stale>>
    /\ UNCHANGED <<scope, version, lock, primary, current, connections, factory, closing>>

(* _dispose_agent_instance under the instance lock, then AgentInstance.shutdown. *)
Dispose(a) ==
    /\ pc[a] = "dispose" /\ lock["instance"] = None
    /\ LET i == Head(todo[a])
       IN /\ managed' = managed \ {i}
          /\ state' = [state EXCEPT ![i] = IF @ = "live" THEN "closing" ELSE "twice"]
    /\ Goto(a, "shutting")
    /\ UNCHANGED <<scope, version, lock, pool, connections, label, reading, made, request, closing, todo>>

ShutDown(a) ==
    /\ pc[a] = "shutting"
    /\ state' = [state EXCEPT ![Head(todo[a])] = IF @ = "closing" THEN "shut" ELSE @]
    /\ Discard(a, Tail(todo[a]))
    /\ UNCHANGED <<scope, version, lock, pool, connections, managed, label, reading, made, request,
                   closing>>

(* The exit stack of a session calls cleanup, after the session's requests. *)
SessionEnds(k) ==
    /\ k \in Stacked /\ pc[k] = "idle" /\ Open
    /\ conns[k] # 0 /\ \A t \in Tasks : key[t] # k
    /\ conns' = [conns EXCEPT ![k] = 0]
    /\ Discard(k, <<conns[k]>>)
    /\ UNCHANGED <<scope, version, lock, pool, cleanups, factory, request, closing>>

Cancel(t) ==
    /\ pc[t] \in Interruptible
    /\ GiveUp(t)
    /\ UNCHANGED <<scope, version, pool, connections, managed, label, state, made, lease,
                   closing>>

Reload ==
    /\ version < MaxVersion /\ phase = "serving"
    /\ version' = version + 1
    /\ UNCHANGED <<scope, lock, pool, connections, factory, request, closing, pc, todo>>

----------------------------------------------------------------------------
(* shutdown, then _dispose_managed_instances of the run *)

MainAt(p) == pc[Main] = "idle" /\ phase = p

Shutdown ==
    /\ MainAt("serving") /\ Quiet
    /\ phase' = "callbacks"
    /\ pending' = cleanups
    /\ cleanups' = {}
    /\ UNCHANGED <<scope, version, lock, pool, conns, factory, request, pc, todo>>

CleanUp(k) ==
    /\ MainAt("callbacks") /\ k \in pending
    /\ pending' = pending \ {k}
    /\ Discard(Main, IF conns[k] = 0 THEN <<>> ELSE <<conns[k]>>)
    /\ conns' = [conns EXCEPT ![k] = 0]
    /\ UNCHANGED <<scope, version, lock, pool, cleanups, factory, request, phase>>

DisposeConnections ==
    /\ MainAt("callbacks") /\ pending = {} /\ lock["connection"] = None
    /\ phase' = "connections"
    /\ Discard(Main, SetToSeq({conns[k] : k \in Keys} \ {0}))
    /\ conns' = [k \in Keys |-> 0]
    /\ UNCHANGED <<scope, version, lock, pool, cleanups, factory, request, pending>>

DisposePrimary ==
    /\ MainAt("connections")
    /\ phase' = "primary"
    /\ Discard(Main, <<primary>>)
    /\ UNCHANGED <<scope, version, lock, pool, connections, factory, request, pending>>

DisposeStale ==
    /\ MainAt("primary")
    /\ phase' = "stale"
    /\ Discard(Main, stale)
    /\ stale' = <<>>
    /\ UNCHANGED <<scope, version, lock, primary, current, count, connections, factory,
                   request, pending>>

Finalize ==
    /\ MainAt("stale")
    /\ phase' = "managed"
    /\ Discard(Main, SetToSeq(managed))
    /\ UNCHANGED <<scope, version, lock, pool, connections, factory, request, pending>>

Finalized ==
    /\ MainAt("managed")
    /\ phase' = "done"
    /\ managed' = {}
    /\ UNCHANGED <<scope, version, lock, pool, connections, label, state, reading, made, request,
                   pending, pc, todo>>

Over == phase = "done" /\ UNCHANGED vars

----------------------------------------------------------------------------
Step(t) ==
    \/ AcquireShared(t) \/ Refresh(t) \/ AcquireOwn(t)
    \/ \E k \in Keys : AcquireConnection(t, k)
    \/ Connect(t) \/ Instantiate(t)
    \/ Created(t) \/ CreateFails(t) \/ Release(t) \/ Cancel(t)

Next ==
    \/ \E t \in Tasks : Step(t)
    \/ \E a \in Actors : Dispose(a) \/ ShutDown(a)
    \/ \E k \in Keys : SessionEnds(k) \/ CleanUp(k)
    \/ Reload
    \/ Shutdown \/ DisposeConnections \/ DisposePrimary \/ DisposeStale
    \/ Finalize \/ Finalized \/ Over

Spec == Init /\ [][Next]_vars

----------------------------------------------------------------------------
TypeOK ==
    /\ scope \in Scopes
    /\ version \in 0..MaxVersion /\ current \in 0..MaxVersion
    /\ lock \in [Locks -> Actors \cup {None}]
    /\ primary \in Instances /\ count \in 0..Cardinality(Tasks)
    /\ stale \in Seq(Instances)
    /\ conns \in [Keys -> Instances \cup {0}] /\ cleanups \subseteq Keys \ Stacked
    /\ managed \subseteq Instances
    /\ label \in [Instances -> 0..MaxVersion] /\ made \in [Instances -> 0..MaxVersion]
    /\ reading \in 0..MaxVersion
    /\ state \in [Instances -> {"none", "live", "closing", "shut", "twice"}]
    /\ pc \in [Actors -> {"idle", "using"} \cup Awaits]
    /\ lease \in [Tasks -> Instances \cup {0}] /\ key \in [Tasks -> Keys \cup {None}]
    /\ since \in [Tasks -> 0..MaxVersion]
    /\ todo \in [Actors -> Seq(Instances)]
    /\ phase \in {"serving", "callbacks", "connections", "primary", "stale", "managed", "done"}
    /\ pending \subseteq Keys

(* What a request has leased is live for as long as the request has it: no   *)
(* release, refresh, session end or shutdown disposes of it, whichever the   *)
(* scope and whoever was cancelled on the way.                               *)
LeaseSafe == \A t \in Tasks : pc[t] = "using" => state[lease[t]] = "live"

(* A request works with an instance labelled with the version of the agents  *)
(* at the time of its acquire, or a later one: the check without the lock    *)
(* and the one under it let nobody past with an older one.                   *)
LeaseCurrent ==
    \A t \in Tasks : pc[t] = "using" /\ scope # "connection" => label[lease[t]] >= since[t]

(* Every instance is shut down, and once: stale ones that a cancelled        *)
(* release forgot are still among the managed ones when the run ends.        *)
ShutDownOnce ==
    /\ \A i \in Instances : state[i] # "twice"
    /\ phase = "done" => \A i \in Instances : state[i] \in {"none", "shut"}

(* The definitions a request works with are no older than its acquire. Does  *)
(* not hold: the version of an instance is read after it was built.          *)
DefinitionsCurrent ==
    \A t \in Tasks : pc[t] = "using" /\ scope # "connection" => made[lease[t]] >= since[t]

=============================================================================
