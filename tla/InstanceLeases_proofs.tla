------------------------- MODULE InstanceLeases_proofs -------------------------
(***************************************************************************)
(* Theorems about InstanceLeases, for every finite set of requests, every  *)
(* set of connections, bound and scope: the types and that a lease is of   *)
(* the current version; and, if the pool is shut down after its last       *)
(* request, that a lease is of a live instance and that every instance is  *)
(* shut down once.                                                         *)
(***************************************************************************)
EXTENDS InstanceLeases, FiniteSetTheorems, TLAPS

-----------------------------------------------------------------------------
(* Sequences of instances                                                  *)

LEMMA OneItem == ASSUME NEW x PROVE ToSet(<<x>>) = {x} /\ IsInjective(<<x>>)
  BY DEF ToSet, IsInjective

LEMMA NoItem == ToSet(<<>>) = {} /\ IsInjective(<<>>)
  BY DEF ToSet, IsInjective

LEMMA FirstItem ==
    ASSUME NEW X, NEW s \in Seq(X), s # <<>>
    PROVE  /\ Head(s) \in X /\ Tail(s) \in Seq(X)
           /\ ToSet(s) = {Head(s)} \cup ToSet(Tail(s))
           /\ IsInjective(s) => IsInjective(Tail(s)) /\ Head(s) \notin ToSet(Tail(s))
<1>1. /\ Len(s) \in Nat \ {0} /\ DOMAIN s = 1..Len(s) /\ \A n \in 1..Len(s) : s[n] \in X
      /\ Head(s) = s[1] /\ Tail(s) \in Seq(X)
      /\ DOMAIN Tail(s) = 1..(Len(s) - 1)
      /\ \A n \in 1..(Len(s) - 1) : Tail(s)[n] = s[n + 1]
  OBVIOUS
<1>2. ToSet(s) \subseteq {Head(s)} \cup ToSet(Tail(s))
  <2>1. ASSUME NEW n \in 1..Len(s), n # 1
        PROVE  n - 1 \in 1..(Len(s) - 1) /\ Tail(s)[n - 1] = s[n]
    BY <1>1, <2>1
  <2>2. ASSUME NEW n \in 1..Len(s)
        PROVE  s[n] = Head(s) \/ \E m \in 1..(Len(s) - 1) : Tail(s)[m] = s[n]
    BY <1>1, <2>1
  <2>3. /\ ToSet(s) = {s[n] : n \in 1..Len(s)}
        /\ ToSet(Tail(s)) = {Tail(s)[n] : n \in 1..(Len(s) - 1)}
    BY <1>1 DEF ToSet
  <2> QED
    BY <2>2, <2>3
<1>3. {Head(s)} \cup ToSet(Tail(s)) \subseteq ToSet(s)
  BY <1>1 DEF ToSet
<1>4. IsInjective(s) => IsInjective(Tail(s)) /\ Head(s) \notin ToSet(Tail(s))
  BY <1>1 DEF ToSet, IsInjective
<1> QED
  BY <1>1, <1>2, <1>3, <1>4

LEMMA LastItem ==
    ASSUME NEW X, NEW s \in Seq(X), NEW x \in X
    PROVE  /\ Append(s, x) \in Seq(X) /\ ToSet(Append(s, x)) = ToSet(s) \cup {x}
           /\ IsInjective(s) /\ x \notin ToSet(s) => IsInjective(Append(s, x))
<1>1. /\ Len(s) \in Nat /\ DOMAIN s = 1..Len(s) /\ Append(s, x) \in Seq(X)
      /\ DOMAIN Append(s, x) = 1..(Len(s) + 1)
      /\ \A n \in 1..Len(s) : Append(s, x)[n] = s[n]
      /\ Append(s, x)[Len(s) + 1] = x
  OBVIOUS
<1>2. ToSet(Append(s, x)) = ToSet(s) \cup {x}
  BY <1>1 DEF ToSet
<1>3. IsInjective(s) /\ x \notin ToSet(s) => IsInjective(Append(s, x))
  BY <1>1 DEF ToSet, IsInjective
<1> QED
  BY <1>1, <1>2, <1>3

LEMMA AllItems ==
    ASSUME NEW X \in SUBSET Instances
    PROVE  /\ SetToSeq(X) \in Seq(Instances) /\ ToSet(SetToSeq(X)) = X
           /\ IsInjective(SetToSeq(X))
<1>1. IsFiniteSet(X)
  <2>1. IsFiniteSet(Instances)
    BY BoundsAssumption, FS_Interval DEF Instances
  <2> QED
    BY <2>1, FS_Subset
<1>2. Cardinality(X) \in Nat /\ ExistsBijection(1..Cardinality(X), X)
  BY <1>1, FS_CardinalityType
<1>3. PICK f : f \in Bijection(1..Cardinality(X), X)
  BY <1>2 DEF ExistsBijection
<1>4. f \in [1..Cardinality(X) -> X] /\ IsInjective(f)
  BY <1>3 DEF Bijection, Injection
<1>5. /\ SetToSeq(X) \in [1..Cardinality(X) -> X]
      /\ IsInjective(SetToSeq(X))
  BY <1>4 DEF SetToSeq
<1>6. SetToSeq(X) \in Injection(1..Cardinality(X), X)
  BY <1>5 DEF Injection
<1>7. Cardinality(1..Cardinality(X)) = Cardinality(X)
  BY <1>2, FS_Interval
<1>8. SetToSeq(X) \in Surjection(1..Cardinality(X), X)
  BY <1>1, <1>6, <1>7, FS_Injection
<1> QED
  BY <1>2, <1>5, <1>8 DEF Surjection, ToSet

-----------------------------------------------------------------------------
(* Types                                                                   *)

Users == {t \in Tasks : pc[t] = "using"}
Disposing == {"dispose", "shutting"}

(* A request has a lease while it uses it.                                 *)
Leased == \A t \in Tasks : lease[t] # 0 <=> pc[t] = "using"

(* It has a connection where it needs one.                                 *)
Placed ==
    \A t \in Tasks :
        /\ pc[t] = "connect" => scope = "connection"
        /\ pc[t] = "refresh" => scope = "shared"
        /\ pc[t] \in {"connect", "instantiate", "building", "using"} /\ scope = "connection"
             => key[t] \in Keys

(* An actor disposes while there is something to dispose of.               *)
Busy == \A a \in Actors : pc[a] \in Disposing <=> todo[a] # <<>>

Typed == TypeOK /\ Leased /\ Placed /\ Busy

(* The pool counts the requests that use the shared instance.              *)
Counting == count = IF scope = "shared" THEN Cardinality(Users) ELSE 0

LEMMA ActorsApart ==
    /\ Main \notin Tasks \cup Keys /\ None \notin Actors /\ Tasks \cap Keys = {}
    /\ Actors = Tasks \cup Keys \cup {Main}
  BY ActorsAssumption DEF Actors

LEMMA AllActors == Tasks \subseteq Actors /\ Keys \subseteq Actors /\ Main \in Actors
  BY DEF Actors

LEMMA Numbers == MaxVersion \in Nat /\ 0 \notin Instances /\ 1 \in Instances /\ Instances \subseteq Nat
  BY BoundsAssumption DEF Instances

(* A new number is nobody's.                                               *)
LEMMA NewNumber ==
    ASSUME Unused # {}
    PROVE  LET i == CHOOSE j \in Unused : TRUE
           IN  /\ i \in Instances /\ i # primary /\ i \notin ToSet(stale) /\ i \notin managed
               /\ state[i] \in {"none", "shut"}
               /\ \A k \in Keys : conns[k] # i
               /\ \A t \in Tasks : lease[t] # i
               /\ \A a \in Actors : i \notin ToSet(todo[a])
<1> DEFINE i == CHOOSE j \in Unused : TRUE
<1>1. i \in Unused
  OBVIOUS
<1> HIDE DEF i
<1>2. i \notin Referred /\ i \in Instances /\ state[i] \in {"none", "shut"}
  BY <1>1 DEF Unused
<1>3. /\ i # primary /\ i \notin ToSet(stale) /\ i \notin managed
      /\ \A k \in Keys : conns[k] # i
      /\ \A t \in Tasks : lease[t] # i
      /\ \A a \in Actors : i \notin ToSet(todo[a])
  BY <1>2 DEF Referred
<1> QED
  BY <1>2, <1>3 DEF i

(* What Discard leaves.                                                    *)
LEMMA DiscardTyped ==
    ASSUME NEW a \in Actors, NEW s \in Seq(Instances), Discard(a, s),
           todo \in [Actors -> Seq(Instances)], pc \in [Actors -> {"idle", "using"} \cup Awaits]
    PROVE  /\ todo' \in [Actors -> Seq(Instances)] /\ todo'[a] = s
           /\ pc' \in [Actors -> {"idle", "using"} \cup Awaits]
           /\ pc'[a] \in {"idle", "dispose"} /\ (pc'[a] = "dispose" <=> s # <<>>)
           /\ \A b \in Actors : b # a => todo'[b] = todo[b] /\ pc'[b] = pc[b]
  BY DEF Discard, Goto, Awaits

LEMMA FewRequests ==
    ASSUME NEW U \in SUBSET Tasks
    PROVE  IsFiniteSet(U) /\ Cardinality(U) \in 0..Cardinality(Tasks)
<1>1. /\ IsFiniteSet(U) /\ Cardinality(U) <= Cardinality(Tasks)
      /\ Cardinality(U) \in Nat /\ Cardinality(Tasks) \in Nat
  BY FiniteAssumption, FS_Subset, FS_CardinalityType
<1> QED
  BY <1>1

LEMMA InitTyped == Init => Typed /\ Counting
<1> SUFFICES ASSUME Init PROVE Typed /\ Counting
  OBVIOUS
<1> USE ActorsApart, Numbers DEF Init
<1>1. Cardinality(Tasks) \in Nat
  BY FiniteAssumption, FS_CardinalityType
<1>2. todo \in [Actors -> Seq(Instances)] /\ stale \in Seq(Instances)
  OBVIOUS
<1>3. lock \in [Locks -> Actors \cup {None}] /\ scope \in Scopes
      /\ version \in 0..MaxVersion /\ current \in 0..MaxVersion
      /\ primary \in Instances /\ managed \subseteq Instances /\ count \in 0..Cardinality(Tasks)
      /\ conns \in [Keys -> Instances \cup {0}] /\ cleanups \subseteq Keys \ Stacked
      /\ pending \subseteq Keys
  BY <1>1
<1>4. /\ label \in [Instances -> 0..MaxVersion] /\ made \in [Instances -> 0..MaxVersion]
      /\ reading \in 0..MaxVersion /\ since \in [Tasks -> 0..MaxVersion]
      /\ state \in [Instances -> {"none", "live", "closing", "shut", "twice"}]
  OBVIOUS
<1>5. /\ pc \in [Actors -> {"idle", "using"} \cup Awaits]
      /\ lease \in [Tasks -> Instances \cup {0}] /\ key \in [Tasks -> Keys \cup {None}]
  OBVIOUS
<1>6. TypeOK
  BY <1>2, <1>3, <1>4, <1>5 DEF TypeOK
<1>7. Users = {} /\ Cardinality({}) = 0
  BY FS_EmptySet DEF Users
<1> QED
  BY <1>6, <1>7 DEF Typed, Leased, Placed, Busy, Counting, Disposing

(* The count follows the requests.                                         *)
LEMMA StepCounting ==
    ASSUME Typed, Counting, [Next]_vars
    PROVE  Counting'
<1> USE AllActors, ActorsApart DEF Typed, Leased, Placed, Busy, TypeOK, Counting, Awaits, Disposing, Goto, pool, connections,
        factory, request, closing
<1>1. ASSUME NEW t \in Tasks, pc[t] # "using", scope' = scope, Hold(t, 0) \/ \E i : Hold(t, i),
             count' = IF scope = "shared" THEN count + 1 ELSE count
      PROVE  Counting'
  <2>1. t \notin Users /\ Users' = Users \cup {t}
    BY <1>1 DEF Hold, Users
  <2>2. IsFiniteSet(Users)
    BY FewRequests DEF Users
  <2> QED
    BY <1>1, <2>1, <2>2, FS_AddElement
<1>2. ASSUME NEW a \in Actors, pc[a] # "using" \/ a \notin Tasks,
             \E to : to # "using" /\ pc' = [pc EXCEPT ![a] = to],
             UNCHANGED <<scope, count>>
      PROVE  Counting'
  <2>1. Users' = Users
    BY <1>2 DEF Users
  <2> QED
    BY <1>2, <2>1
<1>3. ASSUME NEW t \in Tasks, Release(t)
      PROVE  Counting'
  <2>0. /\ pc[t] = "using" /\ scope' = scope
        /\ \E to \in {"idle", "dispose"} : pc' = [pc EXCEPT ![t] = to]
    BY <1>3, ScopesAssumption DEF Release, Discard, ScopeValues
  <2>1. t \in Users /\ Users' = Users \ {t} /\ scope' = scope
    BY <2>0 DEF Users
  <2>2. IsFiniteSet(Users) /\ Cardinality(Users) \in Nat
    BY FewRequests DEF Users
  <2>3. Cardinality(Users') = Cardinality(Users) - 1 /\ Cardinality(Users) > 0
    <3>1. Cardinality(Users') \in Nat
      BY <2>1, FewRequests DEF Users
    <3>2. Cardinality(Users') = Cardinality(Users) - 1
      BY <2>1, <2>2, FS_RemoveElement
    <3> QED
      BY <2>2, <3>1, <3>2
  <2>4. count' = IF scope = "shared" THEN IF count > 0 THEN count - 1 ELSE 0 ELSE count
    BY <1>3, ScopesAssumption DEF Release, ScopeValues
  <2> QED
    BY <2>1, <2>2, <2>3, <2>4
<1>4. ASSUME NEW t \in Tasks, Step(t)
      PROVE  Counting'
  <2>1. CASE AcquireShared(t) \/ Refresh(t)
    <3>1. pc[t] # "using" /\ scope = "shared" /\ scope' = scope
      BY <2>1 DEF AcquireShared, Refresh, Called
    <3>2. CASE UpToDate
      BY <1>1, <2>1, <3>1, <3>2 DEF AcquireShared, Refresh
    <3>3. CASE ~UpToDate
      BY <1>2, <2>1, <3>1, <3>3 DEF AcquireShared, Refresh
    <3> QED
      BY <3>2, <3>3
  <2>2. CASE Connect(t)
    <3>1. pc[t] = "connect" /\ scope = "connection" /\ UNCHANGED <<scope, count>>
      BY <2>2 DEF Connect
    <3>2. CASE conns[key[t]] # 0
      BY <1>1, <2>2, <3>1, <3>2 DEF Connect
    <3>3. CASE conns[key[t]] = 0
      BY <1>2, <2>2, <3>1, <3>3 DEF Connect
    <3> QED
      BY <3>2, <3>3
  <2>3. CASE Created(t)
    BY <1>1, <2>3 DEF Created, Swap
  <2>4. ASSUME NEW k \in Keys, AcquireConnection(t, k)
        PROVE  Counting'
    BY <1>2, <2>4 DEF AcquireConnection, Called
  <2>5. CASE AcquireOwn(t) \/ Instantiate(t)
    BY <1>2, <2>5 DEF AcquireOwn, Called, Instantiate
  <2>6. CASE CreateFails(t) \/ Cancel(t)
    <3>1. pc[t] # "using"
      BY <2>6, InterruptibleAssumption DEF CreateFails, Cancel
    <3> QED
      BY <1>2, <2>6, <3>1 DEF CreateFails, Cancel, GiveUp
  <2> QED
    BY <1>3, <1>4, <2>1, <2>2, <2>3, <2>4, <2>5, <2>6 DEF Step
<1>5. ASSUME NEW a \in Actors, Dispose(a) \/ ShutDown(a)
      PROVE  Counting'
  BY <1>2, <1>5 DEF Dispose, ShutDown, Discard
<1>6. ASSUME NEW k \in Keys, SessionEnds(k) \/ CleanUp(k)
      PROVE  Counting'
  BY <1>2, <1>6 DEF SessionEnds, CleanUp, Discard
<1>7. CASE DisposeConnections \/ DisposePrimary \/ DisposeStale \/ Finalize
  BY <1>2, <1>7 DEF DisposeConnections, DisposePrimary, DisposeStale, Finalize, Discard
<1>8. CASE Reload \/ Shutdown \/ Finalized \/ Over \/ UNCHANGED vars
  <2>1. UNCHANGED <<scope, count, pc>>
    BY <1>8 DEF Reload, Shutdown, Finalized, Over, vars
  <2> QED
    BY <2>1 DEF Users
<1> QED
  BY <1>4, <1>5, <1>6, <1>7, <1>8 DEF Next

LEMMA StepTypeOK ==
    ASSUME Typed, Counting, [Next]_vars
    PROVE  TypeOK'
<1>0. count' \in 0..Cardinality(Tasks)
  <2>1. Cardinality(Tasks) \in Nat /\ Cardinality(Users') \in 0..Cardinality(Tasks)
    BY FewRequests, FiniteAssumption, FS_CardinalityType DEF Users
  <2> QED
    BY <2>1, StepCounting DEF Counting
<1> TypeOK
  BY DEF Typed, Leased, Placed, Busy
<1> USE <1>0, AllActors, Numbers DEF TypeOK, pool, connections, factory, request, closing
<1>1. ASSUME NEW t \in Tasks, Step(t)
      PROVE  TypeOK'
  <2>1. CASE AcquireShared(t) \/ Refresh(t)
    <3>1. /\ lock' \in [Locks -> Actors \cup {None}]
          /\ lease' \in [Tasks -> Instances \cup {0}] /\ since' \in [Tasks -> 0..MaxVersion]
      <4>1. /\ UNCHANGED lock \/ \E a \in Actors : lock' = [lock EXCEPT !["shared"] = a]
            /\ UNCHANGED lease \/ lease' = [lease EXCEPT ![t] = primary]
            /\ UNCHANGED since \/ since' = [since EXCEPT ![t] = version]
        BY <2>1 DEF AcquireShared, Refresh, Called, Hold, Lock
      <4>2. \A a \in Actors : [lock EXCEPT !["shared"] = a] \in [Locks -> Actors \cup {None}]
        OBVIOUS
      <4>3. lock' \in [Locks -> Actors \cup {None}]
        BY <4>1, <4>2
      <4>4. lease' \in [Tasks -> Instances \cup {0}]
        BY <4>1
      <4>5. since' \in [Tasks -> 0..MaxVersion]
        BY <4>1
      <4> QED
        BY <4>3, <4>4, <4>5
    <3>2. pc' \in [Actors -> {"idle", "using"} \cup Awaits]
      BY <2>1 DEF AcquireShared, Refresh, Hold, Goto, Awaits
    <3> QED
      BY <2>1, <3>1, <3>2 DEF AcquireShared, Refresh
  <2>2. CASE AcquireOwn(t)
    BY <2>2 DEF AcquireOwn, Called, Goto, Awaits
  <2>3. ASSUME NEW k \in Keys, AcquireConnection(t, k)
        PROVE  TypeOK'
    BY <2>3 DEF AcquireConnection, Called, Goto, Awaits
  <2>4. CASE Connect(t)
    <3>1. key[t] \in Keys
      BY <2>4 DEF Connect, Typed, Placed
    <3>2. lock' \in [Locks -> Actors \cup {None}] /\ lease' \in [Tasks -> Instances \cup {0}]
      <4>1. /\ UNCHANGED lock \/ \E a \in Actors : lock' = [lock EXCEPT !["connection"] = a]
            /\ UNCHANGED lease \/ lease' = [lease EXCEPT ![t] = conns[key[t]]]
        BY <2>4 DEF Connect, Hold, Lock
      <4>2. \A a \in Actors : [lock EXCEPT !["connection"] = a] \in [Locks -> Actors \cup {None}]
        OBVIOUS
      <4>3. lock' \in [Locks -> Actors \cup {None}]
        BY <4>1, <4>2
      <4>4. lease' \in [Tasks -> Instances \cup {0}]
        BY <3>1, <4>1
      <4> QED
        BY <4>3, <4>4
    <3>3. pc' \in [Actors -> {"idle", "using"} \cup Awaits]
      <4>1. \E to \in {"using", "instantiate"} : pc' = [pc EXCEPT ![t] = to]
        BY <2>4 DEF Connect, Hold, Goto
      <4> QED
        BY <4>1 DEF Awaits
    <3> QED
      BY <2>4, <3>2, <3>3 DEF Connect
  <2>5. CASE Instantiate(t)
    BY <2>5 DEF Instantiate, Lock, Locks, Goto, Awaits
  <2>6. CASE Created(t)
    <3>1. PICK i \in Instances : 
            /\ managed' = managed \cup {i}
            /\ state' = [state EXCEPT ![i] = "live"]
            /\ label' = [label EXCEPT ![i] = version]
            /\ made' = [made EXCEPT ![i] = reading]
            /\ reading' = 0
            /\ Hold(t, i)
            /\ IF scope = "shared" THEN Swap(i) ELSE UNCHANGED pool
            /\ IF scope = "connection" THEN Register(key[t], i) ELSE UNCHANGED connections
            /\ lock' = Unlocked(t)
            /\ UNCHANGED <<scope, version, key, since, closing, todo>>
            /\ pc[t] = "building"
      BY <2>6, NewNumber DEF Created
    <3>2. stale' \in Seq(Instances) /\ primary' \in Instances /\ current' \in 0..MaxVersion
      <4>1. Append(stale, primary) \in Seq(Instances)
        OBVIOUS
      <4> QED
        BY <3>1, <4>1 DEF Swap
    <3>3. conns' \in [Keys -> Instances \cup {0}] /\ cleanups' \subseteq Keys \ Stacked
      <4>1. CASE scope = "connection"
        <5>1. key[t] \in Keys
          BY <3>1, <4>1 DEF Typed, Placed
        <5>2. conns' = [conns EXCEPT ![key[t]] = i] /\ cleanups' \subseteq cleanups \cup ({key[t]} \ Stacked)
          BY <3>1, <4>1 DEF Register
        <5> QED
          BY <5>1, <5>2
      <4>2. CASE scope # "connection"
        BY <3>1, <4>2
      <4> QED
        BY <4>1, <4>2
    <3>4. /\ lease' \in [Tasks -> Instances \cup {0}]
          /\ pc' \in [Actors -> {"idle", "using"} \cup Awaits]
      BY <3>1 DEF Hold, Goto
    <3>5. lock' \in [Locks -> Actors \cup {None}]
      BY <3>1 DEF Unlocked
    <3>6. /\ managed' \subseteq Instances /\ reading' \in 0..MaxVersion
          /\ label' \in [Instances -> 0..MaxVersion] /\ made' \in [Instances -> 0..MaxVersion]
      BY <3>1
    <3>7. state' \in [Instances -> {"none", "live", "closing", "shut", "twice"}]
      BY <3>1
    <3> QED
      BY <3>1, <3>2, <3>3, <3>4, <3>5, <3>6, <3>7
  <2>7. CASE CreateFails(t) \/ Cancel(t)
    <3>1. GiveUp(t) /\ UNCHANGED <<scope, version, pool, connections, managed, label, state, made,
                                   lease, closing>>
      BY <2>7 DEF CreateFails, Cancel
    <3>2. todo' \in [Actors -> Seq(Instances)] /\ pc' \in [Actors -> {"idle", "using"} \cup Awaits]
      BY <3>1 DEF GiveUp, Goto
    <3>3. /\ lock' \in [Locks -> Actors \cup {None}] /\ reading' \in 0..MaxVersion
          /\ key' \in [Tasks -> Keys \cup {None}] /\ since' \in [Tasks -> 0..MaxVersion]
      BY <3>1 DEF GiveUp, Unlocked
    <3> QED
      BY <3>1, <3>2, <3>3
  <2>8. CASE Release(t)
    <3>1. PICK s \in {stale, <<>>, <<lease[t]>>} : Discard(t, s) /\ stale' \in {stale, <<>>}
      BY <2>8, ScopesAssumption DEF Release, ScopeValues, Idle, Kept
    <3> s \in Seq(Instances)
      <4>1. lease[t] \in Instances
        BY <2>8 DEF Release, Typed, Leased
      <4>2. <<lease[t]>> \in Seq(Instances) /\ <<>> \in Seq(Instances)
        BY <4>1
      <4> QED
        BY <3>1, <4>2
    <3>2. todo' \in [Actors -> Seq(Instances)] /\ pc' \in [Actors -> {"idle", "using"} \cup Awaits]
      BY <3>1, DiscardTyped
    <3>3. stale' \in Seq(Instances)
      <4>1. <<>> \in Seq(Instances)
        OBVIOUS
      <4> QED
        BY <3>1, <4>1
    <3>4. /\ lease' \in [Tasks -> Instances \cup {0}]
          /\ key' \in [Tasks -> Keys \cup {None}] /\ since' \in [Tasks -> 0..MaxVersion]
      <4>1. /\ lease' = [lease EXCEPT ![t] = 0] /\ key' = [key EXCEPT ![t] = None]
            /\ since' = [since EXCEPT ![t] = 0]
        BY <2>8 DEF Release
      <4> QED
        BY <4>1
    <3> QED
      BY <2>8, <3>2, <3>3, <3>4 DEF Release
  <2> QED
    BY <1>1, <2>1, <2>2, <2>3, <2>4, <2>5, <2>6, <2>7, <2>8 DEF Step
<1>2. ASSUME NEW a \in Actors, Dispose(a)
      PROVE  TypeOK'
  BY <1>2 DEF Dispose, Goto, Awaits
<1>3. ASSUME NEW a \in Actors, NEW s \in Seq(Instances), Discard(a, s),
             UNCHANGED <<scope, version, lock, primary, current, label, made, reading, request>>,
             state' \in [Instances -> {"none", "live", "closing", "shut", "twice"}],
             managed' \subseteq Instances, stale' \in Seq(Instances),
             conns' \in [Keys -> Instances \cup {0}], cleanups' \subseteq Keys \ Stacked,
             phase' \in {"serving", "callbacks", "connections", "primary", "stale", "managed", "done"},
             pending' \subseteq Keys
      PROVE  TypeOK'
  <2>1. todo' \in [Actors -> Seq(Instances)] /\ pc' \in [Actors -> {"idle", "using"} \cup Awaits]
    BY <1>3, DiscardTyped
  <2> QED
    BY <1>3, <2>1
<1>4. ASSUME NEW a \in Actors, ShutDown(a)
      PROVE  TypeOK'
  <2>1. Tail(todo[a]) \in Seq(Instances)
    BY <1>4, FirstItem DEF ShutDown, Typed, Busy, Disposing
  <2> QED
    BY <1>3, <1>4, <2>1 DEF ShutDown
<1>5. ASSUME NEW k \in Keys, SessionEnds(k)
      PROVE  TypeOK'
  <2>1. <<conns[k]>> \in Seq(Instances) /\ Discard(k, <<conns[k]>>)
    BY <1>5 DEF SessionEnds
  <2>2. conns' \in [Keys -> Instances \cup {0}]
    BY <1>5 DEF SessionEnds
  <2> QED
    BY <1>3, <1>5, <2>1, <2>2 DEF SessionEnds
<1>6. ASSUME NEW k \in Keys, CleanUp(k)
      PROVE  TypeOK'
  <2>1. PICK s \in Seq(Instances) : Discard(Main, s)
    <3>1. <<>> \in Seq(Instances) /\ (conns[k] # 0 => <<conns[k]>> \in Seq(Instances))
      OBVIOUS
    <3> QED
      BY <1>6, <3>1 DEF CleanUp
  <2>2. conns' \in [Keys -> Instances \cup {0}]
    BY <1>6 DEF CleanUp
  <2> QED
    BY <1>3, <1>6, <2>1, <2>2 DEF CleanUp
<1>7. CASE Reload
  BY <1>7 DEF Reload
<1>8. CASE Shutdown
  BY <1>8 DEF Shutdown
<1>9. CASE DisposeConnections
  <2>1. SetToSeq({conns[k] : k \in Keys} \ {0}) \in Seq(Instances)
    BY AllItems
  <2>2. conns' \in [Keys -> Instances \cup {0}]
    BY <1>9 DEF DisposeConnections
  <2> QED
    BY <1>3, <1>9, <2>1, <2>2 DEF DisposeConnections
<1>10. CASE DisposePrimary \/ DisposeStale
  <2>1. <<primary>> \in Seq(Instances) /\ <<>> \in Seq(Instances)
    OBVIOUS
  <2> QED
    BY <1>3, <1>10, <2>1 DEF DisposePrimary, DisposeStale
<1>11. CASE Finalize
  BY <1>3, <1>11, AllItems DEF Finalize
<1>12. CASE Finalized \/ Over \/ UNCHANGED vars
  BY <1>12 DEF Finalized, Over, vars
<1> QED
  BY <1>1, <1>2, <1>4, <1>5, <1>6, <1>7, <1>8, <1>9, <1>10, <1>11, <1>12 DEF Next

LEMMA StepHeld ==
    ASSUME Typed, [Next]_vars
    PROVE  Leased' /\ Placed'
<1> USE AllActors DEF Typed, TypeOK, Leased, Placed, Busy, Disposing, Awaits, Goto, pool,
        connections, factory, request, closing
<1>1. ASSUME NEW t \in Tasks, pc[t] # "using", lease' = lease, UNCHANGED scope,
             \A u \in Tasks : u # t => key'[u] = key[u],
             \E to \in {"idle", "refresh", "connect", "instantiate", "building"} :
                /\ pc' = [pc EXCEPT ![t] = to]
                /\ to = "connect" => scope = "connection"
                /\ to = "refresh" => scope = "shared"
                /\ to \in {"connect", "instantiate", "building"} /\ scope = "connection"
                     => key'[t] \in Keys
      PROVE  Leased' /\ Placed'
  BY <1>1
<1>2. ASSUME NEW t \in Tasks, NEW i \in Instances, Hold(t, i), UNCHANGED <<scope, key>>,
             scope = "connection" => key[t] \in Keys
      PROVE  Leased' /\ Placed'
  BY <1>2, Numbers DEF Hold
<1>3. ASSUME NEW a \in Actors, UNCHANGED scope,
             \A t \in Tasks \ {a} : UNCHANGED <<lease[t], key[t]>>,
             a \in Tasks => lease'[a] = 0,
             \E to \in {"idle", "dispose", "shutting"} : pc' = [pc EXCEPT ![a] = to]
      PROVE  Leased' /\ Placed'
  BY <1>3
<1>4. ASSUME NEW t \in Tasks, Step(t)
      PROVE  Leased' /\ Placed'
  <2>1. CASE AcquireShared(t) \/ Refresh(t)
    <3>1. scope = "shared" /\ UNCHANGED <<scope, key>> /\ pc[t] # "using"
      BY <2>1 DEF AcquireShared, Refresh, Called
    <3>2. CASE UpToDate
      BY <1>2, <2>1, <3>1, <3>2 DEF AcquireShared, Refresh
    <3>3. CASE ~UpToDate
      BY <1>1, <2>1, <3>1, <3>3 DEF AcquireShared, Refresh
    <3> QED
      BY <3>2, <3>3
  <2>2. CASE AcquireOwn(t)
    BY <1>1, <2>2 DEF AcquireOwn, Called
  <2>3. ASSUME NEW k \in Keys, AcquireConnection(t, k)
        PROVE  Leased' /\ Placed'
    BY <1>1, <2>3 DEF AcquireConnection, Called
  <2>4. CASE Connect(t)
    <3>1. pc[t] = "connect" /\ key[t] \in Keys /\ UNCHANGED <<scope, key>>
      BY <2>4 DEF Connect
    <3>2. CASE conns[key[t]] # 0
      BY <1>2, <2>4, <3>1, <3>2 DEF Connect
    <3>3. CASE conns[key[t]] = 0
      BY <1>1, <2>4, <3>1, <3>3 DEF Connect
    <3> QED
      BY <3>2, <3>3
  <2>5. CASE Instantiate(t)
    BY <1>1, <2>5 DEF Instantiate
  <2>6. CASE Created(t)
    <3>1. PICK i \in Instances : Hold(t, i)
      BY <2>6, NewNumber DEF Created
    <3> QED
      BY <1>2, <2>6, <3>1 DEF Created
  <2>7. CASE CreateFails(t) \/ Cancel(t)
    <3>1. pc[t] # "using" /\ lease' = lease /\ scope' = scope /\ GiveUp(t)
      BY <2>7, InterruptibleAssumption DEF CreateFails, Cancel
    <3> QED
      BY <1>1, <3>1 DEF GiveUp
  <2>8. CASE Release(t)
    <3>1. /\ lease' = [lease EXCEPT ![t] = 0] /\ key' = [key EXCEPT ![t] = None]
          /\ scope' = scope
          /\ \E to \in {"idle", "dispose"} : pc' = [pc EXCEPT ![t] = to]
      BY <2>8, ScopesAssumption DEF Release, Discard, ScopeValues
    <3> QED
      BY <1>3, <3>1
  <2> QED
    BY <1>4, <2>1, <2>2, <2>3, <2>4, <2>5, <2>6, <2>7, <2>8 DEF Step
<1>5. ASSUME NEW a \in Actors, pc[a] # "using" \/ a \notin Tasks, UNCHANGED <<scope, lease, key>>,
             \E to \in {"idle", "dispose", "shutting"} : pc' = [pc EXCEPT ![a] = to]
      PROVE  Leased' /\ Placed'
  BY <1>3, <1>5
<1>6. ASSUME NEW a \in Actors, Dispose(a) \/ ShutDown(a)
      PROVE  Leased' /\ Placed'
  BY <1>5, <1>6 DEF Dispose, ShutDown, Discard
<1>7. ASSUME NEW k \in Keys, SessionEnds(k)
      PROVE  Leased' /\ Placed'
  BY <1>5, <1>7 DEF SessionEnds, Discard
<1>8. ASSUME NEW k \in Keys, CleanUp(k)
      PROVE  Leased' /\ Placed'
  BY <1>5, <1>8 DEF CleanUp, MainAt, Discard
<1>9. CASE DisposeConnections \/ DisposePrimary \/ DisposeStale \/ Finalize
  BY <1>5, <1>9 DEF DisposeConnections, DisposePrimary, DisposeStale, Finalize, MainAt, Discard
<1>10. CASE Reload \/ Shutdown \/ Finalized \/ Over \/ UNCHANGED vars
  BY <1>10 DEF Reload, Shutdown, Finalized, Over, vars
<1> QED
  BY <1>4, <1>6, <1>7, <1>8, <1>9, <1>10 DEF Next

LEMMA StepBusy ==
    ASSUME Typed, [Next]_vars
    PROVE  Busy'
<1> USE AllActors DEF Typed, TypeOK, Busy, Disposing, Goto, closing
<1>1. ASSUME NEW a \in Actors, NEW s \in Seq(Instances), Discard(a, s)
      PROVE  Busy'
  BY <1>1 DEF Discard
<1>2. ASSUME NEW t \in Tasks, pc[t] \notin Disposing, UNCHANGED todo,
             \E to : to \notin Disposing /\ pc' = [pc EXCEPT ![t] = to]
      PROVE  Busy'
  BY <1>2
<1>3. ASSUME NEW t \in Tasks, Step(t)
      PROVE  Busy'
  <2>1. CASE AcquireShared(t) \/ Refresh(t)
    BY <1>2, <2>1 DEF AcquireShared, Refresh, Called, Hold
  <2>2. CASE AcquireOwn(t)
    BY <1>2, <2>2 DEF AcquireOwn, Called
  <2>3. ASSUME NEW k \in Keys, AcquireConnection(t, k)
        PROVE  Busy'
    BY <1>2, <2>3 DEF AcquireConnection, Called
  <2>4. CASE Connect(t) \/ Instantiate(t)
    BY <1>2, <2>4 DEF Connect, Instantiate, Hold
  <2>5. CASE Created(t)
    BY <1>2, <2>5 DEF Created, Hold
  <2>6. CASE CreateFails(t) \/ Cancel(t)
    BY <2>6 DEF CreateFails, Cancel, GiveUp
  <2>7. CASE Release(t)
    <3>1. \E s \in {stale, <<>>, <<lease[t]>>} : Discard(t, s)
      BY <2>7, ScopesAssumption DEF Release, ScopeValues, Idle
    <3>2. lease[t] \in Instances
      BY <2>7 DEF Release, Leased
    <3>3. <<lease[t]>> \in Seq(Instances) /\ <<>> \in Seq(Instances)
      BY <3>2
    <3> QED
      BY <1>1, <3>1, <3>3
  <2> QED
    BY <1>3, <2>1, <2>2, <2>3, <2>4, <2>5, <2>6, <2>7 DEF Step
<1>4. ASSUME NEW a \in Actors, Dispose(a)
      PROVE  Busy'
  BY <1>4 DEF Dispose
<1>5. ASSUME NEW a \in Actors, ShutDown(a)
      PROVE  Busy'
  <2>1. Tail(todo[a]) \in Seq(Instances)
    BY <1>5, FirstItem DEF ShutDown
  <2> QED
    BY <1>1, <1>5, <2>1 DEF ShutDown
<1>6. ASSUME NEW k \in Keys, SessionEnds(k)
      PROVE  Busy'
  <2>1. <<conns[k]>> \in Seq(Instances)
    BY <1>6 DEF SessionEnds
  <2> QED
    BY <1>1, <1>6, <2>1 DEF SessionEnds
<1>7. ASSUME NEW k \in Keys, CleanUp(k)
      PROVE  Busy'
  <2>1. <<>> \in Seq(Instances) /\ (conns[k] # 0 => <<conns[k]>> \in Seq(Instances))
    OBVIOUS
  <2> QED
    BY <1>1, <1>7, <2>1 DEF CleanUp
<1>8. CASE DisposeConnections \/ Finalize
  <2>1. SetToSeq({conns[k] : k \in Keys} \ {0}) \in Seq(Instances)
        /\ SetToSeq(managed) \in Seq(Instances)
    BY AllItems
  <2> QED
    BY <1>1, <1>8, <2>1 DEF DisposeConnections, Finalize
<1>9. CASE DisposePrimary \/ DisposeStale
  <2>1. <<primary>> \in Seq(Instances)
    OBVIOUS
  <2> QED
    BY <1>1, <1>9, <2>1 DEF DisposePrimary, DisposeStale
<1>10. CASE Reload \/ Shutdown \/ Finalized \/ Over \/ UNCHANGED vars
  BY <1>10 DEF Reload, Shutdown, Finalized, Over, vars
<1> QED
  BY <1>3, <1>4, <1>5, <1>6, <1>7, <1>8, <1>9, <1>10 DEF Next

LEMMA StepTyped ==
    ASSUME Typed, Counting, [Next]_vars
    PROVE  Typed' /\ Counting'
  BY StepCounting, StepTypeOK, StepHeld, StepBusy DEF Typed

(* Every variable stays in its domain; the pool counts at most the requests *)
(* there are.                                                              *)
THEOREM TypeCorrect == Spec => []TypeOK
<1>1. Init => Typed /\ Counting
  BY InitTyped
<1>2. Typed /\ Counting /\ [Next]_vars => Typed' /\ Counting'
  BY StepTyped
<1>3. Typed => TypeOK
  BY DEF Typed
<1> QED
  BY <1>1, <1>2, <1>3, PTL DEF Spec

-----------------------------------------------------------------------------
(* Leases are current                                                      *)

(* The shared instance has the pool's version, which the registry's has    *)
(* only ever been ahead of, as it has been of the versions requests saw.   *)
Labelled ==
    /\ label[primary] = current /\ current <= version
    /\ \A t \in Tasks : since[t] <= version

LEMMA StepCurrent ==
    ASSUME Typed, Labelled, LeaseCurrent, [Next]_vars
    PROVE  Labelled' /\ LeaseCurrent'
<1> USE AllActors, Numbers DEF Typed, TypeOK, Labelled, LeaseCurrent, Goto, pool, connections, factory,
        request, closing
<1>1. ASSUME NEW a \in Actors, \E to : to # "using" /\ pc' = [pc EXCEPT ![a] = to],
             UNCHANGED <<scope, version, primary, current, label>>,
             UNCHANGED since \/ (a \in Tasks /\ \E v \in {0, version} : since' = [since EXCEPT ![a] = v]),
             \A t \in Tasks \ {a} : lease'[t] = lease[t]
      PROVE  Labelled' /\ LeaseCurrent'
  <2>1. Labelled'
    <3>1. \A t \in Tasks : since'[t] = since[t] \/ since'[t] = 0 \/ since'[t] = version
      BY <1>1
    <3>2. ASSUME NEW t \in Tasks PROVE since'[t] <= version
      <4>1. since[t] <= version /\ version \in Int /\ 0 <= version /\ version <= version
        OBVIOUS
      <4> QED
        BY <3>1, <4>1
    <3> QED
      BY <1>1, <3>2
  <2>2. \A t \in Tasks : pc'[t] = "using" =>
          pc[t] = "using" /\ lease'[t] = lease[t] /\ since'[t] = since[t]
    BY <1>1
  <2> QED
    BY <1>1, <2>1, <2>2
<1>2. ASSUME NEW t \in Tasks, AcquireShared(t) \/ Refresh(t), UpToDate
      PROVE  Labelled' /\ LeaseCurrent'
  <2>1. /\ UNCHANGED <<scope, version, primary, current, label>>
        /\ lease' = [lease EXCEPT ![t] = primary] /\ pc' = [pc EXCEPT ![t] = "using"]
        /\ UNCHANGED since \/ since' = [since EXCEPT ![t] = version]
        /\ version <= current
    BY <1>2 DEF AcquireShared, Refresh, Called, UpToDate, Hold
  <2>2. Labelled'
    <3>1. \A u \in Tasks : since'[u] = since[u] \/ since'[u] = version
      BY <2>1
    <3>2. ASSUME NEW u \in Tasks PROVE since'[u] <= version
      <4>1. since[u] <= version /\ version \in Int /\ 0 <= version /\ version <= version
        OBVIOUS
      <4> QED
        BY <3>1, <4>1
    <3> QED
      BY <2>1, <3>2
  <2>3. \A u \in Tasks \ {t} : pc'[u] = pc[u] /\ lease'[u] = lease[u] /\ since'[u] = since[u]
    BY <2>1
  <2>4. lease'[t] = primary /\ since'[t] <= version
    BY <2>1
  <2>5. label'[primary] >= version
    BY <2>1
  <2> QED
    BY <2>1, <2>2, <2>3, <2>4, <2>5
<1>3. ASSUME NEW t \in Tasks, Connect(t), conns[key[t]] # 0
      PROVE  Labelled' /\ LeaseCurrent'
  BY <1>3 DEF Connect, Hold, Placed
<1>4. ASSUME NEW t \in Tasks, Created(t)
      PROVE  Labelled' /\ LeaseCurrent'
  <2>1. PICK i \in Instances :
          /\ i # primary /\ \A u \in Tasks : lease[u] # i
          /\ label' = [label EXCEPT ![i] = version]
          /\ Hold(t, i)
          /\ \/ primary' = i /\ current' = version
             \/ UNCHANGED <<primary, current>>
          /\ UNCHANGED <<scope, version, since>>
    BY <1>4, NewNumber DEF Created, Swap
  <2>2. label'[i] = version /\ \A j \in Instances : j # i => label'[j] = label[j]
    BY <2>1
  <2>3. lease'[t] = i /\ \A u \in Tasks : u # t => lease'[u] = lease[u] /\ pc'[u] = pc[u]
    BY <2>1 DEF Hold
  <2>4. Labelled'
    BY <2>1, <2>2
  <2>5. \A u \in Tasks : u # t /\ pc'[u] = "using" =>
          pc[u] = "using" /\ lease'[u] \in Instances /\ label'[lease'[u]] = label[lease[u]]
    BY <2>1, <2>2, <2>3 DEF Leased
  <2>6. LeaseCurrent'
    BY <2>1, <2>2, <2>3, <2>5
  <2> QED
    BY <2>4, <2>6
<1>5. ASSUME NEW t \in Tasks, Step(t)
      PROVE  Labelled' /\ LeaseCurrent'
  <2>1. CASE (AcquireShared(t) \/ Refresh(t)) /\ ~UpToDate
    BY <1>1, <2>1 DEF AcquireShared, Refresh, Called
  <2>2. CASE Connect(t) /\ conns[key[t]] = 0
    BY <1>1, <2>2 DEF Connect
  <2>3. CASE AcquireOwn(t) \/ Instantiate(t) \/ \E k \in Keys : AcquireConnection(t, k)
    BY <1>1, <2>3 DEF AcquireOwn, AcquireConnection, Called, Instantiate
  <2>4. CASE CreateFails(t) \/ Cancel(t)
    BY <1>1, <2>4 DEF CreateFails, Cancel, GiveUp
  <2>5. CASE Release(t)
    <3>1. /\ \E to \in {"idle", "dispose"} : pc' = [pc EXCEPT ![t] = to]
          /\ UNCHANGED <<scope, version, primary, current, label>>
          /\ since' = [since EXCEPT ![t] = 0] /\ lease' = [lease EXCEPT ![t] = 0]
      BY <2>5, ScopesAssumption DEF Release, Discard, ScopeValues
    <3> QED
      BY <1>1, <3>1
  <2> QED
    BY <1>2, <1>3, <1>4, <1>5, <2>1, <2>2, <2>3, <2>4, <2>5 DEF Step
<1>6. ASSUME NEW a \in Actors, Dispose(a) \/ ShutDown(a)
      PROVE  Labelled' /\ LeaseCurrent'
  BY <1>1, <1>6 DEF Dispose, ShutDown, Discard
<1>7. ASSUME NEW k \in Keys, SessionEnds(k) \/ CleanUp(k)
      PROVE  Labelled' /\ LeaseCurrent'
  BY <1>1, <1>7 DEF SessionEnds, CleanUp, Discard
<1>8. CASE DisposeConnections \/ DisposePrimary \/ DisposeStale \/ Finalize
  BY <1>1, <1>8 DEF DisposeConnections, DisposePrimary, DisposeStale, Finalize, Discard
<1>9. CASE Reload \/ Shutdown \/ Finalized \/ Over \/ UNCHANGED vars
  BY <1>9 DEF Reload, Shutdown, Finalized, Over, vars
<1> QED
  BY <1>5, <1>6, <1>7, <1>8, <1>9 DEF Next

(* No request works with an instance that is older than its acquire.       *)
THEOREM LeaseCurrentSafe == Spec => []LeaseCurrent
<1>1. Init => Typed /\ Counting /\ Labelled /\ LeaseCurrent
  BY InitTyped, Numbers, AllActors DEF Init, Labelled, LeaseCurrent
<1>2. Typed /\ Counting /\ Labelled /\ LeaseCurrent /\ [Next]_vars
        => Typed' /\ Counting' /\ Labelled' /\ LeaseCurrent'
  BY StepTyped, StepCurrent
<1> QED
  BY <1>1, <1>2, PTL DEF Spec

-----------------------------------------------------------------------------
(* Leases are live, and every instance is shut down once                   *)

(* The pool is shut down when no request nor session is at work, and nobody *)
(* disposes for it before.                                                 *)
Closing ==
    IF phase = "serving" THEN pc[Main] = "idle"
                         ELSE \A a \in Tasks \cup Keys : pc[a] = "idle"

(* Instances that are live, and that nobody is about to dispose of.        *)
Intact == {i \in Instances : state[i] = "live" /\ \A a \in Actors : i \notin ToSet(todo[a])}

(* The shared instance, until the shutdown comes to it.                    *)
Shown == IF phase \in {"serving", "callbacks", "connections"} THEN {primary} ELSE {}

(* What the pool keeps, and requests have of their own, is intact.         *)
Keeping ==
    /\ Shown \subseteq Intact /\ ToSet(stale) \subseteq Intact
    /\ \A k \in Keys : conns[k] # 0 => conns[k] \in Intact
    /\ scope = "request" => \A t \in Tasks : lease[t] # 0 => lease[t] \in Intact

(* It is kept in one place.                                                *)
Distinct ==
    /\ IsInjective(stale) /\ Shown \cap ToSet(stale) = {}
    /\ \A k \in Keys : conns[k] # 0 => /\ conns[k] \notin Shown \cup ToSet(stale)
                                       /\ \A j \in Keys : j # k => conns[j] # conns[k]
    /\ scope = "request" =>
         \A t \in Tasks : lease[t] # 0 => /\ lease[t] \notin Shown \cup ToSet(stale)
                                          /\ \A k \in Keys : conns[k] # lease[t]
                                          /\ \A u \in Tasks : u # t => lease[u] # lease[t]

(* A lease that is not a request's own is of what the pool keeps.          *)
Leasing ==
    \A t \in Tasks :
        /\ scope = "shared" /\ lease[t] # 0 => lease[t] \in {primary} \cup ToSet(stale)
        /\ scope = "connection" /\ lease[t] # 0 => lease[t] = conns[key[t]]
        /\ scope = "connection" /\ pc[t] \in {"instantiate", "building"} =>
             lock["connection"] = t /\ conns[key[t]] = 0

(* An instance is to be disposed of once, and is live until that begins.   *)
Todos ==
    \A a \in Actors :
        /\ IsInjective(todo[a])
        /\ \A b \in Actors : b # a => ToSet(todo[a]) \cap ToSet(todo[b]) = {}
        /\ \A i \in ToSet(todo[a]) : state[i] # "live" => pc[a] = "shutting" /\ i = Head(todo[a])
        /\ pc[a] = "shutting" => state[Head(todo[a])] = "closing"

(* The runtime manages what is live.                                       *)
Managing == \A i \in Instances : state[i] # "twice" /\ (i \in managed <=> state[i] = "live")

(* What is left as the shutdown goes on.                                   *)
Ending ==
    /\ phase \in {"stale", "managed", "done"} => stale = <<>>
    /\ phase \notin {"serving", "callbacks"} => \A k \in Keys : conns[k] = 0
    /\ phase = "managed" => managed \subseteq ToSet(todo[Main])
    /\ phase = "done" => managed = {} /\ pc[Main] = "idle"

Safe == Closing /\ Keeping /\ Distinct /\ Leasing /\ Todos /\ Managing /\ Ending

LEMMA SafeLease == Typed /\ Safe => LeaseSafe
<1> SUFFICES ASSUME Typed, Safe, NEW t \in Tasks, pc[t] = "using"
             PROVE  state[lease[t]] = "live"
  BY DEF LeaseSafe
<1>1. lease[t] # 0 /\ phase = "serving" /\ (scope = "connection" => key[t] \in Keys)
  BY DEF Typed, Leased, Placed, Safe, Closing
<1>2. scope \in {"shared", "request", "connection"}
  BY ScopesAssumption DEF Typed, TypeOK, ScopeValues
<1>3. lease[t] \in Intact
  BY <1>1, <1>2 DEF Safe, Keeping, Leasing, Shown
<1> QED
  BY <1>3 DEF Intact

(* Steps at which the instances stay as they are.                          *)
LEMMA SameInstances ==
    ASSUME Keeping, Distinct, Todos, Managing, Ending,
           UNCHANGED <<scope, primary, stale, conns, state, todo, managed>>,
           Shown' = Shown, phase' = phase \/ (phase = "serving" /\ phase' = "callbacks"),
           \A a \in Actors : pc'[a] = "shutting" <=> pc[a] = "shutting",
           phase = "done" => pc'[Main] = pc[Main],
           scope = "request" => \A t \in Tasks : lease'[t] # 0 => lease'[t] = lease[t]
    PROVE  Keeping' /\ Distinct' /\ Todos' /\ Managing' /\ Ending'
<1>1. Intact' = Intact
  BY DEF Intact
<1>2. Keeping'
  BY <1>1 DEF Keeping
<1>3. Distinct'
  BY DEF Distinct
<1>4. Todos'
  BY DEF Todos
<1>5. Managing' /\ Ending'
  BY DEF Managing, Ending
<1> QED
  BY <1>2, <1>3, <1>4, <1>5

(* An actor goes on to dispose of what was intact.                         *)
LEMMA Discards ==
    ASSUME Typed, Todos, Managing,
           NEW a \in Actors, NEW s \in Seq(Instances), Discard(a, s),
           pc[a] \notin Disposing, IsInjective(s), ToSet(s) \subseteq Intact,
           UNCHANGED <<state, managed>>
    PROVE  /\ Todos' /\ Managing' /\ Intact' = Intact \ ToSet(s)
           /\ todo'[a] = s /\ \A b \in Actors : b # a => todo'[b] = todo[b] /\ pc'[b] = pc[b]
<1>1. /\ todo'[a] = s /\ pc'[a] \in {"idle", "dispose"} /\ todo[a] = <<>>
      /\ \A b \in Actors : b # a => todo'[b] = todo[b] /\ pc'[b] = pc[b]
  BY DEF Discard, Goto, Typed, TypeOK, Busy
<1>2. /\ \A i \in ToSet(s) : state[i] = "live" /\ \A b \in Actors : i \notin ToSet(todo[b])
      /\ ToSet(todo[a]) = {}
  BY <1>1, NoItem DEF Intact
<1>3. Todos'
  BY <1>1, <1>2 DEF Todos
<1>4. Managing'
  BY DEF Managing
<1>5. Intact' = Intact \ ToSet(s)
  BY <1>1, <1>2 DEF Intact
<1> QED
  BY <1>1, <1>3, <1>4, <1>5

(* It disposes of the first of them.                                       *)
LEMMA Disposes ==
    ASSUME Typed, Todos, Managing, NEW a \in Actors, Dispose(a)
    PROVE  Todos' /\ Managing' /\ Intact' = Intact /\ managed' \subseteq managed
<1> DEFINE i == Head(todo[a])
<1>1. /\ pc[a] = "dispose" /\ pc' = [pc EXCEPT ![a] = "shutting"]
      /\ managed' = managed \ {i} /\ UNCHANGED todo
      /\ state' = [state EXCEPT ![i] = IF @ = "live" THEN "closing" ELSE "twice"]
  BY DEF Dispose, Goto
<1>2. todo[a] \in Seq(Instances) /\ todo[a] # <<>>
  BY <1>1 DEF Typed, TypeOK, Busy, Disposing
<1>3. i \in Instances /\ i \in ToSet(todo[a])
  BY <1>2, FirstItem
<1>4. state[i] = "live"
  BY <1>1, <1>3 DEF Todos
<1> HIDE DEF i
<1>5. /\ state'[i] = "closing"
      /\ \A j \in Instances : j # i => state'[j] = state[j]
  BY <1>1, <1>3, <1>4 DEF Typed, TypeOK
<1>6. /\ pc'[a] = "shutting" /\ \A b \in Actors : b # a => pc'[b] = pc[b]
  BY <1>1 DEF Typed, TypeOK
<1>7. \A b \in Actors : ToSet(todo[b]) \subseteq Instances
  BY DEF Typed, TypeOK, ToSet
<1>8. \A b \in Actors : b # a => i \notin ToSet(todo[b])
  BY <1>3 DEF Todos
<1>9. \A b \in Actors : pc[b] = "shutting" => Head(todo[b]) \in ToSet(todo[b]) /\ Head(todo[b]) \in Instances
  <2>1. ASSUME NEW b \in Actors, pc[b] = "shutting"
        PROVE  Head(todo[b]) \in ToSet(todo[b]) /\ Head(todo[b]) \in Instances
    <3>1. todo[b] \in Seq(Instances) /\ todo[b] # <<>>
      BY <2>1 DEF Typed, TypeOK, Busy, Disposing
    <3> QED
      BY <3>1, FirstItem
  <2> QED
    BY <2>1
<1>10. Todos'
  <2>1. ASSUME NEW b \in Actors
        PROVE  /\ \A j \in ToSet(todo[b]) : state'[j] # "live" => pc'[b] = "shutting" /\ j = Head(todo[b])
               /\ pc'[b] = "shutting" => state'[Head(todo[b])] = "closing"
    <3>1. CASE b = a
      BY <1>1, <1>5, <1>6, <1>7, <3>1 DEF Todos, i
    <3>2. CASE b # a
      BY <1>5, <1>6, <1>7, <1>8, <1>9, <3>2 DEF Todos
    <3> QED
      BY <3>1, <3>2
  <2> QED
    BY <1>1, <2>1 DEF Todos
<1>11. Managing'
  BY <1>1, <1>3, <1>5 DEF Managing
<1>12. Intact' = Intact
  BY <1>1, <1>3, <1>5 DEF Intact
<1> QED
  BY <1>1, <1>10, <1>11, <1>12

LEMMA ShutsDown ==
    ASSUME Typed, Todos, Managing, NEW a \in Actors, ShutDown(a)
    PROVE  Todos' /\ Managing' /\ Intact' = Intact /\ managed' = managed
           /\ managed \cap ToSet(todo[a]) = managed \cap ToSet(todo'[a])
<1> DEFINE i == Head(todo[a])
<1>1. pc[a] = "shutting" /\ UNCHANGED managed /\ Discard(a, Tail(todo[a]))
  BY DEF ShutDown
<1>2. todo[a] \in Seq(Instances) /\ todo[a] # <<>>
  BY <1>1 DEF Typed, TypeOK, Busy, Disposing
<1>3. /\ i \in Instances /\ Tail(todo[a]) \in Seq(Instances)
      /\ ToSet(todo[a]) = {i} \cup ToSet(Tail(todo[a]))
      /\ IsInjective(todo[a]) => IsInjective(Tail(todo[a])) /\ i \notin ToSet(Tail(todo[a]))
  BY <1>2, FirstItem
<1>4. state[i] = "closing"
  BY <1>1 DEF Todos
<1>5. state'[i] = "shut" /\ \A j \in Instances : j # i => state'[j] = state[j]
  <2>1. state' = [state EXCEPT ![i] = IF @ = "closing" THEN "shut" ELSE @]
    BY DEF ShutDown
  <2> QED
    BY <1>3, <1>4, <2>1 DEF Typed, TypeOK
<1>6. /\ todo'[a] = Tail(todo[a]) /\ pc'[a] \in {"idle", "dispose"}
      /\ \A b \in Actors : b # a => todo'[b] = todo[b] /\ pc'[b] = pc[b]
  BY <1>1, <1>3, DiscardTyped DEF Typed, TypeOK
<1> HIDE DEF i
<1>7. \A b \in Actors : ToSet(todo[b]) \subseteq Instances
  BY DEF Typed, TypeOK, ToSet
<1>8. \A b \in Actors : b # a => i \notin ToSet(todo[b])
  BY <1>3 DEF Todos
<1>9. \A b \in Actors : pc[b] = "shutting" => Head(todo[b]) \in ToSet(todo[b]) /\ Head(todo[b]) \in Instances
  <2>1. ASSUME NEW b \in Actors, pc[b] = "shutting"
        PROVE  Head(todo[b]) \in ToSet(todo[b]) /\ Head(todo[b]) \in Instances
    <3>1. todo[b] \in Seq(Instances) /\ todo[b] # <<>>
      BY <2>1 DEF Typed, TypeOK, Busy, Disposing
    <3> QED
      BY <3>1, FirstItem
  <2> QED
    BY <2>1
<1>10. Todos'
  <2>1. IsInjective(todo'[a]) /\ ToSet(todo'[a]) \subseteq ToSet(todo[a]) \ {i}
    BY <1>3, <1>6 DEF Todos
  <2>2. \A j \in ToSet(todo'[a]) : state'[j] = "live"
    BY <1>5, <1>7, <2>1 DEF Todos, i
  <2>3. ASSUME NEW b \in Actors, b # a
        PROVE  /\ \A j \in ToSet(todo[b]) : state'[j] # "live" => pc'[b] = "shutting" /\ j = Head(todo[b])
               /\ pc'[b] = "shutting" => state'[Head(todo[b])] = "closing"
    BY <1>5, <1>6, <1>7, <1>8, <1>9, <2>3 DEF Todos
  <2> QED
    BY <1>6, <2>1, <2>2, <2>3 DEF Todos
<1>11. Managing'
  BY <1>1, <1>4, <1>5 DEF Managing
<1>12. Intact' = Intact
  BY <1>3, <1>4, <1>5, <1>6 DEF Intact
<1>13. i \notin managed
  BY <1>3, <1>4 DEF Managing
<1> QED
  BY <1>1, <1>3, <1>6, <1>10, <1>11, <1>12, <1>13

(* A request that gives up leaves what it had yet to dispose of.           *)
LEMMA GivesUp ==
    ASSUME Typed, Todos, Managing, NEW t \in Tasks, GiveUp(t), UNCHANGED <<state, managed>>
    PROVE  Todos' /\ Managing' /\ Intact \subseteq Intact'
<1>1. /\ todo'[t] = <<>> /\ pc'[t] = "idle" /\ ToSet(todo'[t]) = {} /\ IsInjective(todo'[t])
      /\ \A b \in Actors : b # t => todo'[b] = todo[b] /\ pc'[b] = pc[b]
  BY AllActors, NoItem DEF GiveUp, Goto, Typed, TypeOK
<1>2. Todos'
  BY <1>1 DEF Todos
<1>3. Managing'
  BY DEF Managing
<1>4. Intact \subseteq Intact'
  BY <1>1 DEF Intact
<1> QED
  BY <1>2, <1>3, <1>4

(* A new instance is intact, and nobody's but whose it becomes.            *)
LEMMA CreatedSafe ==
    ASSUME Typed, Safe, NEW t \in Tasks, Created(t)
    PROVE  Safe'
<1>1. PICK i \in Instances :
        /\ i # primary /\ i \notin ToSet(stale) /\ i \notin managed /\ state[i] \in {"none", "shut"}
        /\ \A k \in Keys : conns[k] # i
        /\ \A u \in Tasks : lease[u] # i
        /\ \A a \in Actors : i \notin ToSet(todo[a])
        /\ managed' = managed \cup {i} /\ state' = [state EXCEPT ![i] = "live"]
        /\ pc' = [pc EXCEPT ![t] = "using"] /\ lease' = [lease EXCEPT ![t] = i]
        /\ IF scope = "shared" THEN primary' = i /\ stale' = Append(stale, primary)
                               ELSE UNCHANGED <<primary, stale>>
        /\ IF scope = "connection" THEN conns' = [conns EXCEPT ![key[t]] = i] ELSE UNCHANGED conns
        /\ lock' = Unlocked(t) /\ UNCHANGED <<scope, key, phase, todo>> /\ pc[t] = "building"
  BY NewNumber DEF Created, Hold, Goto, Swap, Register, pool, connections, closing
<1>2. phase = "serving" /\ phase' = "serving" /\ pc[Main] = "idle" /\ Shown = {primary} /\ Shown' = {primary'}
  BY <1>1 DEF Safe, Closing, Shown
<1>3. Closing'
  BY <1>1, <1>2, ActorsApart DEF Closing, Typed, TypeOK
<1>4. state'[i] = "live" /\ \A j \in Instances : j # i => state'[j] = state[j]
  BY <1>1 DEF Typed, TypeOK
<1>5. Intact' = Intact \cup {i}
  BY <1>1, <1>4 DEF Intact
<1>6. /\ lease'[t] = i /\ \A u \in Tasks : u # t => lease'[u] = lease[u] /\ pc'[u] = pc[u]
      /\ pc'[t] = "using"
  BY <1>1, AllActors DEF Typed, TypeOK
<1>7. \/ /\ scope = "shared" /\ primary' = i /\ conns' = conns
         /\ ToSet(stale') = ToSet(stale) \cup {primary}
         /\ IsInjective(stale) /\ primary \notin ToSet(stale) => IsInjective(stale')
      \/ scope # "shared" /\ UNCHANGED <<primary, stale>>
  <2>1. stale \in Seq(Instances) /\ primary \in Instances
    BY DEF Typed, TypeOK
  <2>2. /\ ToSet(Append(stale, primary)) = ToSet(stale) \cup {primary}
        /\ IsInjective(stale) /\ primary \notin ToSet(stale) => IsInjective(Append(stale, primary))
    BY <2>1, LastItem
  <2>3. CASE scope = "shared"
    BY <1>1, <2>2, <2>3
  <2>4. CASE scope # "shared"
    BY <1>1, <2>4
  <2> QED
    BY <2>3, <2>4
<1>8. \/ /\ scope = "connection" /\ key[t] \in Keys /\ conns[key[t]] = 0 /\ conns'[key[t]] = i
         /\ \A k \in Keys : k # key[t] => conns'[k] = conns[k]
      \/ scope # "connection" /\ conns' = conns
  BY <1>1 DEF Typed, TypeOK, Placed, Safe, Leasing
<1>9. Keeping'
  <2>1. Shown' \subseteq Intact' /\ ToSet(stale') \subseteq Intact'
    BY <1>2, <1>5, <1>7 DEF Safe, Keeping
  <2>2. \A k \in Keys : conns'[k] # 0 => conns'[k] \in Intact'
    BY <1>5, <1>8 DEF Safe, Keeping
  <2>3. scope' = "request" => \A u \in Tasks : lease'[u] # 0 => lease'[u] \in Intact'
    BY <1>1, <1>5, <1>6 DEF Safe, Keeping
  <2> QED
    BY <2>1, <2>2, <2>3 DEF Keeping
<1>10. Distinct'
  <2>1. IsInjective(stale') /\ Shown' \cap ToSet(stale') = {} /\ Shown' \cup ToSet(stale') \subseteq Shown \cup ToSet(stale) \cup {i}
        /\ (i \in Shown' => scope = "shared") /\ i \notin ToSet(stale')
    BY <1>1, <1>2, <1>7 DEF Safe, Distinct
  <2>2. \A k \in Keys : conns'[k] # 0 => /\ conns'[k] \notin Shown' \cup ToSet(stale')
                                         /\ \A j \in Keys : j # k => conns'[j] # conns'[k]
    BY <1>1, <1>8, <2>1 DEF Safe, Distinct
  <2>3. scope' = "request" =>
          \A u \in Tasks : lease'[u] # 0 => /\ lease'[u] \notin Shown' \cup ToSet(stale')
                                            /\ \A k \in Keys : conns'[k] # lease'[u]
                                            /\ \A w \in Tasks : w # u => lease'[w] # lease'[u]
    BY <1>1, <1>6, <1>8, <2>1 DEF Safe, Distinct
  <2> QED
    BY <2>1, <2>2, <2>3 DEF Distinct
<1>11. Leasing'
  <2>1. \A u \in Tasks : u # t /\ scope = "connection" => pc[u] \notin {"instantiate", "building"}
    BY <1>1 DEF Safe, Leasing
  <2>2. \A u \in Tasks : u # t /\ scope = "connection" /\ lease[u] # 0 => key[u] \in Keys /\ key[u] # key[t]
    BY <1>8 DEF Safe, Leasing, Typed, Placed, Leased
  <2> QED
    BY <1>1, <1>6, <1>7, <1>8, <2>1, <2>2 DEF Safe, Leasing
<1>12. \A a \in Actors : pc[a] = "shutting" => Head(todo[a]) \in ToSet(todo[a]) /\ Head(todo[a]) \in Instances
  <2>1. ASSUME NEW a \in Actors, pc[a] = "shutting"
        PROVE  Head(todo[a]) \in ToSet(todo[a]) /\ Head(todo[a]) \in Instances
    <3>1. todo[a] \in Seq(Instances) /\ todo[a] # <<>>
      BY <2>1 DEF Typed, TypeOK, Busy, Disposing
    <3> QED
      BY <3>1, FirstItem
  <2> QED
    BY <2>1
<1>13. Todos'
  <2>1. \A a \in Actors : ToSet(todo[a]) \subseteq Instances /\ (pc'[a] = "shutting" <=> pc[a] = "shutting")
    BY <1>1 DEF Typed, TypeOK, ToSet
  <2> QED
    BY <1>1, <1>4, <1>12, <2>1 DEF Safe, Todos
<1>14. Managing' /\ Ending'
  BY <1>1, <1>2, <1>4 DEF Safe, Managing, Ending
<1> QED
  BY <1>3, <1>9, <1>10, <1>11, <1>13, <1>14 DEF Safe

(* What a release gives up for disposal nobody else has.                   *)
LEMMA ReleaseSafe ==
    ASSUME Typed, Counting, Safe, NEW t \in Tasks, Release(t)
    PROVE  Safe'
<1>1. /\ pc[t] = "using" /\ lease' = [lease EXCEPT ![t] = 0] /\ key' = [key EXCEPT ![t] = None]
      /\ UNCHANGED <<scope, lock, primary, conns, managed, state, phase>>
  BY DEF Release, factory, connections, closing
<1>2. phase = "serving" /\ phase' = "serving" /\ pc[Main] = "idle" /\ Shown = {primary} /\ Shown' = Shown
  BY <1>1 DEF Safe, Closing, Shown
<1>3. lease[t] \in Instances
  BY <1>1 DEF Typed, TypeOK, Leased
<1>4. /\ lease'[t] = 0 /\ \A u \in Tasks : u # t => lease'[u] = lease[u] /\ key'[u] = key[u]
  BY <1>1 DEF Typed, TypeOK
<1>5. PICK s \in Seq(Instances) :
        /\ Discard(t, s) /\ IsInjective(s) /\ ToSet(s) \subseteq Intact
        /\ ToSet(s) \cap (Shown \cup {conns[k] : k \in Keys} \cup ToSet(stale')) = {}
        /\ scope = "request" => \A u \in Tasks : u # t => lease[u] \notin ToSet(s)
        /\ ToSet(stale') \subseteq ToSet(stale) /\ IsInjective(stale')
        /\ scope = "shared" => stale' = stale \/ \A u \in Tasks : u # t => lease[u] = 0
  <2>1. CASE scope = "shared"
    <3> DEFINE left == IF count > 0 THEN count - 1 ELSE 0
    <3>1. Discard(t, Idle(left)) /\ stale' = Kept(Idle(left))
      BY <2>1 DEF Release
    <3>2. CASE left # 0 \/ stale = <<>>
      <4>1. Discard(t, <<>>) /\ stale' = stale /\ <<>> \in Seq(Instances)
        BY <3>1, <3>2 DEF Idle, Kept
      <4> QED
        BY <2>1, <4>1, NoItem DEF Safe, Distinct
    <3>3. CASE left = 0 /\ stale # <<>>
      <4>1. Discard(t, stale) /\ stale' = <<>> /\ stale \in Seq(Instances)
        BY <3>1, <3>3 DEF Idle, Kept, Typed, TypeOK
      <4>2. \A u \in Tasks : u # t => lease[u] = 0
        <5>1. IsFiniteSet(Users) /\ Cardinality(Users) \in Nat /\ Cardinality(Users \ {t}) \in Nat
          BY FewRequests DEF Users
        <5>2. t \in Users
          BY <1>1 DEF Users
        <5>3. Cardinality(Users \ {t}) = Cardinality(Users) - 1
          BY <5>1, <5>2, FS_RemoveElement
        <5>4. Cardinality(Users \ {t}) = 0
          BY <2>1, <3>3, <5>1, <5>3 DEF Counting
        <5>5. IsFiniteSet(Users \ {t})
          BY <5>1, FS_RemoveElement
        <5>6. Users \ {t} = {}
          BY <5>4, <5>5, FS_EmptySet
        <5> QED
          BY <5>6 DEF Users, Typed, Leased
      <4>3. /\ IsInjective(stale) /\ ToSet(stale) \subseteq Intact
            /\ ToSet(stale) \cap (Shown \cup {conns[k] : k \in Keys}) = {}
        <5>1. 0 \notin ToSet(stale)
          BY Numbers DEF Safe, Keeping, Intact
        <5> QED
          BY <5>1 DEF Safe, Keeping, Distinct
      <4> QED
        BY <2>1, <4>1, <4>2, <4>3, NoItem
    <3> QED
      BY <3>2, <3>3
  <2>2. CASE scope = "request"
    <3>1. Discard(t, <<lease[t]>>) /\ stale' = stale
      BY <2>2 DEF Release
    <3>2. <<lease[t]>> \in Seq(Instances) /\ ToSet(<<lease[t]>>) = {lease[t]} /\ IsInjective(<<lease[t]>>)
      BY <1>3, OneItem
    <3>3. /\ lease[t] \in Intact /\ lease[t] \notin Shown \cup {conns[k] : k \in Keys} \cup ToSet(stale)
          /\ \A u \in Tasks : u # t => lease[u] # lease[t]
      BY <1>3, <2>2, Numbers DEF Safe, Keeping, Distinct
    <3> QED
      BY <2>2, <3>1, <3>2, <3>3 DEF Safe, Distinct
  <2>3. CASE scope = "connection"
    <3>1. Discard(t, <<>>) /\ stale' = stale /\ <<>> \in Seq(Instances)
      BY <2>3 DEF Release
    <3> QED
      BY <2>3, <3>1, NoItem DEF Safe, Distinct
  <2> QED
    BY <2>1, <2>2, <2>3, ScopesAssumption DEF Typed, TypeOK, ScopeValues
<1>6. /\ Todos' /\ Managing' /\ Intact' = Intact \ ToSet(s)
      /\ \A b \in Actors : b # t => pc'[b] = pc[b]
  BY <1>1, <1>5, AllActors, Discards DEF Safe, Disposing
<1>7. pc'[t] \in {"idle", "dispose"}
  BY <1>5, AllActors DEF Discard, Goto, Typed, TypeOK
<1>8. Closing'
  BY <1>2, <1>6, ActorsApart DEF Closing
<1>9. Keeping'
  <2>1. Shown' \subseteq Intact' /\ ToSet(stale') \subseteq Intact'
    BY <1>2, <1>5, <1>6 DEF Safe, Keeping
  <2>2. \A k \in Keys : conns'[k] # 0 => conns'[k] \in Intact'
    BY <1>1, <1>5, <1>6 DEF Safe, Keeping
  <2>3. scope' = "request" => \A u \in Tasks : lease'[u] # 0 => lease'[u] \in Intact'
    BY <1>1, <1>4, <1>5, <1>6 DEF Safe, Keeping
  <2> QED
    BY <2>1, <2>2, <2>3 DEF Keeping
<1>10. Distinct'
  BY <1>1, <1>2, <1>4, <1>5 DEF Safe, Distinct
<1>11. Leasing'
  BY <1>1, <1>4, <1>5, <1>6, <1>7, AllActors DEF Safe, Leasing
<1>12. Ending'
  BY <1>2 DEF Ending
<1> QED
  BY <1>6, <1>8, <1>9, <1>10, <1>11, <1>12 DEF Safe

LEMMA RequestSafe ==
    ASSUME Typed, Counting, Safe, Drained, NEW t \in Tasks, Step(t)
    PROVE  Safe'
<1>1. ASSUME \E to : to \notin Disposing /\ pc' = [pc EXCEPT ![t] = to], pc[t] \notin Disposing,
             phase = "serving", Leasing',
             UNCHANGED <<scope, primary, stale, conns, state, todo, managed, phase>>,
             scope = "request" => UNCHANGED lease
      PROVE  Safe'
  <2>1. \A a \in Actors : (pc'[a] = "shutting" <=> pc[a] = "shutting") /\ (a # t => pc'[a] = pc[a])
    BY <1>1, AllActors DEF Disposing, Typed, TypeOK
  <2>2. Closing'
    BY <1>1, <2>1, AllActors, ActorsApart DEF Safe, Closing
  <2> QED
    BY <1>1, <2>1, <2>2, SameInstances DEF Safe, Shown
<1>2. pc[t] # "idle" => phase = "serving"
  BY DEF Safe, Closing
<1>3. CASE AcquireShared(t) \/ Refresh(t)
  <2>1. /\ scope = "shared" /\ phase = "serving" /\ pc[t] \in {"idle", "refresh"}
        /\ UNCHANGED <<scope, primary, stale, conns, state, todo, managed, phase>>
        /\ UNCHANGED lease \/ lease' = [lease EXCEPT ![t] = primary]
        /\ \E to \in {"using", "refresh", "instantiate"} : pc' = [pc EXCEPT ![t] = to]
    BY <1>2, <1>3 DEF AcquireShared, Refresh, Called, Open, Hold, Goto, Typed, Placed, connections,
                      factory, closing
  <2>2. Leasing'
    BY <2>1 DEF Safe, Leasing, Typed, TypeOK
  <2> QED
    BY <1>1, <2>1, <2>2 DEF Disposing
<1>4. CASE AcquireOwn(t) \/ Instantiate(t) \/ \E k \in Keys : AcquireConnection(t, k)
  <2>1. /\ phase = "serving" /\ pc[t] \in {"idle", "instantiate"}
        /\ UNCHANGED <<scope, primary, stale, conns, state, todo, managed, phase, lease>>
        /\ \A u \in Tasks : u # t => key'[u] = key[u]
        /\ \/ pc' = [pc EXCEPT ![t] = "instantiate"] /\ scope = "request" /\ UNCHANGED lock
           \/ /\ pc[t] = "instantiate" /\ pc' = [pc EXCEPT ![t] = "building"] /\ UNCHANGED key
              /\ lock' = [lock EXCEPT !["instance"] = t]
           \/ pc' = [pc EXCEPT ![t] = "connect"] /\ UNCHANGED lock
    BY <1>2, <1>4 DEF AcquireOwn, AcquireConnection, Instantiate, Called, Open, Lock, Goto, pool,
                      connections, request, closing, factory, Typed, TypeOK
  <2>2. lock'["connection"] = lock["connection"] /\ lease[t] = 0
    BY <2>1 DEF Locks, Typed, TypeOK, Leased
  <2>3. Leasing'
    BY <2>1, <2>2, AllActors DEF Safe, Leasing, Typed, TypeOK
  <2> QED
    BY <1>1, <2>1, <2>3 DEF Disposing
<1>5. CASE Connect(t)
  <2>1. /\ phase = "serving" /\ pc[t] = "connect" /\ scope = "connection" /\ lock["connection"] = None
        /\ UNCHANGED <<scope, primary, stale, conns, state, todo, managed, phase, key>>
        /\ \/ /\ lease' = [lease EXCEPT ![t] = conns[key[t]]] /\ pc' = [pc EXCEPT ![t] = "using"]
              /\ UNCHANGED lock
           \/ /\ UNCHANGED lease /\ pc' = [pc EXCEPT ![t] = "instantiate"]
              /\ lock' = [lock EXCEPT !["connection"] = t] /\ conns[key[t]] = 0
    BY <1>2, <1>5 DEF Connect, Hold, Lock, Goto, Typed, Placed, pool, connections, factory, closing
  <2>2. \A u \in Tasks : pc[u] \notin {"instantiate", "building"}
    BY <2>1, AllActors, ActorsApart DEF Safe, Leasing
  <2>3. \A u \in Tasks : u # t => lease'[u] = lease[u] /\ pc'[u] = pc[u]
    BY <2>1, AllActors DEF Typed, TypeOK
  <2>4. \/ lease'[t] = conns[key[t]] /\ pc'[t] = "using"
        \/ lease'[t] = 0 /\ lock'["connection"] = t /\ conns[key[t]] = 0
    BY <2>1, AllActors DEF Typed, TypeOK, Leased, Locks
  <2>5. Leasing'
    BY <2>1, <2>2, <2>3, <2>4 DEF Safe, Leasing
  <2> QED
    BY <1>1, <2>1, <2>5 DEF Disposing
<1>6. CASE CreateFails(t) \/ Cancel(t)
  <2>1. /\ GiveUp(t) /\ UNCHANGED <<scope, primary, stale, conns, state, managed, phase, lease>>
        /\ pc[t] \in Awaits
    BY <1>6, InterruptibleAssumption DEF CreateFails, Cancel, pool, connections, closing, Awaits
  <2>2. phase = "serving" /\ lease[t] = 0
    BY <1>2, <2>1 DEF Awaits, Typed, TypeOK, Leased
  <2>3. /\ pc' = [pc EXCEPT ![t] = "idle"] /\ key' = [key EXCEPT ![t] = None]
        /\ lock' = Unlocked(t)
    BY <2>1 DEF GiveUp, Goto
  <2>4. Todos' /\ Managing' /\ Intact \subseteq Intact'
    BY <2>1, GivesUp DEF Safe
  <2>5. Closing'
    BY <2>1, <2>2, <2>3, ActorsApart DEF Safe, Closing, Typed, TypeOK
  <2>6. Shown' = Shown
    BY <2>1 DEF Shown
  <2>7. Keeping'
    BY <2>1, <2>4, <2>6 DEF Safe, Keeping
  <2>8. Distinct'
    BY <2>1, <2>6 DEF Safe, Distinct
  <2>9. \A u \in Tasks : u # t => /\ pc'[u] = pc[u] /\ key'[u] = key[u]
                                  /\ lock["connection"] = u => lock'["connection"] = u
    BY <2>3, AllActors DEF Unlocked, Locks, Typed, TypeOK
  <2>10. Leasing'
    BY <2>1, <2>2, <2>3, <2>9, AllActors DEF Safe, Leasing, Typed, TypeOK
  <2>11. Ending'
    BY <2>1, <2>2 DEF Ending
  <2> QED
    BY <2>4, <2>5, <2>7, <2>8, <2>10, <2>11 DEF Safe
<1> QED
  BY <1>3, <1>4, <1>5, <1>6, CreatedSafe, ReleaseSafe DEF Step

(* Nobody's turn but the actor's own is affected by its disposals.         *)
LEMMA DisposalSafe ==
    ASSUME Typed, Safe, NEW a \in Actors, Dispose(a) \/ ShutDown(a)
    PROVE  Safe'
<1>1. /\ UNCHANGED <<scope, lock, primary, stale, conns, lease, key, phase>>
      /\ pc[a] \in Disposing /\ managed' \subseteq managed
      /\ \A b \in Actors : b # a => pc'[b] = pc[b]
      /\ pc'[a] \notin {"instantiate", "building"}
  BY DEF Dispose, ShutDown, Discard, Goto, Disposing, Typed, TypeOK, pool, connections, request, closing
<1>2. Todos' /\ Managing' /\ Intact' = Intact
  BY Disposes, ShutsDown DEF Safe
<1>3. Closing'
  BY <1>1, AllActors, ActorsApart DEF Safe, Closing, Disposing
<1>4. Shown' = Shown
  BY <1>1 DEF Shown
<1>5. Keeping' /\ Distinct'
  BY <1>1, <1>2, <1>4 DEF Safe, Keeping, Distinct
<1>6. Leasing'
  BY <1>1, AllActors DEF Safe, Leasing
<1>7. Ending'
  <2>1. phase = "managed" => managed' \subseteq ToSet(todo'[Main])
    <3> SUFFICES ASSUME phase = "managed" PROVE managed' \subseteq ToSet(todo'[Main])
      OBVIOUS
    <3>1. a = Main /\ managed \subseteq ToSet(todo[Main])
      BY <1>1, ActorsApart DEF Safe, Closing, Disposing, Ending
    <3>2. CASE Dispose(a)
      BY <1>1, <3>1, <3>2 DEF Dispose
    <3>3. CASE ShutDown(a)
      BY <3>1, <3>3, ShutsDown DEF Safe
    <3> QED
      BY <3>2, <3>3
  <2>2. phase # "done"
    BY <1>1, ActorsApart DEF Safe, Closing, Ending, Disposing
  <2> QED
    BY <1>1, <2>1, <2>2 DEF Safe, Ending
<1> QED
  BY <1>2, <1>3, <1>5, <1>6, <1>7 DEF Safe

(* Sessions and the shutdown dispose of what they take out of the pool.    *)
LEMMA TakenSafe ==
    ASSUME Typed, Safe, NEW a \in Keys \cup {Main}, NEW s \in Seq(Instances),
           Discard(a, s), pc[a] = "idle", IsInjective(s), ToSet(s) \subseteq Intact,
           UNCHANGED <<scope, lock, primary, lease, key, state, managed>>,
           a \in Keys => phase = "serving" /\ phase' = "serving",
           a = Main => phase # "serving" /\ phase' # "serving",
           Shown' \subseteq Shown, stale' = stale \/ stale' = <<>>,
           \A k \in Keys : conns'[k] = conns[k] \/ conns'[k] = 0,
           ToSet(s) \cap (Shown' \cup ToSet(stale')) = {},
           \A k \in Keys : conns'[k] \notin ToSet(s),
           scope = "request" => \A t \in Tasks : lease[t] # 0 => lease[t] \notin ToSet(s),
           a \in Keys => /\ \A t \in Tasks : key[t] # a
                         /\ \A k \in Keys : k # a => conns'[k] = conns[k]
                         /\ stale' = stale,
           Ending'
    PROVE  Safe'
<1>1. /\ Todos' /\ Managing' /\ Intact' = Intact \ ToSet(s)
      /\ \A b \in Actors : b # a => pc'[b] = pc[b]
  BY AllActors, Discards DEF Safe, Disposing
<1>2. Closing'
  BY <1>1, AllActors, ActorsApart DEF Safe, Closing
<1>3. ToSet(stale') \subseteq ToSet(stale) /\ (IsInjective(stale) => IsInjective(stale'))
  BY NoItem
<1>4. Keeping'
  <2>1. Shown' \subseteq Intact' /\ ToSet(stale') \subseteq Intact'
    BY <1>1, <1>3 DEF Safe, Keeping
  <2>2. \A k \in Keys : conns'[k] # 0 => conns'[k] \in Intact'
    BY <1>1 DEF Safe, Keeping
  <2>3. scope' = "request" => \A t \in Tasks : lease'[t] # 0 => lease'[t] \in Intact'
    BY <1>1 DEF Safe, Keeping
  <2> QED
    BY <2>1, <2>2, <2>3 DEF Keeping
<1>5. Distinct'
  <2>1. \A k \in Keys : conns'[k] # 0 => /\ conns'[k] \notin Shown' \cup ToSet(stale')
                                         /\ \A j \in Keys : j # k => conns'[j] # conns'[k]
    BY <1>3 DEF Safe, Distinct
  <2>2. scope' = "request" =>
          \A t \in Tasks : lease'[t] # 0 => /\ lease'[t] \notin Shown' \cup ToSet(stale')
                                            /\ \A k \in Keys : conns'[k] # lease'[t]
                                            /\ \A u \in Tasks : u # t => lease'[u] # lease'[t]
    BY <1>3 DEF Safe, Distinct
  <2> QED
    BY <1>3, <2>1, <2>2 DEF Safe, Distinct
<1>6. Leasing'
  <2>1. CASE a = Main
    <3>1. \A t \in Tasks : lease[t] = 0 /\ pc'[t] = "idle"
      BY <1>1, <2>1, AllActors, ActorsApart DEF Safe, Closing, Typed, Leased
    <3> QED
      BY <3>1 DEF Leasing
  <2>2. CASE a \in Keys
    <3>1. \A t \in Tasks : pc'[t] = pc[t]
      BY <1>1, <2>2, AllActors, ActorsApart
    <3>2. \A t \in Tasks : scope = "connection" /\ pc[t] \in {"instantiate", "building", "using"}
                             => key[t] \in Keys /\ conns'[key[t]] = conns[key[t]]
      BY <2>2 DEF Typed, Placed
    <3> QED
      BY <2>2, <3>1, <3>2 DEF Safe, Leasing, Typed, Leased
  <2> QED
    BY <2>1, <2>2
<1> QED
  BY <1>1, <1>2, <1>4, <1>5, <1>6 DEF Safe


LEMMA SessionSafe ==
    ASSUME Typed, Safe, Drained, NEW k \in Keys, SessionEnds(k)
    PROVE  Safe'
<1>1. /\ pc[k] = "idle" /\ phase = "serving" /\ phase' = "serving" /\ conns[k] # 0
      /\ \A t \in Tasks : key[t] # k
      /\ conns' = [conns EXCEPT ![k] = 0] /\ Discard(k, <<conns[k]>>)
      /\ UNCHANGED <<scope, lock, primary, stale, lease, key, state, managed>>
  BY DEF SessionEnds, Open, pool, factory, request, closing
<1>2. /\ conns'[k] = 0 /\ \A j \in Keys : j # k => conns'[j] = conns[j]
  BY <1>1 DEF Typed, TypeOK
<1>3. conns[k] \in Instances
  BY <1>1 DEF Typed, TypeOK
<1>4. <<conns[k]>> \in Seq(Instances) /\ ToSet(<<conns[k]>>) = {conns[k]} /\ IsInjective(<<conns[k]>>)
  BY <1>3, OneItem
<1>5. /\ conns[k] \in Intact /\ conns[k] \notin Shown \cup ToSet(stale)
      /\ \A j \in Keys : conns'[j] # conns[k]
      /\ scope = "request" => \A t \in Tasks : lease[t] # 0 => lease[t] # conns[k]
  BY <1>1, <1>2 DEF Safe, Keeping, Distinct
<1>6. Shown' = Shown
  BY <1>1 DEF Shown
<1>7. Ending'
  BY <1>1 DEF Ending
<1>8. k # Main
  BY ActorsApart
<1> HIDE DEF Discard
<1> DEFINE s == <<conns[k]>>
<1>9. s \in Seq(Instances) /\ Discard(k, s) /\ IsInjective(s) /\ ToSet(s) = {conns[k]}
  BY <1>1, <1>4
<1> HIDE DEF s
<1> QED
  BY <1>1, <1>2, <1>5, <1>6, <1>7, <1>8, <1>9, TakenSafe

(* What an idle run takes out of the pool when it shuts down.              *)
LEMMA MainSafe ==
    ASSUME Typed, Safe, NEW s \in Seq(Instances), Discard(Main, s), pc[Main] = "idle",
           IsInjective(s), ToSet(s) \subseteq Intact,
           UNCHANGED <<scope, lock, primary, lease, key, state, managed>>,
           phase # "serving", phase' # "serving",
           Shown' \subseteq Shown, stale' = stale \/ stale' = <<>>,
           \A k \in Keys : conns'[k] = conns[k] \/ conns'[k] = 0,
           ToSet(s) \cap (Shown' \cup ToSet(stale')) = {},
           \A k \in Keys : conns'[k] \notin ToSet(s),
           Ending'
    PROVE  Safe'
<1>1. Main \notin Keys
  BY ActorsApart
<1>2. \A t \in Tasks : lease[t] = 0
  BY AllActors DEF Safe, Closing, Typed, Leased
<1> QED
  BY <1>1, <1>2, TakenSafe

LEMMA CleanUpSafe ==
    ASSUME Typed, Safe, NEW k \in Keys, CleanUp(k)
    PROVE  Safe'
<1>1. /\ pc[Main] = "idle" /\ phase = "callbacks" /\ phase' = "callbacks"
      /\ conns' = [conns EXCEPT ![k] = 0]
      /\ Discard(Main, IF conns[k] = 0 THEN <<>> ELSE <<conns[k]>>)
      /\ UNCHANGED <<scope, lock, primary, stale, lease, key, state, managed>>
  BY DEF CleanUp, MainAt, pool, factory, request
<1>2. /\ conns'[k] = 0 /\ \A j \in Keys : j # k => conns'[j] = conns[j]
  BY <1>1 DEF Typed, TypeOK
<1>3. Shown' = Shown
  BY <1>1 DEF Shown
<1>4. Ending'
  BY <1>1 DEF Ending
<1>5. PICK s \in Seq(Instances) :
        Discard(Main, s) /\ IsInjective(s) /\ ToSet(s) = {conns[k]} \ {0}
  <2>1. CASE conns[k] = 0
    <3>1. <<>> \in Seq(Instances) /\ ToSet(<<>>) = {conns[k]} \ {0} /\ Discard(Main, <<>>)
      BY <1>1, <2>1, NoItem
    <3> QED
      BY <3>1, NoItem
  <2>2. CASE conns[k] # 0
    <3>1. conns[k] \in Instances
      BY <2>2 DEF Typed, TypeOK
    <3>2. <<conns[k]>> \in Seq(Instances) /\ ToSet(<<conns[k]>>) = {conns[k]} /\ IsInjective(<<conns[k]>>)
      BY <3>1, OneItem
    <3>3. Discard(Main, <<conns[k]>>)
      BY <1>1, <2>2
    <3>4. {conns[k]} \ {0} = {conns[k]}
      BY <2>2
    <3> QED
      BY <3>2, <3>3, <3>4
  <2> QED
    BY <2>1, <2>2
<1>6. /\ ToSet(s) \subseteq Intact /\ ToSet(s) \cap (Shown \cup ToSet(stale)) = {}
      /\ \A j \in Keys : conns'[j] \notin ToSet(s)
  BY <1>2, <1>5 DEF Safe, Keeping, Distinct
<1> QED
  BY <1>1, <1>2, <1>3, <1>4, <1>5, <1>6, MainSafe

LEMMA ShutdownSafe ==
    ASSUME Typed, Safe, DisposeConnections \/ DisposePrimary \/ DisposeStale \/ Finalize
    PROVE  Safe'
<1>1. UNCHANGED <<scope, lock, primary, lease, key, state, managed>> /\ pc[Main] = "idle"
  BY DEF DisposeConnections, DisposePrimary, DisposeStale, Finalize, MainAt, pool, factory, request
<1>2. todo[Main] = <<>> /\ \A a \in Tasks \cup Keys : phase # "serving" => todo[a] = <<>>
  BY <1>1, AllActors DEF Safe, Closing, Typed, Busy, Disposing
<1>3. CASE DisposeConnections
  <2> DEFINE X == {conns[k] : k \in Keys} \ {0}
  <2>1. X \in SUBSET Instances
    BY DEF Typed, TypeOK
  <2> DEFINE s == SetToSeq(X)
  <2>2. s \in Seq(Instances) /\ ToSet(s) = X /\ IsInjective(s)
    BY <2>1, AllItems
  <2>3. /\ Discard(Main, s) /\ phase = "callbacks" /\ phase' = "connections" /\ stale' = stale
        /\ \A k \in Keys : conns'[k] = 0
    BY <1>3 DEF DisposeConnections, MainAt, pool
  <2> HIDE DEF s
  <2>4. X \subseteq Intact /\ X \cap (Shown \cup ToSet(stale)) = {}
    BY DEF Safe, Keeping, Distinct
  <2>5. Shown' = Shown
    BY <1>1, <2>3 DEF Shown
  <2>6. Ending'
    BY <2>3 DEF Ending
  <2>7. \A k \in Keys : conns'[k] \notin ToSet(s)
    BY <2>2, <2>3
  <2> HIDE DEF X
  <2> QED
    BY <1>1, <2>2, <2>3, <2>4, <2>5, <2>6, <2>7, MainSafe
<1>4. CASE DisposePrimary
  <2> DEFINE s == <<primary>>
  <2>1. s \in Seq(Instances) /\ ToSet(s) = {primary} /\ IsInjective(s)
    BY OneItem DEF Typed, TypeOK
  <2>2. /\ Discard(Main, s) /\ phase = "connections" /\ phase' = "primary" /\ UNCHANGED <<stale, conns>>
    BY <1>4 DEF DisposePrimary, MainAt, pool, connections
  <2> HIDE DEF s
  <2>3. Shown = {primary} /\ Shown' = {}
    BY <2>2 DEF Shown
  <2>4. {primary} \subseteq Intact /\ {primary} \cap ToSet(stale) = {} /\ \A k \in Keys : conns[k] = 0
    BY <2>2, <2>3 DEF Safe, Keeping, Distinct, Ending
  <2>5. Ending'
    BY <2>2, <2>4 DEF Ending
  <2>6. primary # 0
    BY Numbers DEF Typed, TypeOK
  <2> QED
    BY <1>1, <2>1, <2>2, <2>3, <2>4, <2>5, <2>6, MainSafe
<1>5. CASE DisposeStale
  <2>1. /\ Discard(Main, stale) /\ phase = "primary" /\ phase' = "stale" /\ stale' = <<>> /\ UNCHANGED conns
    BY <1>5 DEF DisposeStale, MainAt, connections
  <2>2. stale \in Seq(Instances) /\ IsInjective(stale) /\ ToSet(stale) \subseteq Intact
    BY DEF Typed, TypeOK, Safe, Keeping, Distinct
  <2>3. Shown = {} /\ Shown' = {} /\ ToSet(stale') = {}
    BY <2>1, NoItem DEF Shown
  <2>4. \A k \in Keys : conns'[k] = 0
    BY <2>1 DEF Safe, Ending
  <2>5. Ending'
    BY <2>1, <2>4 DEF Ending
  <2>6. 0 \notin ToSet(stale)
    BY <2>2, Numbers DEF Intact
  <2> QED
    BY <1>1, <2>1, <2>2, <2>3, <2>4, <2>5, <2>6, MainSafe
<1>6. CASE Finalize
  <2> DEFINE s == SetToSeq(managed)
  <2>1. s \in Seq(Instances) /\ ToSet(s) = managed /\ IsInjective(s)
    BY AllItems DEF Typed, TypeOK
  <2>2. /\ Discard(Main, s) /\ phase = "stale" /\ phase' = "managed" /\ UNCHANGED <<stale, conns>>
    BY <1>6 DEF Finalize, MainAt, pool, connections
  <2> HIDE DEF s
  <2>3. \A a \in Actors : todo[a] = <<>>
    BY <1>2, <2>2, ActorsApart
  <2>4. managed \subseteq Intact
    BY <2>3, NoItem DEF Intact, Safe, Managing, Typed, TypeOK
  <2>5. Shown = {} /\ Shown' = {} /\ stale = <<>> /\ ToSet(stale) = {} /\ \A k \in Keys : conns'[k] = 0
    BY <2>2, NoItem DEF Shown, Safe, Ending
  <2>6. todo'[Main] = s
    BY <2>2, AllActors DEF Discard, Typed, TypeOK
  <2>7. Ending'
    BY <1>1, <2>1, <2>2, <2>5, <2>6 DEF Ending
  <2>8. 0 \notin ToSet(s)
    BY <2>1, Numbers DEF Typed, TypeOK
  <2> QED
    BY <1>1, <2>1, <2>2, <2>4, <2>5, <2>7, <2>8, MainSafe
<1> QED
  BY <1>3, <1>4, <1>5, <1>6

LEMMA StepSafe ==
    ASSUME Typed, Counting, Safe, Drained, [Next]_vars
    PROVE  Safe'
<1>1. CASE Shutdown
  <2>1. /\ pc[Main] = "idle" /\ phase = "serving" /\ phase' = "callbacks"
        /\ \A a \in Tasks \cup Keys : pc[a] = "idle"
        /\ UNCHANGED <<scope, lock, primary, stale, conns, state, todo, managed, pc, lease, key>>
    BY <1>1 DEF Shutdown, MainAt, Quiet, pool, factory, request
  <2>2. Closing'
    BY <2>1 DEF Closing
  <2>3. Shown' = Shown
    BY <2>1 DEF Shown
  <2>4. Leasing'
    BY <2>1 DEF Safe, Leasing
  <2> QED
    BY <2>1, <2>2, <2>3, <2>4, SameInstances DEF Safe
<1>2. CASE Finalized
  <2>1. /\ pc[Main] = "idle" /\ phase = "managed" /\ phase' = "done" /\ managed' = {}
        /\ UNCHANGED <<scope, lock, primary, stale, conns, state, todo, pc, lease, key>>
    BY <1>2 DEF Finalized, MainAt, pool, connections, request
  <2>2. todo[Main] = <<>>
    BY <2>1, AllActors DEF Typed, Busy, Disposing
  <2>3. managed = {}
    BY <2>1, <2>2, NoItem DEF Safe, Ending
  <2>4. Shown' = Shown /\ Intact' = Intact
    BY <2>1 DEF Shown, Intact
  <2>5. Keeping' /\ Distinct' /\ Leasing' /\ Todos' /\ Closing'
    BY <2>1, <2>4 DEF Safe, Keeping, Distinct, Leasing, Todos, Closing
  <2>6. Managing'
    BY <2>1, <2>3 DEF Safe, Managing
  <2>7. Ending'
    BY <2>1 DEF Safe, Ending
  <2> QED
    BY <2>5, <2>6, <2>7 DEF Safe
<1>3. CASE Reload \/ Over \/ UNCHANGED vars
  <2>1. UNCHANGED <<scope, lock, primary, stale, conns, state, todo, managed, pc, lease, key, phase>>
    BY <1>3 DEF Reload, Over, vars, pool, connections, factory, request, closing
  <2>2. Shown' = Shown /\ Intact' = Intact
    BY <2>1 DEF Shown, Intact
  <2>3. Keeping' /\ Distinct' /\ Leasing' /\ Todos' /\ Closing'
    BY <2>1, <2>2 DEF Safe, Keeping, Distinct, Leasing, Todos, Closing
  <2>4. Managing' /\ Ending'
    BY <2>1 DEF Safe, Managing, Ending
  <2> QED
    BY <2>3, <2>4 DEF Safe
<1> QED
  BY <1>1, <1>2, <1>3, RequestSafe, DisposalSafe, SessionSafe, CleanUpSafe, ShutdownSafe DEF Next

LEMMA InitSafe == Init => Safe
<1> SUFFICES ASSUME Init PROVE Safe
  OBVIOUS
<1>1. /\ todo = [a \in Actors |-> <<>>] /\ pc = [a \in Actors |-> "idle"] /\ primary = 1
      /\ stale = <<>> /\ conns = [k \in Keys |-> 0] /\ managed = {1} /\ phase = "serving"
      /\ lease = [t \in Tasks |-> 0]
      /\ state = [i \in Instances |-> IF i = 1 THEN "live" ELSE "none"]
  BY DEF Init
<1>2. 1 \in Intact /\ Shown = {1}
  BY <1>1, NoItem, Numbers DEF Intact, Shown
<1>3. Keeping /\ Distinct
  BY <1>1, <1>2, NoItem DEF Keeping, Distinct
<1>4. Closing /\ Leasing
  BY <1>1, AllActors DEF Closing, Leasing
<1>5. Todos
  BY <1>1, NoItem DEF Todos
<1>6. Managing /\ Ending
  BY <1>1 DEF Managing, Ending
<1> QED
  BY <1>3, <1>4, <1>5, <1>6 DEF Safe

(* While the pool is shut down after its last request, no request holds an *)
(* instance that somebody disposes of, whoever is cancelled on the way.    *)
THEOREM LeaseSafeSafe == ASSUME Drained PROVE Spec => []LeaseSafe
<1>1. Init => Typed /\ Counting /\ Safe
  BY InitTyped, InitSafe
<1>2. Typed /\ Counting /\ Safe /\ [Next]_vars => Typed' /\ Counting' /\ Safe'
  BY StepTyped, StepSafe
<1>3. Typed /\ Safe => LeaseSafe
  BY SafeLease
<1> QED
  BY <1>1, <1>2, <1>3, PTL DEF Spec

-----------------------------------------------------------------------------
(* No shutdown is left half way, where none can be cancelled               *)

Halted ==
    \A i \in Instances : state[i] = "closing" =>
        \E a \in Actors : pc[a] = "shutting" /\ Head(todo[a]) = i

LEMMA StepHalted ==
    ASSUME Typed, Safe, Halted, "shutting" \notin Interruptible, [Next]_vars
    PROVE  Halted'
<1>1. ASSUME NEW a \in Actors, pc[a] # "shutting",
             \A b \in Actors : b # a => pc'[b] = pc[b] /\ todo'[b] = todo[b],
             \A i \in Instances : state'[i] = "closing" => state[i] = "closing"
      PROVE  Halted'
  BY <1>1 DEF Halted
<1>2. ASSUME NEW t \in Tasks, Step(t)
      PROVE  Halted'
  <2>1. pc[t] # "shutting"
    BY <1>2 DEF Step, AcquireShared, Refresh, AcquireOwn, AcquireConnection, Called, Connect,
       Instantiate, Created, CreateFails, Release, Cancel
  <2>2. \A b \in Actors : b # t => pc'[b] = pc[b] /\ todo'[b] = todo[b]
    <3>1. CASE Release(t)
      BY <3>1, ScopesAssumption DEF Release, Discard, Goto, Typed, TypeOK, ScopeValues
    <3>2. CASE ~Release(t)
      <4>1. /\ \E to : pc' = [pc EXCEPT ![t] = to]
            /\ UNCHANGED todo \/ todo' = [todo EXCEPT ![t] = <<>>]
        BY <1>2, <3>2 DEF Step, AcquireShared, Refresh, AcquireOwn, AcquireConnection, Called,
           Connect, Instantiate, Created, CreateFails, Cancel, GiveUp, Hold, Goto
      <4> QED
        BY <4>1 DEF Typed, TypeOK
    <3> QED
      BY <3>1, <3>2
  <2>3. \A i \in Instances : state'[i] = "closing" => state[i] = "closing"
    <3>1. UNCHANGED state \/ \E i : state' = [state EXCEPT ![i] = "live"]
      BY <1>2 DEF Step, AcquireShared, Refresh, AcquireOwn, AcquireConnection, Connect,
         Instantiate, Created, CreateFails, Release, Cancel, factory
    <3> QED
      BY <3>1 DEF Typed, TypeOK
  <2> QED
    BY <1>1, <2>1, <2>2, <2>3, AllActors
<1>3. ASSUME NEW a \in Actors, Dispose(a)
      PROVE  Halted'
  <2>1. /\ pc[a] = "dispose" /\ UNCHANGED todo /\ pc'[a] = "shutting"
        /\ \A b \in Actors : b # a => pc'[b] = pc[b]
        /\ \A i \in Instances : i # Head(todo[a]) => state'[i] = state[i]
    BY <1>3 DEF Dispose, Goto, Typed, TypeOK
  <2> QED
    BY <2>1 DEF Halted
<1>4. ASSUME NEW a \in Actors, ShutDown(a)
      PROVE  Halted'
  <2>1. /\ pc[a] = "shutting"
        /\ \A b \in Actors : b # a => pc'[b] = pc[b] /\ todo'[b] = todo[b]
        /\ state' = [state EXCEPT ![Head(todo[a])] = IF @ = "closing" THEN "shut" ELSE @]
    BY <1>4 DEF ShutDown, Discard, Goto, Typed, TypeOK
  <2>2. \A i \in Instances : state'[i] = "closing" => state[i] = "closing" /\ i # Head(todo[a])
    BY <2>1 DEF Typed, TypeOK
  <2> QED
    BY <2>1, <2>2 DEF Halted
<1>5. ASSUME NEW k \in Keys, SessionEnds(k)
      PROVE  Halted'
  <2>1. /\ pc[k] = "idle" /\ UNCHANGED state
        /\ \A b \in Actors : b # k => pc'[b] = pc[b] /\ todo'[b] = todo[b]
    BY <1>5 DEF SessionEnds, Discard, Goto, factory, Typed, TypeOK
  <2> QED
    BY <1>1, <2>1, AllActors
<1>6. CASE (\E k \in Keys : CleanUp(k)) \/ DisposeConnections \/ DisposePrimary \/ DisposeStale \/ Finalize
  <2>1. /\ pc[Main] = "idle" /\ UNCHANGED state
        /\ \A b \in Actors : b # Main => pc'[b] = pc[b] /\ todo'[b] = todo[b]
    BY <1>6 DEF CleanUp, DisposeConnections, DisposePrimary, DisposeStale, Finalize, MainAt,
       Discard, Goto, factory, Typed, TypeOK
  <2> QED
    BY <1>1, <2>1, AllActors
<1>7. CASE Reload \/ Shutdown \/ Finalized \/ Over \/ UNCHANGED vars
  BY <1>7 DEF Reload, Shutdown, Finalized, Over, vars, factory, Halted
<1> QED
  BY <1>2, <1>3, <1>4, <1>5, <1>6, <1>7 DEF Next

LEMMA SafeOnce == Typed /\ Safe /\ Halted => ShutDownOnce
<1> SUFFICES ASSUME Typed, Safe, Halted PROVE ShutDownOnce
  OBVIOUS
<1>1. \A i \in Instances : state[i] \in {"none", "live", "closing", "shut", "twice"} /\ state[i] # "twice"
  BY DEF Typed, TypeOK, Safe, Managing
<1>2. ASSUME phase = "done" PROVE \A i \in Instances : state[i] \in {"none", "shut"}
  <2>1. managed = {} /\ \A a \in Actors : pc[a] = "idle"
    BY <1>2 DEF Safe, Closing, Ending, Actors
  <2>2. \A i \in Instances : state[i] # "live" /\ state[i] # "closing"
    BY <2>1 DEF Safe, Managing, Halted
  <2> QED
    BY <1>1, <2>2
<1> QED
  BY <1>1, <1>2 DEF ShutDownOnce

(* Every instance is shut down, and once, if the shutdown of one is not    *)
(* itself cancelled: what cancelled releases leave behind the end of the   *)
(* run finds among the managed instances.                                  *)
THEOREM ShutDownOnceSafe ==
    ASSUME Drained, "shutting" \notin Interruptible
    PROVE  Spec => []ShutDownOnce
<1>1. Init => Typed /\ Counting /\ Safe /\ Halted
  <2>1. Init => Halted
    BY DEF Init, Halted
  <2> QED
    BY <2>1, InitTyped, InitSafe
<1>2. Typed /\ Counting /\ Safe /\ Halted /\ [Next]_vars => Typed' /\ Counting' /\ Safe' /\ Halted'
  BY StepTyped, StepSafe, StepHalted
<1>3. Typed /\ Safe /\ Halted => ShutDownOnce
  BY SafeOnce
<1> QED
  BY <1>1, <1>2, <1>3, PTL DEF Spec
==============================================================================
