--------------------------- MODULE HarnessSessions ---------------------------
(***************************************************************************)
(* The live sessions of a harness: HarnessSession and HarnessSessions in   *)
(* core/harness.py over InMemoryLiveSessionRegistry in                     *)
(* core/live_session_registry.py, with the persisted session each of them  *)
(* owns through FileHarnessSessionPersistence (core/harness_persistence.py *)
(* and the owner lease of session/session_manager.py).                     *)
(*                                                                         *)
(* Any number of asyncio tasks look sessions up, create, use, delete and   *)
(* close them. They share the registry and one asyncio.Lock, which only a  *)
(* creation holds across awaits; the other critical sections are one step. *)
(* An action runs a task from one await to the next. A record and the one  *)
(* AgentInstance it owns have the same number.                             *)
(***************************************************************************)
EXTENDS Integers, FiniteSets, Functions

CONSTANTS
    Tasks,
    None,          \* no task, or no session ID
    Ids,           \* session IDs
    MaxRecords,    \* bound: instances ever created
    Interruptible, \* the awaits at which a task may be cancelled
    Failing,       \* what may raise
    Window,        \* session_history_window: 0 keeps every session
    Rivals         \* does another process use the persisted sessions?

LockPcs == {"lookup", "create", "get", "begin", "end", "delete", "shut", "closeAll"}
Awaits == LockPcs \cup {"makeInstance", "load", "undo", "op", "save", "dispose",
                        "drain", "disposeAll"}

ASSUME TasksAssumption == IsFiniteSet(Tasks) /\ None \notin Tasks \cup Ids
ASSUME IdsAssumption == IsFiniteSet(Ids)
ASSUME MaxRecordsAssumption == MaxRecords \in Nat
ASSUME AwaitsAssumption == Interruptible \subseteq Awaits
ASSUME FailingAssumption ==
    Failing \subseteq {"instance", "agent", "load", "save", "dispose"}
ASSUME WindowAssumption == Window \in Nat
ASSUME RivalsAssumption == Rivals \in BOOLEAN

Records == 1..MaxRecords
Rival == MaxRecords + 1     \* as the owner of a persisted session

VARIABLES
    registry,   \* registry._records: the record of an ID, or 0
    closing,    \* sessions._closing
    lock,       \* holder of the registry's lock
    made,       \* how many instances were created
    id,         \* record.session_id
    active,     \* records whose active_operation is set
    closed,     \* records whose closed is set
    handle,     \* records whose persistence_handle is set
    disposals,  \* how often the record's instance was handed to dispose_instance
    owner,      \* who has the owner lease of a persisted session: a record's
                \* SessionManager, Rival, or 0
    folder,     \* the persisted session: "none", "empty" or "content"
    pc,         \* where each task is
    on,         \* the session a task holds, or the one its call is about, or 0
    want,       \* the ID a task's call is about
    via,        \* the method that is creating: "create" or "get_or_create"
    todo,       \* records whose instances a close_all has yet to dispose
    returned    \* auxiliary: a close_all has returned

records == <<registry, made, id, active, closed, handle, disposals>>
disk == <<owner, folder>>
tasks == <<pc, on, want, via, todo>>
vars == <<records, closing, lock, disk, tasks, returned>>

Init ==
    /\ registry = [i \in Ids |-> 0]
    /\ closing = FALSE /\ returned = FALSE
    /\ lock = None
    /\ made = 0
    /\ id = [r \in Records |-> None]
    /\ active = {} /\ closed = {} /\ handle = {}
    /\ disposals = [r \in Records |-> 0]
    /\ owner = [i \in Ids |-> 0]
    /\ folder \in [Ids -> {"none", "content"}]
    /\ pc = [t \in Tasks |-> "idle"]
    /\ on = [t \in Tasks |-> 0]
    /\ want = [t \in Tasks |-> None]
    /\ via = [t \in Tasks |-> "create"]
    /\ todo = [t \in Tasks |-> {}]

-----------------------------------------------------------------------------
(* Helpers *)

Goto(t, l) == pc' = [pc EXCEPT ![t] = l]
Hold(t, r) == on' = [on EXCEPT ![t] = r]
Return(t) == Goto(t, "idle") /\ Hold(t, 0)

(* The critical section of a task that waits for the lock at l.            *)
Enters(t, l) == pc[t] = l /\ lock = None

Registered == Range(registry) \ {0}
Live(r) == r <= made /\ disposals[r] = 0

(* dispose_instance is called; it may fail or be cut short.                *)
Dispose(r) == disposals' = [disposals EXCEPT ![r] = @ + 1]

(* Variant of _close_record: the folder goes whatever is in it.             *)
BugCloseRecords(R) ==
    /\ closed' = closed \cup R
    /\ folder' = [i \in Ids |-> IF \E r \in R \cap handle : id[r] = i
                                THEN "none" ELSE folder[i]]
    /\ owner' = [i \in Ids |-> IF owner[i] \in R THEN 0 ELSE owner[i]]

(* _close_record, of each record in R: an empty folder the record may take  *)
(* is removed, the lease is released.                                       *)
CloseRecords(R) ==
    /\ closed' = closed \cup R
    /\ folder' = [i \in Ids |-> IF /\ folder[i] = "empty"
                                   /\ \E r \in R \cap handle :
                                         id[r] = i /\ owner[i] \in {0, r}
                                THEN "none" ELSE folder[i]]
    /\ owner' = [i \in Ids |-> IF owner[i] \in R THEN 0 ELSE owner[i]]

-----------------------------------------------------------------------------
(* Looking up and creating *)

(* The tasks that may still make an instance: the bound counts them.       *)
Creating == {u \in Tasks : pc[u] \in {"lookup", "create", "makeInstance"}}

(* A task that holds a session may drop it.                                *)
StartCreate(t) ==
    /\ pc[t] = "idle"
    /\ made + Cardinality(Creating) < MaxRecords
    /\ \E i \in Ids : want' = [want EXCEPT ![t] = i]
    /\ \/ Goto(t, "lookup") /\ via' = [via EXCEPT ![t] = "get_or_create"]
       \/ Goto(t, "create") /\ via' = [via EXCEPT ![t] = "create"]
    /\ Hold(t, 0)
    /\ UNCHANGED <<records, closing, lock, disk, todo, returned>>

StartGet(t) ==
    /\ pc[t] = "idle"
    /\ \E i \in Ids : want' = [want EXCEPT ![t] = i]
    /\ Goto(t, "get")
    /\ Hold(t, 0)
    /\ UNCHANGED <<records, closing, lock, disk, via, todo, returned>>

(* registry.get: a missing session raises, as the guard does.              *)
Get(t) ==
    /\ Enters(t, "get")
    /\ Goto(t, "idle")
    /\ Hold(t, IF closing THEN 0 ELSE registry[want[t]])
    /\ UNCHANGED <<records, closing, lock, disk, want, via, todo, returned>>

(* The first half of get_or_create.                                        *)
Lookup(t) ==
    /\ Enters(t, "lookup")
    /\ IF closing THEN Return(t)
       ELSE IF registry[want[t]] # 0
            THEN Goto(t, "idle") /\ Hold(t, registry[want[t]])
            ELSE Goto(t, "create") /\ UNCHANGED on
    /\ UNCHANGED <<records, closing, lock, disk, want, via, todo, returned>>

(* Variant: the guard is not called again before the session is created.    *)
BugCreate(t) ==
    /\ Enters(t, "create")
    /\ registry[want[t]] = 0
    /\ lock' = t
    /\ Goto(t, "makeInstance")
    /\ UNCHANGED <<records, closing, disk, on, want, via, todo, returned>>

Create(t) ==
    /\ Enters(t, "create")
    /\ ~closing
    /\ registry[want[t]] = 0
    /\ lock' = t
    /\ Goto(t, "makeInstance")
    /\ UNCHANGED <<records, closing, disk, on, want, via, todo, returned>>

(* The guard raises, or the ID is taken: get_or_create then looks again.   *)
CreateRefused(t) ==
    /\ Enters(t, "create")
    /\ closing \/ registry[want[t]] # 0
    /\ IF ~closing /\ via[t] = "get_or_create" THEN Goto(t, "get") ELSE Goto(t, "idle")
    /\ UNCHANGED <<records, closing, lock, disk, on, want, via, todo, returned>>

(* create_session_with_id, and _prune_sessions if the session is new: those  *)
(* that fall out of the rolling window go, but not a pinned or an owned one. *)
Listed == {i \in Ids : folder[i] # "none"}
OpenSession(i) ==
    IF folder[i] # "none"
    THEN UNCHANGED folder
    ELSE \E D \in SUBSET Listed :
            /\ D # {} => Window > 0 /\ Cardinality(D) + Window <= Cardinality(Listed) + 1
            /\ folder' = [j \in Ids |-> IF j = i THEN "empty"
                                        ELSE IF j \in D /\ owner[j] = 0 THEN "none"
                                        ELSE folder[j]]

(* create_instance is over and create_or_load has the lease; or another     *)
(* manager has it (SessionBusyError), or the agent is unknown.              *)
MakeInstance(t) ==
    /\ pc[t] = "makeInstance"
    /\ made' = made + 1
    /\ id' = [id EXCEPT ![made + 1] = want[t]]
    /\ Hold(t, made + 1)
    /\ \/ /\ owner[want[t]] = 0
          /\ owner' = [owner EXCEPT ![want[t]] = made + 1]
          /\ OpenSession(want[t])
          /\ Goto(t, "load")
          /\ UNCHANGED <<closed, disposals>>
       \/ /\ owner[want[t]] # 0 \/ "agent" \in Failing
          /\ closed' = closed \cup {made + 1}
          /\ Dispose(made + 1)
          /\ Goto(t, "undo")
          /\ UNCHANGED disk
    /\ UNCHANGED <<registry, active, handle, closing, lock, want, via, todo, returned>>

InstanceFails(t) ==
    /\ "instance" \in Failing
    /\ pc[t] = "makeInstance"
    /\ lock' = None
    /\ Return(t)
    /\ UNCHANGED <<records, closing, disk, want, via, todo, returned>>

(* The history is hydrated and the session published.                      *)
Load(t) ==
    /\ pc[t] = "load"
    /\ registry' = [registry EXCEPT ![want[t]] = on[t]]
    /\ handle' = handle \cup {on[t]}
    /\ lock' = None
    /\ Goto(t, "idle")
    /\ UNCHANGED <<made, id, active, closed, disposals, closing, disk, on, want, via, todo,
                   returned>>

(* What create_or_load undoes when it is interrupted.                      *)
Unload(t) ==
    /\ owner' = [owner EXCEPT ![want[t]] = 0]
    /\ folder' = [folder EXCEPT ![want[t]] = IF @ = "empty" THEN "none" ELSE @]

(* Variant: the instance of a record that was not made is not disposed.     *)
BugLoadFails(t) ==
    /\ "load" \in Failing
    /\ pc[t] = "load"
    /\ Unload(t)
    /\ closed' = closed \cup {on[t]}
    /\ Goto(t, "undo")
    /\ UNCHANGED <<registry, made, id, active, handle, disposals, closing, lock, on, want,
                   via, todo, returned>>

(* Hydration or the validation after it raises.                            *)
LoadFails(t) ==
    /\ "load" \in Failing
    /\ pc[t] = "load"
    /\ Unload(t)
    /\ closed' = closed \cup {on[t]}
    /\ Dispose(on[t])
    /\ Goto(t, "undo")
    /\ UNCHANGED <<registry, made, id, active, handle, closing, lock, on, want, via, todo,
                   returned>>

(* The instance of the failed creation is disposed and the error raised; a  *)
(* ValueError sends get_or_create to look once more.                        *)
Undo(t) ==
    /\ pc[t] = "undo"
    /\ lock' = None
    /\ Hold(t, 0)
    /\ \/ Goto(t, "idle")
       \/ via[t] = "get_or_create" /\ Goto(t, "get")
    /\ UNCHANGED <<records, closing, disk, want, via, todo, returned>>

-----------------------------------------------------------------------------
(* Operations: send, generate, structured, clear, compact and shell         *)

StartOperation(t) ==
    /\ pc[t] = "idle"
    /\ on[t] # 0
    /\ Goto(t, "begin")
    /\ UNCHANGED <<records, closing, lock, disk, on, want, via, todo, returned>>

(* Variants of the checks: no look at active_operation; none at closed.     *)
BugMayBegin(r) == r \notin closed /\ ~closing
BugMayBeginClosed(r) == ~closing /\ r \notin active

MayBegin(r) == r \notin closed /\ ~closing /\ r \notin active

(* _begin_operation; the agent may turn out to be unknown.                 *)
Begin(t) ==
    /\ Enters(t, "begin")
    /\ IF MayBegin(on[t])
       THEN /\ active' = active \cup {on[t]}
            /\ \/ Goto(t, "op")
               \/ "agent" \in Failing /\ Goto(t, "end")
       ELSE Goto(t, "idle") /\ UNCHANGED active
    /\ UNCHANGED <<registry, made, id, closed, handle, disposals, closing, lock, disk, on,
                   want, via, todo, returned>>

(* The agent answers and the history is to be saved; or it raises, or the   *)
(* operation is shell, which saves nothing.                                 *)
Operate(t) ==
    /\ pc[t] = "op"
    /\ Goto(t, "save") \/ Goto(t, "end")
    /\ UNCHANGED <<records, closing, lock, disk, on, want, via, todo, returned>>

(* The save takes the lease if the manager does not have it.               *)
Save(t) ==
    /\ pc[t] = "save"
    /\ Goto(t, "end")
    /\ LET i == id[on[t]] IN
       \/ /\ owner[i] \in {0, on[t]} /\ folder[i] # "none"
          /\ owner' = [owner EXCEPT ![i] = on[t]]
          /\ folder' = [folder EXCEPT ![i] = "content"]
       \/ /\ "save" \in Failing \/ owner[i] \notin {0, on[t]} \/ folder[i] = "none"
          /\ UNCHANGED disk
    /\ UNCHANGED <<records, closing, lock, on, want, via, todo, returned>>

(* Variant: the operation is not taken off the record.                      *)
BugEnd(t) ==
    /\ Enters(t, "end")
    /\ Goto(t, "idle")
    /\ UNCHANGED <<records, closing, lock, disk, on, want, via, todo, returned>>

(* _end_operation *)
End(t) ==
    /\ Enters(t, "end")
    /\ active' = active \ {on[t]}
    /\ Goto(t, "idle")
    /\ UNCHANGED <<registry, made, id, closed, handle, disposals, closing, lock, disk, on,
                   want, via, todo, returned>>

-----------------------------------------------------------------------------
(* Deleting. A session is deleted by its ID: a task that holds a closed one *)
(* deletes whatever has its ID by now.                                      *)

StartDelete(t) ==
    /\ pc[t] = "idle"
    /\ \E i \in Ids : want' = [want EXCEPT ![t] = i]
    /\ Goto(t, "delete")
    /\ Hold(t, 0)
    /\ UNCHANGED <<records, closing, lock, disk, via, todo, returned>>

(* Variants: a running operation does not stop it; a missing session does   *)
(* not; the record stays listed until its instance is disposed; the lease   *)
(* is released at once.                                                     *)
BugDeletable(r) == r # 0
BugDeletableMissing(r) == r \notin active
Deletable(r) == r # 0 /\ r \notin active
BugDeleteListed(t) ==
    /\ Enters(t, "delete")
    /\ LET r == registry[want[t]] IN
       IF Deletable(r)
       THEN /\ UNCHANGED registry
            /\ closed' = closed \cup {r}
            /\ Dispose(r)
            /\ Goto(t, "dispose") /\ Hold(t, r)
       ELSE Return(t) /\ UNCHANGED <<registry, closed, disposals>>
    /\ UNCHANGED <<made, id, active, handle, closing, lock, disk, want, via, todo, returned>>
(* registry.delete up to the await of dispose_instance                     *)
Delete(t) ==
    /\ Enters(t, "delete")
    /\ LET r == registry[want[t]] IN
       IF Deletable(r)
       THEN /\ registry' = [registry EXCEPT ![want[t]] = 0]
            /\ closed' = closed \cup {r}
            /\ Dispose(r)
            /\ Goto(t, "dispose") /\ Hold(t, r)
       ELSE Return(t) /\ UNCHANGED <<registry, closed, disposals>>
    /\ UNCHANGED <<made, id, active, handle, closing, lock, disk, want, via, todo, returned>>

(* delete_owned: the record's manager removes the folder it owns, or one    *)
(* that nobody owns.                                                        *)
Disposed(t) ==
    /\ pc[t] = "dispose"
    /\ LET i == id[on[t]] IN
       IF owner[i] \in {0, on[t]} /\ folder[i] # "none"
       THEN /\ folder' = [folder EXCEPT ![i] = "none"]
            /\ owner' = [owner EXCEPT ![i] = 0]
            /\ handle' = handle \ {on[t]}
            /\ UNCHANGED closed
       ELSE CloseRecords({on[t]}) /\ UNCHANGED handle
    /\ Return(t)
    /\ UNCHANGED <<registry, made, id, active, disposals, closing, lock, want, via, todo,
                   returned>>

DisposeFails(t) ==
    /\ "dispose" \in Failing
    /\ pc[t] = "dispose"
    /\ CloseRecords({on[t]})
    /\ Return(t)
    /\ UNCHANGED <<registry, made, id, active, handle, disposals, closing, lock, want, via,
                   todo, returned>>

-----------------------------------------------------------------------------
(* close_all *)

StartClose(t) ==
    /\ pc[t] = "idle"
    /\ Goto(t, "shut")
    /\ Hold(t, 0)
    /\ UNCHANGED <<records, closing, lock, disk, want, via, todo, returned>>

Shut(t) ==
    /\ Enters(t, "shut")
    /\ closing' = TRUE
    /\ Goto(t, "drain")
    /\ UNCHANGED <<records, lock, disk, on, want, via, todo, returned>>

(* Variant: close_all does not wait for the operations in progress.         *)
BugDrain(t) ==
    /\ Enters(t, "drain")
    /\ Goto(t, "closeAll")
    /\ UNCHANGED <<records, closing, lock, disk, on, want, via, todo, returned>>

(* A pass of the loop that finds no operation in progress.                 *)
Drain(t) ==
    /\ Enters(t, "drain")
    /\ Registered \cap active = {}
    /\ Goto(t, "closeAll")
    /\ UNCHANGED <<records, closing, lock, disk, on, want, via, todo, returned>>

(* The next instance is disposed, if any is left: errors are suppressed.   *)
DisposeOneOf(t, R) ==
    \/ /\ R = {}
       /\ Goto(t, "idle")
       /\ todo' = [todo EXCEPT ![t] = {}]
       /\ returned' = TRUE
       /\ UNCHANGED disposals
    \/ \E r \in R :
       /\ Dispose(r)
       /\ todo' = [todo EXCEPT ![t] = R \ {r}]
       /\ Goto(t, "disposeAll")
       /\ UNCHANGED returned

CloseAll(t) ==
    /\ Enters(t, "closeAll")
    /\ registry' = [i \in Ids |-> 0]
    /\ CloseRecords(Registered)
    /\ DisposeOneOf(t, Registered)
    /\ UNCHANGED <<made, id, active, handle, closing, lock, on, want, via>>

DisposeNext(t) ==
    /\ pc[t] = "disposeAll"
    /\ DisposeOneOf(t, todo[t])
    /\ UNCHANGED <<registry, made, id, active, closed, handle, closing, lock, disk, on, want,
                   via>>

-----------------------------------------------------------------------------
(* Cancellation. A task can only be cancelled where it is suspended: at an  *)
(* await of a call that is running, or at the lock while another holds it.  *)

Suspended(t) ==
    /\ pc[t] \in Interruptible
    /\ pc[t] \in LockPcs => lock \notin {None, t}

(* What the task had not begun it does not do: a call that waits for the    *)
(* lock leaves everything as it is, _end_operation too.                     *)
CancelWaiting(t) ==
    /\ Suspended(t)
    /\ pc[t] \in LockPcs \cup {"drain"}
    /\ Goto(t, "idle")
    /\ UNCHANGED <<records, closing, lock, disk, on, want, via, todo, returned>>

(* create: only create_or_load cleans up after a CancelledError.           *)
CancelCreation(t) ==
    /\ Suspended(t)
    /\ pc[t] \in {"makeInstance", "load", "undo"}
    /\ IF pc[t] = "load" THEN Unload(t) ELSE UNCHANGED disk
    /\ lock' = None
    /\ Return(t)
    /\ UNCHANGED <<records, closing, want, via, todo, returned>>

CancelOperation(t) ==
    /\ Suspended(t)
    /\ pc[t] \in {"op", "save"}
    /\ Goto(t, "end")
    /\ UNCHANGED <<records, closing, lock, disk, on, want, via, todo, returned>>

CancelDelete(t) ==
    /\ Suspended(t)
    /\ pc[t] = "dispose"
    /\ CloseRecords({on[t]})
    /\ Return(t)
    /\ UNCHANGED <<registry, made, id, active, handle, disposals, closing, lock, want, via,
                   todo, returned>>

(* The instances that are left are nobody's any more.                      *)
CancelClose(t) ==
    /\ Suspended(t)
    /\ pc[t] = "disposeAll"
    /\ Goto(t, "idle")
    /\ todo' = [todo EXCEPT ![t] = {}]
    /\ UNCHANGED <<records, closing, lock, disk, on, want, via, returned>>

Cancel(t) ==
    \/ CancelWaiting(t)
    \/ CancelCreation(t)
    \/ CancelOperation(t)
    \/ CancelDelete(t)
    \/ CancelClose(t)

-----------------------------------------------------------------------------
(* Another process takes a persisted session nobody owns, adds to it or     *)
(* deletes it, and leaves it.                                               *)

RivalTakes(i) ==
    /\ Rivals
    /\ owner[i] = 0
    /\ folder[i] # "none"
    /\ owner' = [owner EXCEPT ![i] = Rival]
    /\ UNCHANGED <<records, closing, lock, folder, tasks, returned>>

RivalLeaves(i) ==
    /\ owner[i] = Rival
    /\ owner' = [owner EXCEPT ![i] = 0]
    /\ \E f \in {"none", "content"} : folder' = [folder EXCEPT ![i] = f]
    /\ UNCHANGED <<records, closing, lock, tasks, returned>>

-----------------------------------------------------------------------------
(* What a task does once it has called, and what it may call.              *)
Proceed(t) ==
    \/ Get(t)
    \/ Lookup(t)
    \/ Create(t)
    \/ CreateRefused(t)
    \/ MakeInstance(t)
    \/ InstanceFails(t)
    \/ Load(t)
    \/ LoadFails(t)
    \/ Undo(t)
    \/ Begin(t)
    \/ Operate(t)
    \/ Save(t)
    \/ End(t)
    \/ Delete(t)
    \/ Disposed(t)
    \/ DisposeFails(t)
    \/ Shut(t)
    \/ Drain(t)
    \/ CloseAll(t)
    \/ DisposeNext(t)

Call(t) ==
    \/ StartCreate(t)
    \/ StartGet(t)
    \/ StartOperation(t)
    \/ StartDelete(t)
    \/ StartClose(t)

Next ==
    \/ \E t \in Tasks : Proceed(t) \/ Call(t) \/ Cancel(t)
    \/ \E i \in Ids : RivalTakes(i) \/ RivalLeaves(i)

Spec == Init /\ [][Next]_vars

(* What a task awaits ends or raises. The lock is handed to the tasks that  *)
(* wait for it in turn, and the drain loop polls: strong fairness.          *)
Fairness == \A t \in Tasks : SF_vars(Proceed(t))

FairSpec == Spec /\ Fairness

-----------------------------------------------------------------------------
(* Properties *)

(* The values each variable ranges over.                                   *)
TypeOK ==
    /\ registry \in [Ids -> 0..MaxRecords]
    /\ closing \in BOOLEAN /\ returned \in BOOLEAN
    /\ lock \in Tasks \cup {None}
    /\ made \in 0..MaxRecords
    /\ id \in [Records -> Ids \cup {None}]
    /\ active \subseteq Records
    /\ closed \subseteq Records
    /\ handle \subseteq Records
    /\ disposals \in [Records -> Nat]
    /\ owner \in [Ids -> 0..Rival]
    /\ folder \in [Ids -> {"none", "empty", "content"}]
    /\ pc \in [Tasks -> Awaits \cup {"idle"}]
    /\ on \in [Tasks -> 0..MaxRecords]
    /\ want \in [Tasks -> Ids \cup {None}]
    /\ via \in [Tasks -> {"create", "get_or_create"}]
    /\ todo \in [Tasks -> SUBSET Records]

Operating(t) == pc[t] \in {"op", "save"}

(* One operation at a time runs on a session, whatever tasks hold it.       *)
OneOperation ==
    \A t, u \in Tasks :
        Operating(t) /\ Operating(u) /\ on[t] = on[u] => t = u

(* An operation runs on an instance that is not disposed, in a session that *)
(* is still listed, and its saves go to a folder that is there and that its *)
(* own manager has leased: deleting, closing and pruning stay off a session *)
(* in use.                                                                  *)
OperationSafe ==
    \A t \in Tasks :
        Operating(t) => /\ Live(on[t])
                        /\ registry[id[on[t]]] = on[t]
                        /\ owner[id[on[t]]] = on[t]
                        /\ folder[id[on[t]]] # "none"

(* dispose_instance is called at most once for an instance, though deletes, *)
(* close_all and failing creations overlap.                                 *)
DisposedOnce == \A r \in Records : disposals[r] <= 1

(* An instance that is not disposed is somebody's: it is listed, or its     *)
(* creation is in progress, or a close_all is about to dispose it.          *)
Accounted ==
    \A r \in Records : Live(r) =>
        \/ r \in Registered
        \/ \E t \in Tasks : lock = t /\ pc[t] = "load" /\ on[t] = r
        \/ \E t \in Tasks : r \in todo[t]

(* Once a close_all has returned no session is listed, none is being created *)
(* and every instance there ever was is disposed, but for those another      *)
(* close_all took and is disposing.                                          *)
ClosedForGood ==
    returned =>
        /\ Registered = {}
        /\ lock = None
        /\ \A r \in Records : Live(r) => \E t \in Tasks : r \in todo[t]

(* A record says that it runs an operation only while one runs.            *)
BusyOnlyWhileRunning ==
    \A r \in active : \E t \in Tasks : on[t] = r /\ pc[t] \in {"op", "save", "end"}

(* A saved conversation is only removed by the deletion of the session that *)
(* owns it, by another process that owns it, or, while nobody owns it, when *)
(* it falls out of the rolling window of newer ones: not by a creation that *)
(* fails, by closing, or by a deletion of an earlier session of that ID.    *)
ContentKept ==
    [][\A i \in Ids : folder[i] = "content" /\ folder'[i] # "content" =>
          \/ owner[i] = Rival
          \/ \E t \in Tasks : pc[t] = "dispose" /\ id[on[t]] = i /\ owner[i] = on[t]
          \/ owner[i] = 0 /\ Window > 0 /\ Cardinality(Listed') >= Window]_vars

(* close_all returns: the operations it waits for end and no new one        *)
(* begins.                                                                  *)
CloseCompletes ==
    \A t \in Tasks : pc[t] = "shut" ~> pc[t] = "idle"

=============================================================================
