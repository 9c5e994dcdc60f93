---------------------------- MODULE AcpPrompts ----------------------------
(***************************************************************************)
(* Prompts of the ACP server: acp/server/prompt_flow.py, cancellation and  *)
(* cleanup in agent_acp_server.py, the loading of sessions in              *)
(* session_store.py and session_runtime.py, and the slash commands that    *)
(* replace the instance of a session (slash_runtime.py).                   *)
(*                                                                         *)
(* Prompts of a session take turns under its prompt lock. The maps of the  *)
(* server are under one session lock, which an initialization holds over   *)
(* its awaits and everybody else for a moment. An action runs from one     *)
(* await to the next; cancel sets a task's cancellation, which is          *)
(* delivered at the await the task is at.                                  *)
(***************************************************************************)
EXTENDS Integers, FiniteSets

CONSTANTS
    Tasks,         \* the handlers of prompts
    Sessions,
    Loader,        \* the handler of session/new and session/load
    Main,          \* who cleans up when the server stops
    None,          \* nobody
    MaxInstances,  \* bound: instances at a time
    Queued,        \* whether the server may stop while prompts wait or a session is loaded
    Interruptible  \* the awaits of a prompt at which a cancellation is modelled

Instances == 1..MaxInstances
Turn == {"turn"}
Replacing == {"reload", "create", "publish", "refresh", "dispose"}
InTry == {"prepare"} \cup Turn \cup Replacing
Waiting == {"ask", "queue", "mark"}
Awaits == InTry \cup {"unmark"}

ASSUME ActorsAssumption == /\ {Loader, Main} \cap Tasks = {} /\ Loader # Main
                           /\ None \notin Tasks \cup Sessions \cup {Loader, Main}
ASSUME BoundAssumption == MaxInstances \in Nat
ASSUME QueuedAssumption == Queued \in BOOLEAN
ASSUME InterruptibleAssumption == Interruptible \subseteq Awaits

VARIABLES
    lock,       \* holder of _session_lock
    promptLock, \* holder of the prompt lock of a session
    sessions,   \* sessions: the instance of a session, or 0
    states,     \* session_state: its instance, or 0
    active,     \* active_prompts
    running,    \* session_tasks; a task that is done is as good as none
    announced,  \* sessions the client has been told of
    state,      \* whether an instance is live or being disposed of
    pc,         \* where each prompt is
    session,    \* its session
    using,      \* the instance its turn is on, or the one it replaces; or 0
    fresh,      \* the instance it has created and not published, or 0
    cancelling, \* prompts with a cancellation requested and not delivered
    loading,    \* where the loader is
    target,     \* its session
    created,    \* whether it created the session
    doomed,     \* the instance of a session it rolls back, or 0
    stop,       \* how far the cleanup is
    awaited     \* prompts the cleanup waits for

maps == <<sessions, states, active, running>>
prompts == <<pc, session, using, fresh, cancelling>>
loads == <<loading, target, created, doomed, announced>>
cleanup == <<stop, awaited>>
vars == <<lock, promptLock, maps, state, prompts, loads, cleanup>>

----------------------------------------------------------------------------
Goto(t, to) == pc' = [pc EXCEPT ![t] = to]
Free == lock = None
Serving == stop = "serving"
S(t) == session[t]

Held == {sessions[s] : s \in Sessions} \cup {states[s] : s \in Sessions}

(* An instance that is disposed of is garbage: its number is used again. *)
Unused == {i \in Instances \ Held : state[i] = "none"}
Becomes(i, to) == state' = [state EXCEPT ![i] = to]
New == CHOOSE i \in Unused : TRUE

Init ==
    /\ lock = None /\ promptLock = [s \in Sessions |-> None]
    /\ sessions = [s \in Sessions |-> 0] /\ states = sessions
    /\ active = {} /\ running = [s \in Sessions |-> None] /\ announced = {}
    /\ state = [i \in Instances |-> "none"]
    /\ pc = [t \in Tasks |-> "idle"] /\ session = [t \in Tasks |-> None]
    /\ using = [t \in Tasks |-> 0] /\ fresh = using
    /\ cancelling = {}
    /\ loading = "idle" /\ target = None /\ created = FALSE /\ doomed = 0
    /\ stop = "serving" /\ awaited = {}

----------------------------------------------------------------------------
(* prompt *)

Prompt(t, s) ==
    /\ pc[t] = "idle" /\ Serving /\ s \in announced
    /\ session' = [session EXCEPT ![t] = s]
    /\ Goto(t, "ask")
    /\ UNCHANGED <<lock, promptLock, maps, state, using, fresh, cancelling, loads, cleanup>>

GetPromptLock(t) ==
    /\ pc[t] = "ask" /\ Free
    /\ Goto(t, "queue")
    /\ UNCHANGED <<lock, promptLock, maps, state, session, using, fresh, cancelling, loads,
                   cleanup>>

BugMyTurn(t) == TRUE

MyTurn(t) == promptLock[S(t)] = None

TakeTurn(t) ==
    /\ pc[t] = "queue" /\ MyTurn(t)
    /\ promptLock' = [promptLock EXCEPT ![S(t)] = t]
    /\ Goto(t, "mark")
    /\ UNCHANGED <<lock, maps, state, session, using, fresh, cancelling, loads, cleanup>>

MarkActive(t) ==
    /\ pc[t] = "mark" /\ Free
    /\ active' = active \cup {S(t)}
    /\ running' = [running EXCEPT ![S(t)] = t]
    /\ Goto(t, "prepare")
    /\ UNCHANGED <<lock, promptLock, sessions, states, state, session, using, fresh, cancelling,
                   loads, cleanup>>

(* Nothing else happens to a task that has a cancellation to be delivered. *)
At(t, p) == pc[t] = p /\ ~(t \in cancelling /\ p \in Interruptible)

(* The turn is over, however it ended. *)
EndTry(t) ==
    /\ Goto(t, "unmark")
    /\ using' = [using EXCEPT ![t] = 0]
    /\ fresh' = [fresh EXCEPT ![t] = 0]

(* The session's instance, for a turn of its agent or a slash command that *)
(* reloads; an unknown session is refused.                                 *)
Prepare(t, to) ==
    /\ At(t, "prepare") /\ Free /\ to \in {"turn", "reload"}
    /\ IF sessions[S(t)] = 0
         THEN EndTry(t)
         ELSE /\ using' = [using EXCEPT ![t] = sessions[S(t)]]
              /\ Goto(t, to)
              /\ UNCHANGED fresh
    /\ UNCHANGED <<lock, promptLock, maps, state, session, cancelling, loads, cleanup>>

(* The agent has answered or raised. *)
TurnEnds(t) ==
    /\ At(t, "turn")
    /\ EndTry(t)
    /\ UNCHANGED <<lock, promptLock, maps, state, session, cancelling, loads, cleanup>>

Forget(t) ==
    /\ active' = active \ {S(t)}
    /\ running' = [running EXCEPT ![S(t)] = None]

BugReturn(t) ==
    /\ session' = [session EXCEPT ![t] = None]
    /\ cancelling' = cancelling \ {t}
    /\ Goto(t, "idle")
    /\ UNCHANGED promptLock

Return(t) ==
    /\ promptLock' = [promptLock EXCEPT ![S(t)] = None]
    /\ session' = [session EXCEPT ![t] = None]
    /\ cancelling' = cancelling \ {t}
    /\ Goto(t, "idle")

MarkInactive(t) ==
    /\ At(t, "unmark") /\ Free
    /\ Forget(t)
    /\ Return(t)
    /\ UNCHANGED <<lock, sessions, states, state, using, fresh, loads, cleanup>>

----------------------------------------------------------------------------
(* replace_instance_for_session, for a slash command *)

(* The check of active_prompts passes: the command is the prompt's own task. *)
Reloaded(t, changed) ==
    /\ At(t, "reload")
    /\ changed => Free
    /\ IF changed /\ states[S(t)] # 0 THEN Goto(t, "create") /\ UNCHANGED <<using, fresh>>
                                      ELSE EndTry(t)
    /\ UNCHANGED <<lock, promptLock, maps, state, session, cancelling, loads, cleanup>>

Create(t) ==
    /\ At(t, "create") /\ Unused # {}
    /\ Becomes(New, "live")
    /\ using' = [using EXCEPT ![t] = states[S(t)]]
    /\ fresh' = [fresh EXCEPT ![t] = New]
    /\ states' = [states EXCEPT ![S(t)] = New]
    /\ Goto(t, "publish")
    /\ UNCHANGED <<lock, promptLock, sessions, active, running, session, cancelling, loads,
                   cleanup>>

Publish(t) ==
    /\ At(t, "publish") /\ Free
    /\ sessions' = [sessions EXCEPT ![S(t)] = fresh[t]]
    /\ Goto(t, "refresh")
    /\ UNCHANGED <<lock, promptLock, states, active, running, state, session, using, fresh,
                   cancelling, loads, cleanup>>

BugOutgoing(t) == fresh[t]

Outgoing(t) == using[t]

Refresh(t) ==
    /\ At(t, "refresh")
    /\ Becomes(Outgoing(t), "closing")
    /\ Goto(t, "dispose")
    /\ UNCHANGED <<lock, promptLock, maps, session, using, fresh, cancelling, loads, cleanup>>

Dispose(t) ==
    /\ At(t, "dispose")
    /\ Becomes(Outgoing(t), "none")
    /\ EndTry(t)
    /\ UNCHANGED <<lock, promptLock, maps, session, cancelling, loads, cleanup>>

(* An await of a replacement raises. *)
Raise(t) ==
    /\ pc[t] \in Replacing \cap Interruptible /\ t \notin cancelling
    /\ EndTry(t)
    /\ UNCHANGED <<lock, promptLock, maps, state, session, cancelling, loads, cleanup>>

----------------------------------------------------------------------------
(* cancel, and where the cancellation is delivered *)

Cancel(s) ==
    /\ Serving /\ Free
    /\ running[s] # None /\ running[s] \notin cancelling
    /\ cancelling' = cancelling \cup {running[s]}
    /\ UNCHANGED <<lock, promptLock, maps, state, pc, session, using, fresh, loads, cleanup>>

(* The prompt is answered as cancelled. *)
Cancelled(t) ==
    /\ t \in cancelling /\ pc[t] \in InTry \cap Interruptible
    /\ cancelling' = cancelling \ {t}
    /\ EndTry(t)
    /\ UNCHANGED <<lock, promptLock, maps, state, session, loads, cleanup>>

(* While it waits in its finally clause: the session stays in active_prompts. *)
CancelledAgain(t) ==
    /\ t \in cancelling /\ pc[t] \in {"unmark"} \cap Interruptible
    /\ running' = [running EXCEPT ![S(t)] = None]
    /\ Return(t)
    /\ UNCHANGED <<lock, sessions, states, active, state, using, fresh, loads, cleanup>>

----------------------------------------------------------------------------
(* session/new and session/load: initialize_session_state and hydration *)

Load(s) ==
    /\ loading = "idle" /\ Serving
    /\ loading' = "init" /\ target' = s
    /\ UNCHANGED <<lock, promptLock, maps, state, prompts, created, doomed, announced, cleanup>>

Initialize ==
    /\ loading = "init" /\ Free
    /\ lock' = Loader
    /\ created' = (states[target] = 0)
    /\ loading' = IF states[target] = 0 THEN "create" ELSE "overlay"
    /\ UNCHANGED <<promptLock, maps, state, prompts, target, doomed, announced, cleanup>>

CreateSession ==
    /\ loading = "create" /\ Unused # {}
    /\ Becomes(New, "live")
    /\ sessions' = [sessions EXCEPT ![target] = New]
    /\ states' = [states EXCEPT ![target] = New]
    /\ loading' = "overlay"
    /\ UNCHANGED <<lock, promptLock, active, running, prompts, target, created, doomed,
                   announced, cleanup>>

BugRespond ==
    /\ loading' = "idle" /\ target' = None /\ created' = FALSE
    /\ announced' = announced \cup {target'}

Respond ==
    /\ loading' = "idle" /\ target' = None /\ created' = FALSE
    /\ announced' = announced \cup {target}

(* session/new is done, session/load goes on to hydrate. *)
Initialized(isNew) ==
    /\ loading = "overlay"
    /\ lock' = None
    /\ IF isNew THEN created /\ Respond
                ELSE loading' = "hydrate" /\ UNCHANGED <<target, created, announced>>
    /\ UNCHANGED <<promptLock, maps, state, prompts, doomed, cleanup>>

Hydrated ==
    /\ loading = "hydrate"
    /\ Respond
    /\ UNCHANGED <<lock, promptLock, maps, state, prompts, doomed, cleanup>>

LoadEnds ==
    /\ loading' = "idle" /\ target' = None /\ created' = FALSE /\ doomed' = 0
    /\ lock' = IF lock = Loader THEN None ELSE lock

(* A load that created nothing only fails. *)
LoadFails ==
    /\ \/ loading = "create"
       \/ loading \in {"overlay", "hydrate"} /\ ~created
    /\ LoadEnds
    /\ UNCHANGED <<promptLock, maps, state, prompts, announced, cleanup>>

(* _rollback_session_initialization, which does not take the lock. *)
Rollback ==
    /\ loading \in {"overlay", "hydrate"} /\ created
    /\ doomed' = sessions[target]
    /\ Becomes(sessions[target], "closing")
    /\ sessions' = [sessions EXCEPT ![target] = 0]
    /\ states' = [states EXCEPT ![target] = 0]
    /\ promptLock' = [promptLock EXCEPT ![target] = None]
    /\ active' = active \ {target}
    /\ running' = [running EXCEPT ![target] = None]
    /\ loading' = "rollback"
    /\ UNCHANGED <<lock, prompts, target, created, announced, cleanup>>

RolledBack ==
    /\ loading = "rollback"
    /\ Becomes(doomed, "none")
    /\ LoadEnds
    /\ UNCHANGED <<promptLock, maps, prompts, announced, cleanup>>

----------------------------------------------------------------------------
(* _cleanup_sessions *)

Stop ==
    /\ Serving
    /\ ~Queued => loading = "idle" /\ \A t \in Tasks : pc[t] \notin Waiting
    /\ awaited' = {t \in Tasks : \E s \in Sessions : running[s] = t}
    /\ cancelling' = cancelling \cup awaited'
    /\ stop' = "gather"
    /\ UNCHANGED <<lock, promptLock, maps, state, pc, session, using, fresh, loads>>

BugGathered == TRUE

Gathered == \A t \in awaited : pc[t] = "idle"

CleanUp ==
    /\ stop = "gather" /\ Gathered /\ Free
    /\ lock' = Main
    /\ stop' = "clean"
    /\ awaited' = {}
    /\ UNCHANGED <<promptLock, maps, state, prompts, loads>>

DisposeSession(s) ==
    /\ stop = "clean" /\ sessions[s] # 0 /\ state[sessions[s]] = "live"
    /\ \A r \in Sessions : sessions[r] # 0 => state[sessions[r]] # "closing"
    /\ Becomes(sessions[s], "closing")
    /\ UNCHANGED <<lock, promptLock, maps, prompts, loads, cleanup>>

SessionDisposed(s) ==
    /\ stop = "clean" /\ sessions[s] # 0 /\ state[sessions[s]] = "closing"
    /\ Becomes(sessions[s], "none")
    /\ UNCHANGED <<lock, promptLock, maps, prompts, loads, cleanup>>

ClearAll ==
    /\ stop = "clean"
    /\ \A s \in Sessions : sessions[s] # 0 => state[sessions[s]] = "none"
    /\ sessions' = [s \in Sessions |-> 0] /\ states' = sessions'
    /\ active' = {} /\ running' = [s \in Sessions |-> None]
    /\ lock' = None
    /\ stop' = "done"
    /\ UNCHANGED <<promptLock, state, prompts, loads, awaited>>

Over == stop = "done" /\ (\A t \in Tasks : pc[t] = "idle") /\ UNCHANGED vars

----------------------------------------------------------------------------
(* What goes on once a task is in a prompt: all of it but the wait for locks *)
(* is fair, and asyncio's locks are granted in order.                        *)
Go(t) ==
    \/ GetPromptLock(t) \/ TakeTurn(t) \/ MarkActive(t)
    \/ \E to \in {"turn", "reload"} : Prepare(t, to)
    \/ TurnEnds(t) \/ MarkInactive(t)
    \/ \E changed \in BOOLEAN : Reloaded(t, changed)
    \/ Create(t) \/ Publish(t) \/ Refresh(t) \/ Dispose(t) \/ Raise(t)
    \/ Cancelled(t) \/ CancelledAgain(t)

LoaderGoes ==
    \/ Initialize \/ CreateSession
    \/ \E isNew \in BOOLEAN : Initialized(isNew)
    \/ Hydrated \/ LoadFails \/ Rollback \/ RolledBack

CleanupGoes ==
    \/ CleanUp \/ ClearAll
    \/ \E s \in Sessions : DisposeSession(s) \/ SessionDisposed(s)

Next ==
    \/ \E t \in Tasks : Go(t) \/ \E s \in Sessions : Prompt(t, s)
    \/ LoaderGoes \/ CleanupGoes
    \/ \E s \in Sessions : Load(s) \/ Cancel(s)
    \/ Stop \/ Over

Spec == Init /\ [][Next]_vars

Fairness ==
    /\ \A t \in Tasks : SF_vars(Go(t))
    /\ WF_vars(LoaderGoes) /\ SF_vars(CleanupGoes)

FairSpec == Spec /\ Fairness

----------------------------------------------------------------------------
TypeOK ==
    /\ lock \in {None, Loader, Main}
    /\ promptLock \in [Sessions -> Tasks \cup {None}]
    /\ sessions \in [Sessions -> Instances \cup {0}]
    /\ states \in [Sessions -> Instances \cup {0}]
    /\ active \subseteq Sessions /\ announced \subseteq Sessions
    /\ running \in [Sessions -> Tasks \cup {None}]
    /\ state \in [Instances -> {"none", "live", "closing"}]
    /\ pc \in [Tasks -> {"idle"} \cup Waiting \cup Awaits]
    /\ session \in [Tasks -> Sessions \cup {None}]
    /\ using \in [Tasks -> Instances \cup {0}] /\ fresh \in [Tasks -> Instances \cup {0}]
    /\ cancelling \subseteq Tasks /\ awaited \subseteq Tasks
    /\ loading \in {"idle", "init", "create", "overlay", "hydrate", "rollback"}
    /\ target \in Sessions \cup {None} /\ created \in BOOLEAN
    /\ doomed \in Instances \cup {0}
    /\ stop \in {"serving", "gather", "clean", "done"}

(* A cancel finds the prompt whose turn it is: from when a prompt is marked  *)
(* active until it is unmarked, session_tasks has its task and no other's,   *)
(* however many prompts of the session wait or have been cancelled before.   *)
CancelFinds == \A t \in Tasks : pc[t] \in InTry => running[S(t)] = t

(* The instance an agent's turn runs on is not disposed of under it, by a    *)
(* reload, a failed load or the cleanup. Does not hold if the server may     *)
(* stop while prompts wait (Queued): only those with a task are cancelled.   *)
TurnLive == \A t \in Tasks : pc[t] = "turn" => state[using[t]] = "live"

(* A live instance belongs to a session or is on its way in or out, and the  *)
(* two maps of the server agree but for that. Does not hold if a replacement *)
(* may be cancelled or fail halfway.                                         *)
InstancesKept ==
    /\ \A i \in Instances : state[i] = "live" =>
         \/ \E s \in Sessions : sessions[s] = i
         \/ \E t \in Tasks : \/ (pc[t] = "publish" /\ fresh[t] = i)
                            \/ (pc[t] = "refresh" /\ using[t] = i)
    /\ \A s \in Sessions : \/ sessions[s] = states[s]
                          \/ \E t \in Tasks : pc[t] = "publish" /\ S(t) = s

(* A session without a prompt does not count as active, so that it can be    *)
(* reloaded. Does not hold if the finally clause of a prompt may be          *)
(* cancelled.                                                                *)
ActiveOnlyWhilePrompted ==
    \A s \in active : \E t \in Tasks : S(t) = s /\ pc[t] \in Awaits

(* Every prompt comes to an end: one that waits for its turn gets it, one    *)
(* that is cancelled stops, and the server's stop leaves none behind.        *)
PromptsEnd == \A t \in Tasks : pc[t] # "idle" ~> pc[t] = "idle"

=============================================================================
