--------------------------- MODULE McpConnections ---------------------------
(***************************************************************************)
(* MCPConnectionManager and ServerConnection of                            *)
(* mcp/mcp_connection_manager.py, and the operations mcp_aggregator.py     *)
(* runs on the connections it gets from them.                              *)
(*                                                                         *)
(* A connection is a lifecycle task of its own: it enters the client,      *)
(* announces that it is initialized, waits for a shutdown request and      *)
(* leaves. Tasks get, reconnect and disconnect servers under one anyio     *)
(* lock, held while a lifecycle is awaited but not between looking, launch *)
(* and the wait for initialization. An action runs from one await to the   *)
(* next. A connection that is over, unregistered and in nobody's hands is  *)
(* garbage: its number stands for a new one later.                         *)
(***************************************************************************)
EXTENDS Integers, FiniteSets, Functions

CONSTANTS
    Tasks,
    None,          \* no task; the server_config a caller leaves out
    Servers,
    Configs,       \* server settings
    Registered,    \* the settings of the registry, for callers that pass none
    OAuthConfigs,  \* settings whose OAuth mode is not disabled
    MaxConns,      \* bound: connections at a time
    Given,         \* values of server_config of the calls
    Triggers,      \* values of trigger_oauth of the calls
    Budgeted,      \* the tasks that pass startup_timeout_seconds
    Interruptible  \* the awaits at which a task may be cancelled

LockPcs == {"check", "launch", "clear", "disconnect", "disconnectAll"}
HoldPcs == {"recreate", "clearing", "disconnecting", "disconnectingAll"}
Awaits == LockPcs \cup HoldPcs \cup {"wait", "use"}

ASSUME TasksAssumption == None \notin Tasks \cup Configs
ASSUME ServersAssumption == Servers # {}
ASSUME ConfigsAssumption == Registered \in Configs /\ OAuthConfigs \subseteq Configs
ASSUME MaxConnsAssumption == MaxConns \in Nat
ASSUME GivenAssumption == Given \subseteq Configs \cup {None}
ASSUME TriggersAssumption == Triggers \subseteq BOOLEAN
ASSUME BudgetedAssumption == Budgeted \subseteq Tasks
ASSUME InterruptibleAssumption == Interruptible \subseteq Awaits

Conns == 1..MaxConns

(* The lifecycle of a connection, and what it is once shutdown is requested *)
(* of it. A connection is "lost" when its lifecycle is over and its         *)
(* _initialized_event was never set; after missed pings it is "failing".    *)
Asked == [new |-> "barred", starting |-> "cancelled", ready |-> "leaving"]
Lives == DOMAIN Asked \cup Range(Asked) \cup {"failing", "done", "lost"}

VARIABLES
    running,    \* running_servers: the connection of a server, or 0
    lock,       \* holder of the manager's lock
    required,   \* _oauth_required_servers
    config,     \* server_config of the connection of a server
    probing,    \* servers whose connection has OAuth mode auto and goes
                \* without OAuth at first
    life,       \* where the lifecycle of a connection is: see Lives
    challenged, \* connections that received a 401
    pc,         \* where each task is
    call,       \* what a task's call is about: see NoCall
    on          \* the connection a task waits for or uses, or 0

entries == <<running, config, probing>>
manager == <<entries, lock, required>>
connections == <<life, challenged>>
vars == <<manager, connections, pc, call, on>>

(* The arguments and the progress of a call: server_name, server_config,    *)
(* whether its next launch goes with OAuth, whether it has been retried     *)
(* with OAuth, and whether a launch follows the clear or the disconnect.    *)
NoCall == [srv |-> None, want |-> None, oauth |-> FALSE, retried |-> FALSE,
           relaunch |-> FALSE]

Init ==
    /\ running = [s \in Servers |-> 0]
    /\ lock = None
    /\ required = {}
    /\ config = [s \in Servers |-> None]
    /\ probing = {}
    /\ life = [c \in Conns |-> "done"]
    /\ challenged = {}
    /\ pc = [t \in Tasks |-> "idle"]
    /\ call = [t \in Tasks |-> NoCall]
    /\ on = [t \in Tasks |-> 0]

-----------------------------------------------------------------------------
(* Helpers *)

Goto(t, l) == pc' = [pc EXCEPT ![t] = l]
Take(t, c) == on' = [on EXCEPT ![t] = c]
Return(t) == Goto(t, "idle") /\ Take(t, 0) /\ call' = [call EXCEPT ![t] = NoCall]

Srv(t) == call[t].srv
Current(t) == running[Srv(t)]

(* The critical section of a task that waits for the lock at l.            *)
Enters(t, l) == pc[t] = l /\ lock = None

(* is_healthy: the client object is there from before it is entered until  *)
(* the lifecycle is over.                                                  *)
Healthy(c) == life[c] \in {"starting", "cancelled", "ready", "leaving"}

Over(c) == life[c] \in {"done", "lost"}

(* is_initialized: startup has succeeded or failed.                        *)
IsInitialized(c) == life[c] \in {"ready", "leaving", "failing", "done"}

(* The settings a launch takes, and whether the connection of the server has *)
(* those a task asks for.                                                   *)
Wanted(t) == IF call[t].want = None THEN Registered ELSE call[t].want
Suits(t) == call[t].want \in {None, config[Srv(t)]}

(* should_retry_server_with_oauth: by the name of the server, whatever      *)
(* connection is registered for it by now. challenged stands for a 401      *)
(* response (_auth_challenge_received, asked of the registered connection)  *)
(* and for an error that reads like one (asked of the caller's own).        *)
ShouldRetry(t) ==
    Srv(t) \in probing /\ {Current(t), on[t]} \cap challenged # {}

(* shutdown_lifecycle, of each connection in C: a startup is cancelled.    *)
Shutdown(C) ==
    life' = [c \in Conns |-> IF c \in C /\ life[c] \in DOMAIN Asked
                             THEN Asked[life[c]] ELSE life[c]]

(* Variant: the keys are deleted, and looked up later.                     *)
BugPop(S) ==
    /\ running' = [s \in Servers \ S |-> running[s]]
    /\ config' = [s \in Servers |-> IF s \in S THEN None ELSE config[s]]
    /\ probing' = probing \ S

(* The entries of the servers in S are popped, with their OAuth state.     *)
Pop(S) ==
    /\ running' = [s \in Servers |-> IF s \in S THEN 0 ELSE running[s]]
    /\ config' = [s \in Servers |-> IF s \in S THEN None ELSE config[s]]
    /\ probing' = probing \ S

(* Shut down, and wait for the end of the lifecycle with the lock held.    *)
ShutdownAndHold(t, C, l) == Shutdown(C) /\ lock' = t /\ Goto(t, l)

(* On the way into launch_server the OAuth mode is settled, before the lock. *)
GoLaunch(t, c) ==
    /\ Goto(t, "launch")
    /\ Take(t, 0)
    /\ call' = [call EXCEPT ![t] = [c EXCEPT !.oauth = @ \/ c.srv \in required,
                                             !.relaunch = FALSE]]

(* The caller has its connection and works with it.                        *)
Use(t, c) ==
    /\ Goto(t, "use")
    /\ Take(t, c)
    /\ call' = [call EXCEPT ![t] = [NoCall EXCEPT !.srv = Srv(t), !.want = call[t].want]]

-----------------------------------------------------------------------------
(* Getting and launching *)

(* get_server, from an operation or an attachment.                         *)
CallGet(t) ==
    /\ pc[t] = "idle"
    /\ \E s \in Servers, w \in Given, trigger \in Triggers :
         call' = [call EXCEPT ![t] = [NoCall EXCEPT !.srv = s, !.want = w, !.oauth = trigger]]
    /\ Goto(t, "check")
    /\ UNCHANGED <<manager, connections, on>>

(* _healthy_running_server: what is not healthy, or has other settings, is  *)
(* shut down first.                                                        *)
Check(t) ==
    /\ Enters(t, "check")
    /\ LET c == Current(t) IN
       \/ /\ c = 0
          /\ GoLaunch(t, call[t])
          /\ UNCHANGED <<life, lock>>
       \/ /\ c # 0 /\ Healthy(c) /\ Suits(t)
          /\ Use(t, c)
          /\ UNCHANGED <<life, lock>>
       \/ /\ c # 0 /\ ~(Healthy(c) /\ Suits(t))
          /\ ShutdownAndHold(t, {c}, "recreate") /\ Take(t, c)
          /\ UNCHANGED call
    /\ UNCHANGED <<entries, required, challenged>>

Recreate(t) ==
    /\ pc[t] = "recreate"
    /\ Over(on[t])
    /\ Pop({Srv(t)})
    /\ lock' = None
    /\ GoLaunch(t, call[t])
    /\ UNCHANGED <<required, connections>>

Unused == Conns \ (Range(running) \cup Range(on) \cup {c \in Conns : ~Over(c)})
NewConn == CHOOSE c \in Unused : TRUE

(* launch_server, where the name is free.                                  *)
Launch(t) ==
    /\ Enters(t, "launch")
    /\ Current(t) = 0
    /\ Unused # {}
    /\ LET c == NewConn IN
       /\ running' = [running EXCEPT ![Srv(t)] = c]
       /\ config' = [config EXCEPT ![Srv(t)] = Wanted(t)]
       /\ probing' = IF Wanted(t) \in OAuthConfigs /\ ~call[t].oauth
                     THEN probing \cup {Srv(t)} ELSE probing
       /\ life' = [life EXCEPT ![c] = "new"]
       /\ challenged' = challenged \ {c}
       /\ Take(t, c)
    /\ Goto(t, "wait")
    /\ UNCHANGED <<lock, required, call>>

(* launch_server, where another launch was first: wait for its connection,  *)
(* or raise ValueError.                                                    *)
JoinLaunch(t) ==
    /\ Enters(t, "launch")
    /\ Current(t) # 0
    /\ IF config[Srv(t)] = Wanted(t)
       THEN Take(t, Current(t)) /\ Goto(t, "wait") /\ UNCHANGED call
       ELSE Return(t)
    /\ UNCHANGED <<manager, connections>>

GoClear(t, relaunch) ==
    /\ Goto(t, "clear")
    /\ call' = [call EXCEPT ![t].relaunch = relaunch]

(* _healthy_or_retry_server, once the connection is initialized. What is    *)
(* given up, for a retry or for good, is cleared first.                     *)
Initialized(t) ==
    /\ pc[t] = "wait"
    /\ IsInitialized(on[t])
    /\ \/ /\ Healthy(on[t])
          /\ Use(t, on[t])
          /\ UNCHANGED required
       \/ /\ ~Healthy(on[t])
          /\ LET retry == ~call[t].retried /\ ShouldRetry(t) IN
             /\ GoClear(t, retry)
             /\ required' = IF retry THEN required \cup {Srv(t)} ELSE required
             /\ UNCHANGED on
    /\ UNCHANGED <<entries, lock, connections>>

(* _wait_for_initialized_with_startup_budget raises TimeoutError.          *)
BudgetSpent(t) ==
    /\ pc[t] = "wait"
    /\ t \in Budgeted
    /\ ~IsInitialized(on[t])
    /\ GoClear(t, FALSE)
    /\ UNCHANGED <<manager, connections, on>>

(* Variant: what is shut down is looked up by name.                        *)
BugClear(t) ==
    /\ Enters(t, "clear")
    /\ ShutdownAndHold(t, {Current(t)}, "clearing")
    /\ UNCHANGED <<entries, required, challenged, on, call>>

(* _clear_running_server_state.                                            *)
Clear(t) ==
    /\ Enters(t, "clear")
    /\ ShutdownAndHold(t, {on[t]}, "clearing")
    /\ UNCHANGED <<entries, required, challenged, on, call>>

(* Variant: the entry of the server goes, whoever made it.                 *)
BugStale(s, c) == {s}

(* Only the entry of this connection: by now there may be another one.     *)
Stale(s, c) == IF running[s] = c THEN {s} ELSE {}

Cleared(t) ==
    /\ pc[t] = "clearing"
    /\ Over(on[t])
    /\ Pop(Stale(Srv(t), on[t]))
    /\ lock' = None
    /\ IF call[t].relaunch
       THEN GoLaunch(t, [call[t] EXCEPT !.oauth = TRUE, !.retried = TRUE])
       ELSE Return(t)
    /\ UNCHANGED <<required, connections>>

-----------------------------------------------------------------------------
(* Using, disconnecting and reconnecting *)

(* An operation runs on the client of the connection and ends.             *)
Finish(t) ==
    /\ pc[t] = "use"
    /\ Return(t)
    /\ UNCHANGED <<manager, connections>>

(* It fails: with a ConnectionError or a terminated session the aggregator  *)
(* reconnects; with a 401 on a connection without OAuth it reconnects with. *)
Recover(t) ==
    /\ pc[t] = "use"
    /\ \E unauthorized \in BOOLEAN :
       /\ unauthorized => Srv(t) \in probing
       /\ challenged' = IF unauthorized THEN challenged \cup {on[t]} ELSE challenged
       /\ call' = [call EXCEPT ![t] = [@ EXCEPT !.oauth = unauthorized, !.relaunch = TRUE]]
    /\ Goto(t, "disconnect") /\ Take(t, 0)
    /\ UNCHANGED <<manager, life>>

(* disconnect_server on its own, and reconnect_server of an attachment.    *)
CallDisconnect(t) ==
    /\ pc[t] = "idle"
    /\ \E s \in Servers :
       \/ call' = [call EXCEPT ![t] = [NoCall EXCEPT !.srv = s]]
       \/ \E w \in Given, trigger \in Triggers :
            call' = [call EXCEPT ![t] = [NoCall EXCEPT !.srv = s, !.want = w, !.oauth = trigger,
                                                       !.relaunch = TRUE]]
    /\ Goto(t, "disconnect")
    /\ UNCHANGED <<manager, connections, on>>

(* What follows a disconnect: nothing, or the launch of a reconnect.       *)
AfterDisconnect(t) == IF call[t].relaunch THEN GoLaunch(t, call[t]) ELSE Return(t)

Disconnect(t) ==
    /\ Enters(t, "disconnect")
    /\ LET c == Current(t) IN
       IF c = 0
       THEN AfterDisconnect(t) /\ UNCHANGED <<life, lock>>
       ELSE ShutdownAndHold(t, {c}, "disconnecting") /\ Take(t, c) /\ UNCHANGED call
    /\ UNCHANGED <<entries, required, challenged>>

Disconnected(t) ==
    /\ pc[t] = "disconnecting"
    /\ Over(on[t])
    /\ Pop({Srv(t)})
    /\ lock' = None
    /\ AfterDisconnect(t)
    /\ UNCHANGED <<required, connections>>

CallDisconnectAll(t) ==
    /\ pc[t] = "idle"
    /\ Goto(t, "disconnectAll")
    /\ UNCHANGED <<manager, connections, on, call>>

Entries == Range(running) \ {0}

DisconnectAll(t) ==
    /\ Enters(t, "disconnectAll")
    /\ IF Entries = {}
       THEN Return(t) /\ UNCHANGED <<life, lock>>
       ELSE ShutdownAndHold(t, Entries, "disconnectingAll") /\ UNCHANGED <<on, call>>
    /\ UNCHANGED <<entries, required, challenged>>

DisconnectedAll(t) ==
    /\ pc[t] = "disconnectingAll"
    /\ \A c \in Entries : Over(c)
    /\ Pop(Servers)
    /\ lock' = None
    /\ Return(t)
    /\ UNCHANGED <<required, connections>>

-----------------------------------------------------------------------------
(* The lifecycle task of a connection *)

Pass(c, from, to) ==
    /\ life[c] = from
    /\ life' = [life EXCEPT ![c] = to]
    /\ UNCHANGED <<manager, pc, call, on>>

(* _server_lifecycle_task begins, unless shutdown was requested before.    *)
Begin(c) ==
    /\ Pass(c, "new", "starting") \/ Pass(c, "barred", "lost")
    /\ UNCHANGED challenged

(* The client is entered and initialize_client has run.                    *)
Ready(c) == Pass(c, "starting", "ready") /\ UNCHANGED challenged

(* An exception, perhaps for a 401, ends the lifecycle.                    *)
Fail(c) ==
    /\ Pass(c, "starting", "done") \/ Pass(c, "ready", "done")
    /\ challenged' \in {challenged, challenged \cup {c}}

(* Variant: shutdown_lifecycle leaves a blocked startup blocked.           *)
BugAbandon(c) == FALSE

(* A startup that is cancelled: the CancelledError passes every handler and *)
(* nothing announces the end to those that wait, unless the client makes an *)
(* exception of it, or it came in just too late.                            *)
Abandon(c) ==
    /\ Pass(c, "cancelled", "lost") \/ Pass(c, "cancelled", "done")
    /\ UNCHANGED challenged

(* _run_ping_loop has missed max_missed_pings: it requests the shutdown.   *)
PingsMissed(c) == Pass(c, "ready", "failing") /\ UNCHANGED challenged

(* The shutdown request is seen and the client is left.                    *)
Leave(c) ==
    /\ Pass(c, "leaving", "done") \/ Pass(c, "failing", "done")
    /\ UNCHANGED challenged

-----------------------------------------------------------------------------
(* A caller is cancelled where it is suspended: at the lock, which is a     *)
(* checkpoint even when it is free, while it awaits a lifecycle with the    *)
(* lock held, in an operation, or in its wait for initialization, which     *)
(* clears.                                                                  *)
Cancel(t) ==
    /\ pc[t] \in Interruptible
    /\ IF pc[t] = "wait"
       THEN GoClear(t, FALSE) /\ UNCHANGED <<lock, on>>
       ELSE Return(t) /\ lock' = IF lock = t THEN None ELSE lock
    /\ UNCHANGED <<entries, required, connections>>

-----------------------------------------------------------------------------
Proceed(t) ==
    \/ Check(t)
    \/ Recreate(t)
    \/ Launch(t)
    \/ JoinLaunch(t)
    \/ Initialized(t)
    \/ BudgetSpent(t)
    \/ Clear(t)
    \/ Cleared(t)
    \/ Disconnect(t)
    \/ Disconnected(t)
    \/ DisconnectAll(t)
    \/ DisconnectedAll(t)

Call(t) ==
    \/ CallGet(t)
    \/ CallDisconnect(t)
    \/ CallDisconnectAll(t)
    \/ Finish(t)
    \/ Recover(t)

Lifecycle(c) ==
    \/ Begin(c)
    \/ Abandon(c)
    \/ Leave(c)

Server(c) ==
    \/ Ready(c)
    \/ Fail(c)
    \/ PingsMissed(c)

Next ==
    \/ \E t \in Tasks : Proceed(t) \/ Call(t) \/ Cancel(t)
    \/ \E c \in Conns : Lifecycle(c) \/ Server(c)

Spec == Init /\ [][Next]_vars

(* A lifecycle task runs, and leaves when it is told to; the lock is handed *)
(* on in turn; a startup budget runs out. Nothing is assumed of a server.   *)
Fairness ==
    /\ \A t \in Tasks : SF_vars(Proceed(t))
    /\ \A c \in Conns : WF_vars(Lifecycle(c))

FairSpec == Spec /\ Fairness

-----------------------------------------------------------------------------
(* Properties *)

(* The values each variable ranges over.                                   *)
TypeOK ==
    /\ running \in [Servers -> 0..MaxConns]
    /\ lock \in Tasks \cup {None}
    /\ required \subseteq Servers
    /\ config \in [Servers -> Configs \cup {None}]
    /\ life \in [Conns -> Lives]
    /\ probing \subseteq Servers
    /\ challenged \subseteq Conns
    /\ pc \in [Tasks -> Awaits \cup {"idle"}]
    /\ call \in [Tasks -> [srv : Servers \cup {None}, want : Configs \cup {None},
                           oauth : BOOLEAN, retried : BOOLEAN, relaunch : BOOLEAN]]
    /\ on \in [Tasks -> 0..MaxConns]

(* A runtime that is not completely shut down is the registered one of its  *)
(* server: reconnects do not overlap the cleanup of the old runtime, and    *)
(* disconnect_all misses none.                                              *)
OneRuntime ==
    \A c \in Conns : ~Over(c) => c \in Range(running)

(* A connection that works is only taken from its users by a disconnect, by *)
(* a caller with other settings, or by one whose own wait for it was cut    *)
(* short.                                                                  *)
WorkingKept ==
    [][\A c \in Conns : life[c] = "ready" /\ life'[c] = "leaving" =>
          \E t \in Tasks :
             /\ lock' = t
             /\ \/ pc[t] \in {"disconnect", "disconnectAll"}
                \/ pc[t] = "check" /\ ~Suits(t)
                \/ pc[t] = "clear" /\ on[t] = c]_vars

(* Every call returns, with a connection or an exception.                  *)
CallsReturn ==
    \A t \in Tasks : pc[t] \in Awaits \ {"use"} ~> pc[t] \in {"idle", "use"}

(* A connection nobody will ever call initialized has nobody waiting for it: *)
(* is_initialized is True once initialization has completed, with success or *)
(* failure. The code keeps this of no startup that another caller cancels.   *)
WaitersReleased ==
    \A t \in Tasks : pc[t] = "wait" => life[on[t]] # "lost"

(* What get_server returns has been initialized. The code returns a startup  *)
(* in progress to the second caller.                                         *)
ReturnedReady ==
    \A t \in Tasks : pc[t] = "use" => IsInitialized(on[t]) \/ Over(on[t])

=============================================================================
