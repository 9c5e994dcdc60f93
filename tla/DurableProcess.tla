--------------------------- MODULE DurableProcess ---------------------------
(***************************************************************************)
(* The durable background processes of tools/durable_processes.py and      *)
(* tools/durable_process_supervisor.py. A process is a directory of files, *)
(* among them status.json, the launch claim and the stop request. Clients  *)
(* (invocations of fast-agent) create, launch, observe, stop and prune     *)
(* records; a detached supervisor per launched process starts the command, *)
(* publishes its status with a heartbeat and records how it ended. They    *)
(* share nothing but the files, a lock on the store (.capacity.lock) and   *)
(* the operating system's answer to whether a PID is running.              *)
(*                                                                         *)
(* Time is whether a heartbeat is older than the timeout. A status is read *)
(* in one step and judged and overwritten in a later one, because get() is *)
(* called with and without the lock and supervisors write without it.      *)
(***************************************************************************)
EXTENDS Integers, FiniteSets

CONSTANTS
    Procs,         \* process IDs; also names the supervisor of a process
    Clients,       \* invocations of fast-agent
    None,          \* no process, no lock holder
    MaxActive,     \* max_active_processes
    MaxTerminal,   \* max_terminal_records
    Uses,          \* what clients do besides creating and launching
    MayLag,        \* states whose heartbeat may be late though their writer lives
    Faults         \* what may go wrong

ASSUME ActorsAssumption ==
    Procs \cap Clients = {} /\ None \notin Procs \cup Clients
ASSUME LimitsAssumption ==
    /\ IsFiniteSet(Procs)
    /\ MaxActive \in Nat \ {0}
    /\ MaxTerminal \in Nat

Nonterminal == {"created", "starting", "running", "stopping"}
Terminal == {"exited", "stopped", "unavailable"}
ASSUME MayLagAssumption == MayLag \subseteq Nonterminal

(* Clients may list, look at or stop processes, and launch a record that     *)
(* another client created.                                                  *)
ASSUME UsesAssumption == Uses \subseteq {"discover", "get", "stop", "relaunch"}

(* A client or a supervisor is killed; Popen fails; the output threads fail *)
(* or do not end; a supervisor gets SIGTERM.                                *)
ASSUME FaultsAssumption ==
    Faults \subseteq {"client", "supervisor", "spawn", "drain", "signal"}

Actors == Procs \cup Clients

(* status.json: the state, which of the two PIDs it names, and whether its  *)
(* heartbeat is recent. Only a tombstone may name one PID.                  *)
Status ==
    {st \in [state : Nonterminal \cup Terminal,
             pids  : {"none", "supervisor", "both"},
             fresh : BOOLEAN] :
        /\ st.state \in {"created", "starting"} => st.pids = "none"
        /\ st.state \in {"running", "stopping", "exited", "stopped"} => st.pids = "both"}

Blank == [state |-> "created", pids |-> "none", fresh |-> TRUE]

ScanPcs == {"lockPrune", "prune", "remove"}
ClientPcs == ScanPcs \cup {"idle", "count", "discover", "launchRead", "claim",
                           "starting", "popen", "read", "judge"}
SupervisorPcs == ScanPcs \cup {"none", "start", "publish", "loop", "term", "final",
                               "fail", "zombie", "gone"}

VARIABLES
    dir,        \* the process directory: "absent", "present" or "removed"
    status,     \* its status.json
    claimed,    \* processes whose launch file exists
    stopReq,    \* processes whose control/stop.json exists
    lock,       \* holder of .capacity.lock, or None
    todo,       \* under the lock: the records a scan has yet to visit
    reading,    \* under the lock: the record whose status was read, or None
    found,      \* under the lock: active records, or prunable ones
    pc,         \* where each actor is
    on,         \* the process a client's launch or get is about
    held,       \* the status an actor has read and not yet judged
    back,       \* where an actor goes when its prune is over
    stopSeen,   \* supervisors whose stop_requested is set
    child,      \* the command: "none", "alive", "killed" or "ended"
    spawns      \* auxiliary: how many supervisors each process was given

files == <<dir, status, claimed, stopReq>>
scan == <<todo, reading, found>>
vars == <<files, lock, scan, pc, on, held, back, stopSeen, child, spawns>>

Init ==
    /\ dir = [p \in Procs |-> "absent"]
    /\ status = [p \in Procs |-> Blank]
    /\ claimed = {} /\ stopReq = {} /\ stopSeen = {}
    /\ lock = None /\ reading = None
    /\ todo = {} /\ found = {}
    /\ pc = [a \in Actors |-> IF a \in Procs THEN "none" ELSE "lockPrune"]
    /\ on = [c \in Clients |-> None]
    /\ held = [a \in Actors |-> Blank]
    /\ back = [a \in Actors |-> IF a \in Procs THEN "start" ELSE "idle"]
    /\ child = [p \in Procs |-> "none"]
    /\ spawns = [p \in Procs |-> 0]

-----------------------------------------------------------------------------
(* Helpers *)

Goto(a, l) == pc' = [pc EXCEPT ![a] = l]
Present == {p \in Procs : dir[p] = "present"}

(* _write_status of a state with a heartbeat of now. It fails if the        *)
(* directory is gone.                                                       *)
WriteStatus(p, state, pids) ==
    /\ p \in Present
    /\ status' = [status EXCEPT ![p] = [state |-> state, pids |-> pids, fresh |-> TRUE]]

(* os.kill(pid, 0). A supervisor that ended is a zombie, which still counts *)
(* as running, until its launcher reaps it. PIDs are taken not to be reused.*)
SupervisorLive(p) == pc[p] \notin {"none", "zombie", "gone"}
SupervisorRunning(p) == SupervisorLive(p) \/ pc[p] = "zombie"
ChildRunning(p) == child[p] \in {"alive", "killed"}

(* _status_has_disappeared, of the status that was read                     *)
Disappeared(p, st) ==
    /\ st.state \in Nonterminal
    /\ st.pids = "both"
    /\ ~SupervisorRunning(p)
    /\ ~ChildRunning(p)

Stale(st) == st.state \in Nonterminal /\ ~st.fresh

(* Variants: only a record that was never launched counts as abandoned; any *)
(* record without PIDs does.                                                *)
BugNeverLaunched(st) == st.state = "created" /\ st.pids = "none" /\ Stale(st)
BugUnpublished(st) == st.state \in {"created", "starting"} /\ st.pids = "none"

AbandonedLaunch(st) ==
    st.state \in {"created", "starting"} /\ st.pids = "none" /\ Stale(st)

(* _persist_unavailable_status: the tombstone replaces whatever is in the   *)
(* file by now, with the PIDs and the times of the status that was read.    *)
Judged(p, st) ==
    IF Disappeared(p, st) \/ AbandonedLaunch(st)
    THEN [st EXCEPT !.state = "unavailable"] ELSE st

PersistUnavailable(p, st) ==
    status' = IF Judged(p, st) # st THEN [status EXCEPT ![p] = Judged(p, st)] ELSE status

(* Variant: a stale record may go too.                                      *)
BugPrunable(st) == st.state \in Terminal \/ Stale(st)

(* _status_is_prunable                                                      *)
Prunable(st) == st.state \in Terminal

(* Variant: a record whose launch has not begun takes no room.              *)
BugCountsAsActive(st) == st.state \in Nonterminal \ {"created"} /\ ~Stale(st)

(* get()'s snapshot of a judged status is nonterminal.                      *)
CountsAsActive(st) == st.state \in Nonterminal /\ ~Stale(st)

-----------------------------------------------------------------------------
(* Scans of the store, under the lock: the count of active records in       *)
(* create(), discover(), and the prune that opening a store, launching and  *)
(* supervising run.                                                         *)

TakeLock(a, l) ==
    /\ lock = None
    /\ lock' = a
    /\ todo' = Present
    /\ found' = {}
    /\ Goto(a, l)
    /\ UNCHANGED <<files, reading, on, held, back, stopSeen, child, spawns>>

Unlock(a) ==
    lock' = IF lock = a THEN None ELSE lock

ScanRead(a) ==
    /\ lock = a
    /\ pc[a] \in {"count", "discover", "prune"}
    /\ reading = None
    /\ \E p \in todo :
        /\ reading' = p
        /\ held' = [held EXCEPT ![a] = status[p]]
        /\ todo' = todo \ {p}
    /\ UNCHANGED <<files, lock, found, pc, on, back, stopSeen, child, spawns>>

ScanJudge(a) ==
    /\ lock = a
    /\ reading # None
    /\ PersistUnavailable(reading, held[a])
    /\ found' = IF \/ pc[a] = "count" /\ CountsAsActive(Judged(reading, held[a]))
                   \/ pc[a] = "prune" /\ Prunable(Judged(reading, held[a]))
                THEN found \cup {reading} ELSE found
    /\ reading' = None
    /\ held' = [held EXCEPT ![a] = Blank]
    /\ UNCHANGED <<dir, claimed, stopReq, lock, todo, pc, on, back, stopSeen, child,
                   spawns>>

ScanDone(a, l) == lock = a /\ pc[a] = l /\ reading = None /\ todo = {}

(* The length of terminal_records[max_terminal_records:]                    *)
Excess(n) == IF n > MaxTerminal THEN n - MaxTerminal ELSE 0

(* Which prunable records are the oldest is left open.                      *)
ChooseVictims(a) ==
    /\ ScanDone(a, "prune")
    /\ \E V \in SUBSET found :
        /\ Cardinality(V) = Excess(Cardinality(found))
        /\ todo' = V
    /\ found' = {}
    /\ Goto(a, "remove")
    /\ UNCHANGED <<files, lock, reading, on, held, back, stopSeen, child, spawns>>

Remove(a) ==
    /\ lock = a
    /\ pc[a] = "remove"
    /\ \E p \in todo :
        /\ dir' = IF Prunable(status[p]) THEN [dir EXCEPT ![p] = "removed"] ELSE dir
        /\ todo' = todo \ {p}
    /\ UNCHANGED <<status, claimed, stopReq, lock, reading, found, pc, on, held, back,
                   stopSeen, child, spawns>>

EndPrune(a) ==
    /\ ScanDone(a, "remove")
    /\ Unlock(a)
    /\ Goto(a, back[a])
    /\ UNCHANGED <<files, scan, on, held, back, stopSeen, child, spawns>>

StartPrune(a) == pc[a] = "lockPrune" /\ TakeLock(a, "prune")

Scan(a) ==
    \/ StartPrune(a)
    \/ ScanRead(a)
    \/ ScanJudge(a)
    \/ ChooseVictims(a)
    \/ Remove(a)
    \/ EndPrune(a)

-----------------------------------------------------------------------------
(* Clients *)

(* The bound on creation is Procs: an ID is used once.                      *)
StartCreate(c) ==
    /\ pc[c] = "idle"
    /\ \E p \in Procs : dir[p] = "absent"
    /\ TakeLock(c, "count")

(* create() ends; start_durable goes on to launch what it created.          *)
Create(c) ==
    /\ ScanDone(c, "count")
    /\ Unlock(c)
    /\ found' = {}
    /\ IF Cardinality(found) >= MaxActive
       THEN /\ Goto(c, "idle")
            /\ UNCHANGED <<dir, on>>
       ELSE \E p \in Procs :
            /\ dir[p] = "absent"
            /\ dir' = [dir EXCEPT ![p] = "present"]
            /\ on' = [on EXCEPT ![c] = p]
            /\ Goto(c, "launchRead")
    /\ UNCHANGED <<status, claimed, stopReq, todo, reading, held, back, stopSeen, child,
                   spawns>>

StartDiscover(c) == "discover" \in Uses /\ pc[c] = "idle" /\ TakeLock(c, "discover")

EndDiscover(c) ==
    /\ ScanDone(c, "discover")
    /\ Unlock(c)
    /\ Goto(c, "idle")
    /\ UNCHANGED <<files, scan, on, held, back, stopSeen, child, spawns>>

GiveUp(c) == Goto(c, "idle") /\ on' = [on EXCEPT ![c] = None]

Relaunch(c) ==
    /\ "relaunch" \in Uses
    /\ pc[c] = "idle"
    /\ \E p \in Present : on' = [on EXCEPT ![c] = p]
    /\ Goto(c, "launchRead")
    /\ UNCHANGED <<files, lock, scan, held, back, stopSeen, child, spawns>>

LaunchRead(c) ==
    /\ pc[c] = "launchRead"
    /\ IF on[c] \in Present /\ status[on[c]].state = "created"
       THEN Goto(c, "claim") /\ UNCHANGED on
       ELSE GiveUp(c)
    /\ UNCHANGED <<files, lock, scan, held, back, stopSeen, child, spawns>>

(* Variant of _claim_launch: an existing launch file is overwritten.        *)
BugClaimable(p) == p \in Present

(* O_CREAT | O_EXCL succeeds.                                               *)
Claimable(p) == p \in Present /\ p \notin claimed

Claim(c) ==
    /\ pc[c] = "claim"
    /\ IF Claimable(on[c])
       THEN /\ claimed' = claimed \cup {on[c]}
            /\ Goto(c, "starting")
            /\ UNCHANGED on
       ELSE GiveUp(c) /\ UNCHANGED claimed
    /\ UNCHANGED <<dir, status, stopReq, lock, scan, held, back, stopSeen, child, spawns>>

WriteStarting(c) ==
    /\ pc[c] = "starting"
    /\ \/ /\ WriteStatus(on[c], "starting", "none")
          /\ Goto(c, "popen")
          /\ UNCHANGED on
       \/ /\ on[c] \notin Present
          /\ GiveUp(c)
          /\ UNCHANGED status
    /\ UNCHANGED <<dir, claimed, stopReq, lock, scan, held, back, stopSeen, child, spawns>>

Popen(c) ==
    /\ pc[c] = "popen"
    /\ pc' = [pc EXCEPT ![c] = "lockPrune", ![on[c]] = "lockPrune"]
    /\ back' = [back EXCEPT ![c] = "read"]
    /\ spawns' = [spawns EXCEPT ![on[c]] = @ + 1]
    /\ UNCHANGED <<files, lock, scan, on, held, stopSeen, child>>

PopenFails(c) ==
    /\ pc[c] = "popen"
    /\ "spawn" \in Faults
    /\ \/ WriteStatus(on[c], "unavailable", "none")
       \/ on[c] \notin Present /\ UNCHANGED status
    /\ Goto(c, "lockPrune")
    /\ on' = [on EXCEPT ![c] = None]
    /\ back' = [back EXCEPT ![c] = "idle"]
    /\ UNCHANGED <<dir, claimed, stopReq, lock, scan, held, stopSeen, child, spawns>>

(* get() without the lock: at the end of a launch, in the polling waits, or *)
(* whenever a status is wanted.                                             *)
StartGet(c) ==
    /\ "get" \in Uses
    /\ pc[c] = "idle"
    /\ \E p \in Present : on' = [on EXCEPT ![c] = p]
    /\ Goto(c, "read")
    /\ UNCHANGED <<files, lock, scan, held, back, stopSeen, child, spawns>>

GetRead(c) ==
    /\ pc[c] = "read"
    /\ IF on[c] \in Present
       THEN /\ Goto(c, "judge")
            /\ held' = [held EXCEPT ![c] = status[on[c]]]
            /\ UNCHANGED on
       ELSE GiveUp(c) /\ UNCHANGED held
    /\ UNCHANGED <<files, lock, scan, back, stopSeen, child, spawns>>

GetJudge(c) ==
    /\ pc[c] = "judge"
    /\ IF on[c] \in Present THEN PersistUnavailable(on[c], held[c]) ELSE UNCHANGED status
    /\ held' = [held EXCEPT ![c] = Blank]
    /\ GiveUp(c)
    /\ UNCHANGED <<dir, claimed, stopReq, lock, scan, back, stopSeen, child, spawns>>

RequestStop(c) ==
    /\ "stop" \in Uses
    /\ pc[c] = "idle"
    /\ \E p \in Present \ stopReq : stopReq' = stopReq \cup {p}
    /\ UNCHANGED <<dir, status, claimed, lock, scan, pc, on, held, back, stopSeen, child,
                   spawns>>

(* Killed; the next invocation opens the store.                             *)
ClientCrash(c) ==
    /\ "client" \in Faults
    /\ pc[c] \notin {"idle", "lockPrune"}
    /\ Unlock(c)
    /\ IF lock = c THEN todo' = {} /\ found' = {} /\ reading' = None ELSE UNCHANGED scan
    /\ Goto(c, "lockPrune")
    /\ back' = [back EXCEPT ![c] = "idle"]
    /\ on' = [on EXCEPT ![c] = None]
    /\ held' = [held EXCEPT ![c] = Blank]
    /\ UNCHANGED <<files, stopSeen, child, spawns>>

ClientStep(c) ==
    \/ Scan(c)
    \/ Create(c)
    \/ EndDiscover(c)
    \/ LaunchRead(c)
    \/ Claim(c)
    \/ WriteStarting(c)
    \/ Popen(c)
    \/ PopenFails(c)
    \/ GetRead(c)
    \/ GetJudge(c)

ClientChoice(c) ==
    \/ StartCreate(c)
    \/ StartDiscover(c)
    \/ Relaunch(c)
    \/ StartGet(c)
    \/ RequestStop(c)

-----------------------------------------------------------------------------
(* Supervisors. The store is opened, and pruned, before the record is read. *)

PrepareExit(p) == Goto(p, "lockPrune") /\ back' = [back EXCEPT ![p] = "zombie"]

ReadSpec(p) ==
    /\ pc[p] = "start"
    /\ \/ /\ p \in Present
          /\ child' = [child EXCEPT ![p] = "alive"]
          /\ Goto(p, "publish")
       \/ /\ p \in Present
          /\ "spawn" \in Faults
          /\ Goto(p, "fail")
          /\ UNCHANGED child
       \/ /\ p \notin Present
          /\ Goto(p, "zombie")
          /\ UNCHANGED child
    /\ UNCHANGED <<files, lock, scan, on, held, back, stopSeen, spawns>>

(* Variant: the command's PID is left out.                                  *)
BugReport(p, state, l) ==
    \/ WriteStatus(p, state, "supervisor") /\ Goto(p, l)
    \/ p \notin Present /\ UNCHANGED status /\ Goto(p, "fail")

(* A status write and the pc after it; a failing write raises.              *)
Report(p, state, l) ==
    \/ WriteStatus(p, state, "both") /\ Goto(p, l)
    \/ p \notin Present /\ UNCHANGED status /\ Goto(p, "fail")

Publish(p) ==
    /\ pc[p] = "publish"
    /\ Report(p, "running", "loop")
    /\ UNCHANGED <<dir, claimed, stopReq, lock, scan, on, held, back, stopSeen, child,
                   spawns>>

(* The heartbeat of the first status is the time from before the command    *)
(* was started: after a launch that dragged on it is late when written.     *)
PublishLate(p) ==
    /\ pc[p] = "publish"
    /\ p \in Present
    /\ "starting" \in MayLag
    /\ ~status[p].fresh
    /\ status' = [status EXCEPT ![p] = [state |-> "running", pids |-> "both", fresh |-> FALSE]]
    /\ Goto(p, "loop")
    /\ UNCHANGED <<dir, claimed, stopReq, lock, scan, on, held, back, stopSeen, child,
                   spawns>>

(* _wait_for_child: one pass of the loop. After a stop that needed SIGKILL  *)
(* the heartbeat writes "running" over "stopping".                          *)
Heartbeat(p) ==
    /\ pc[p] = "loop"
    /\ ChildRunning(p)
    /\ p \in stopReq => p \in stopSeen
    /\ Report(p, "running", "loop")
    /\ UNCHANGED <<dir, claimed, stopReq, lock, scan, on, held, back, stopSeen, child,
                   spawns>>

SeeStop(p) ==
    /\ pc[p] = "loop"
    /\ ChildRunning(p)
    /\ p \notin stopSeen
    /\ (p \in stopReq /\ p \in Present) \/ "signal" \in Faults
    /\ stopSeen' = stopSeen \cup {p}
    /\ Report(p, "stopping", "term")
    /\ UNCHANGED <<dir, claimed, stopReq, lock, scan, on, held, back, child, spawns>>

(* Variant: SIGTERM only, so that a command that ignores it goes on.        *)
BugTerminated(now) == IF now = "alive" THEN {"alive", "ended"} ELSE {now}

(* _terminate_process_group: the command ends within the grace period or is *)
(* sent SIGKILL.                                                            *)
Terminated(now) == IF now = "alive" THEN {"killed", "ended"} ELSE {now}

Terminate(p) ==
    /\ pc[p] = "term"
    /\ \E s \in Terminated(child[p]) : child' = [child EXCEPT ![p] = s]
    /\ Goto(p, "loop")
    /\ UNCHANGED <<files, lock, scan, on, held, back, stopSeen, spawns>>

LoopEnds(p) ==
    /\ pc[p] = "loop"
    /\ child[p] = "ended"
    /\ Goto(p, "final")
    /\ UNCHANGED <<files, lock, scan, on, held, back, stopSeen, child, spawns>>

DrainFails(p) ==
    /\ "drain" \in Faults
    /\ pc[p] \in {"loop", "final"}
    /\ Goto(p, "fail")
    /\ UNCHANGED <<files, lock, scan, on, held, back, stopSeen, child, spawns>>

Finish(p) ==
    /\ pc[p] = "final"
    /\ \/ /\ WriteStatus(p, IF p \in stopSeen THEN "stopped" ELSE "exited", "both")
          /\ PrepareExit(p)
       \/ /\ p \notin Present
          /\ Goto(p, "fail")
          /\ UNCHANGED <<status, back>>
    /\ UNCHANGED <<dir, claimed, stopReq, lock, scan, on, held, stopSeen, child, spawns>>

(* The except clause of _supervise: the command's group is cleaned up and a *)
(* tombstone written, if that works.                                        *)
Fail(p) ==
    /\ pc[p] = "fail"
    /\ \E s \in Terminated(child[p]) : child' = [child EXCEPT ![p] = s]
    /\ \/ WriteStatus(p, "unavailable", IF child[p] = "none" THEN "supervisor" ELSE "both")
       \/ p \notin Present /\ UNCHANGED status
    /\ PrepareExit(p)
    /\ UNCHANGED <<dir, claimed, stopReq, lock, scan, on, held, stopSeen, spawns>>

(* SIGKILL, or anything else that ends the supervisor and not its command.  *)
SupervisorCrash(p) ==
    /\ "supervisor" \in Faults
    /\ SupervisorLive(p)
    /\ Unlock(p)
    /\ IF lock = p THEN todo' = {} /\ found' = {} /\ reading' = None ELSE UNCHANGED scan
    /\ Goto(p, "zombie")
    /\ held' = [held EXCEPT ![p] = Blank]
    /\ UNCHANGED <<files, on, back, stopSeen, child, spawns>>

SupervisorStep(p) ==
    \/ Scan(p)
    \/ ReadSpec(p)
    \/ Publish(p)
    \/ PublishLate(p)
    \/ Heartbeat(p)
    \/ SeeStop(p)
    \/ Terminate(p)
    \/ LoopEnds(p)
    \/ DrainFails(p)
    \/ Finish(p)
    \/ Fail(p)

-----------------------------------------------------------------------------
(* The operating system and the clock *)

ChildEnds(p) ==
    /\ child[p] = "alive"
    /\ child' = [child EXCEPT ![p] = "ended"]
    /\ UNCHANGED <<files, lock, scan, pc, on, held, back, stopSeen, spawns>>

KillTakesEffect(p) ==
    /\ child[p] = "killed"
    /\ child' = [child EXCEPT ![p] = "ended"]
    /\ UNCHANGED <<files, lock, scan, pc, on, held, back, stopSeen, spawns>>

Reap(p) ==
    /\ pc[p] = "zombie"
    /\ Goto(p, "gone")
    /\ UNCHANGED <<files, lock, scan, on, held, back, stopSeen, child, spawns>>

(* Somebody is about to write the next status of the record.                *)
Driven(p) ==
    \/ SupervisorLive(p)
    \/ \E c \in Clients : on[c] = p /\ pc[c] \in {"launchRead", "claim", "starting", "popen"}

(* The heartbeat timeout passes without a write.                            *)
Age(p) ==
    /\ p \in Present
    /\ status[p].fresh
    /\ status[p].state \in (IF Driven(p) THEN MayLag ELSE Nonterminal)
    /\ status' = [status EXCEPT ![p].fresh = FALSE]
    /\ UNCHANGED <<dir, claimed, stopReq, lock, scan, pc, on, held, back, stopSeen, child,
                   spawns>>

System(p) == ChildEnds(p) \/ KillTakesEffect(p) \/ Reap(p) \/ Age(p)

Next ==
    \/ \E c \in Clients : ClientStep(c) \/ ClientChoice(c) \/ ClientCrash(c)
    \/ \E p \in Procs : SupervisorStep(p) \/ SupervisorCrash(p) \/ System(p)

Spec == Init /\ [][Next]_vars

(* Programs go on running; a supervisor's stop check is made on every pass, *)
(* so it does not wait for the heartbeats to end; SIGKILL, reaping and the  *)
(* clock do their work. A command need not end, nobody need fail.           *)
ProgramFairness ==
    /\ \A c \in Clients : WF_vars(ClientStep(c))
    /\ \A p \in Procs :
        /\ WF_vars(SupervisorStep(p))
        /\ WF_vars(SeeStop(p))
        /\ WF_vars(LoopEnds(p))
        /\ WF_vars(KillTakesEffect(p))
        /\ WF_vars(Reap(p))
        /\ WF_vars(Age(p))

(* Someone keeps looking at the processes: discover() is called again and   *)
(* again, as every start of fast-agent and /process do, and the caller is   *)
(* not killed every time before it has read and judged what is there.       *)
ObserverFairness ==
    \A c \in Clients :
        /\ SF_vars(StartDiscover(c))
        /\ SF_vars(ScanRead(c))
        /\ SF_vars(ScanJudge(c))

FairSpec == Spec /\ ProgramFairness /\ ObserverFairness

-----------------------------------------------------------------------------
(* Properties *)

(* Every variable stays in its domain: the statuses and the program points  *)
(* of the two programs.                                                     *)
TypeOK ==
    /\ dir \in [Procs -> {"absent", "present", "removed"}]
    /\ status \in [Procs -> Status]
    /\ claimed \subseteq Procs
    /\ stopReq \subseteq Procs
    /\ stopSeen \subseteq Procs
    /\ lock \in Actors \cup {None}
    /\ todo \subseteq Procs
    /\ found \subseteq Procs
    /\ reading \in Procs \cup {None}
    /\ pc \in [Actors -> ClientPcs \cup SupervisorPcs]
    /\ on \in [Clients -> Procs \cup {None}]
    /\ held \in [Actors -> Status]
    /\ back \in [Actors -> {"idle", "read", "start", "zombie"}]
    /\ child \in [Procs -> {"none", "alive", "killed", "ended"}]
    /\ spawns \in [Procs -> Nat]

(* A command is started at most once, however many clients launch its       *)
(* record at the same time: the launch file is claimed exclusively.         *)
LaunchedOnce == \A p \in Procs : spawns[p] <= 1

(* At most max_active_processes commands run at once, over all the clients  *)
(* that share the store: create() counts and creates under one lock.        *)
ActiveBounded == Cardinality({p \in Procs : child[p] = "alive"}) <= MaxActive

(* A record that has ended never becomes active again, whoever writes it:   *)
(* the launcher, the supervisor and the observers all write status.json,    *)
(* the supervisor without the lock.                                         *)
TerminalStays ==
    [][\A p \in Procs :
        status[p].state \in Terminal => status'[p].state \in Terminal]_vars

(* How a command ended is not lost: the status exited or stopped, with the  *)
(* exit code, is the last that is written.                                  *)
ExitKept ==
    [][\A p \in Procs :
        status[p].state \in {"exited", "stopped"} => status'[p] = status[p]]_vars

(* Retention cleanup removes no record whose command runs, though its       *)
(* heartbeat may be late or its supervisor dead; unless the supervisor died *)
(* before it could publish the command's PID.                               *)
ActiveNotPruned ==
    [][\A p \in Procs :
        /\ dir[p] = "present" /\ dir'[p] = "removed"
        /\ status[p].pids = "both" \/ SupervisorLive(p)
        => child[p] # "alive"]_vars

(* A record is declared unavailable by the launcher or the supervisor that  *)
(* fails; by an observer only once the supervisor and the command are both  *)
(* gone, or when the launch is stale and has published neither PID.         *)
TombstoneOnlyWhenGone ==
    [][\A p \in Procs :
        status[p].state # "unavailable" /\ status'[p].state = "unavailable" =>
            \/ pc[p] = "fail"
            \/ \E c \in Clients : on[c] = p /\ pc[c] = "popen"
            \/ ~SupervisorLive(p) /\ ~ChildRunning(p)
            \/ status[p].pids = "none" /\ ~status[p].fresh]_vars

(* A stop request that reaches a watching supervisor is honoured: the       *)
(* command ends, even if it ignores SIGTERM, and the record says so.        *)
StopHonoured ==
    \A p \in Procs :
        p \in stopReq /\ pc[p] \in {"publish", "loop"} /\ child[p] = "alive" ~>
            child[p] = "ended" /\ (dir[p] = "removed" \/ status[p].state \in Terminal)

(* A record whose supervisor, launcher and command are all gone does not    *)
(* stay active for ever: some observer marks it or it is removed.           *)
AbandonedSettles ==
    \A p \in Procs :
        dir[p] = "present" ~>
            \/ dir[p] = "removed"
            \/ status[p].state \in Terminal
            \/ Driven(p)
            \/ ChildRunning(p)

=============================================================================
