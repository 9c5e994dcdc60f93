------------------------ MODULE McpConnections_proofs ------------------------
(***************************************************************************)
(* Theorems about McpConnections, for every set of tasks, servers and      *)
(* settings and every bound and interruption: type correctness, that a     *)
(* server has one runtime at a time, that a working connection is not      *)
(* taken from its users, that a call takes a bounded number of steps, and   *)
(* that the lock is only held for what is about to end.                     *)
(***************************************************************************)
EXTENDS McpConnections, TLAPS

-----------------------------------------------------------------------------
(* Who awaits a lifecycle has the manager's lock.                          *)
Holding == \A t \in Tasks : pc[t] \in HoldPcs => lock = t

(* A task that is in a call about a server has its name, and one that waits  *)
(* for a connection or uses one has it.                                    *)
Named ==
    \A t \in Tasks :
        /\ pc[t] \in (Awaits \ {"disconnectAll", "disconnectingAll"}) => Srv(t) \in Servers
        /\ pc[t] \in {"wait", "use"} => on[t] # 0

(* What is about to be popped is the entry whose lifecycle is awaited.     *)
Awaiting == \A t \in Tasks : pc[t] \in {"recreate", "disconnecting"} => on[t] = Current(t)

(* The parts of TypeOK: of the manager, of the connections and of the tasks. *)
Calls == [srv : Servers \cup {None}, want : Configs \cup {None},
          oauth : BOOLEAN, retried : BOOLEAN, relaunch : BOOLEAN]

EntriesTyped ==
    /\ running \in [Servers -> 0..MaxConns]
    /\ config \in [Servers -> Configs \cup {None}]
    /\ probing \subseteq Servers

ManagerTyped == EntriesTyped /\ lock \in Tasks \cup {None} /\ required \subseteq Servers

ConnectionsTyped == life \in [Conns -> Lives] /\ challenged \subseteq Conns

TasksTyped ==
    /\ pc \in [Tasks -> Awaits \cup {"idle"}]
    /\ call \in [Tasks -> Calls]
    /\ on \in [Tasks -> 0..MaxConns]

LEMMA TypeParts == TypeOK <=> ManagerTyped /\ ConnectionsTyped /\ TasksTyped
  BY DEF TypeOK, ManagerTyped, EntriesTyped, ConnectionsTyped, TasksTyped, Calls

-----------------------------------------------------------------------------
(* What the helpers do                                                     *)

(* A shutdown request ends no lifecycle at once and revives none.          *)
LEMMA ShutdownKeeps ==
    ASSUME ConnectionsTyped, NEW C, Shutdown(C)
    PROVE  /\ life' \in [Conns -> Lives]
           /\ \A c \in Conns : Over(c)' <=> Over(c)
  BY DEF ConnectionsTyped, Shutdown, Lives, Over, Asked, Range

(* The number of a new connection is nobody's, and its old one is over.    *)
LEMMA NewConnUnused ==
    ASSUME Unused # {}
    PROVE  NewConn \in Unused /\ NewConn \in Conns
  BY DEF NewConn, Unused

(* The values calls and connections take from the constants.               *)
LEMMA NoCallTyped == NoCall \in Calls /\ NoCall.srv = None
  BY DEF NoCall, Calls

(* A popped entry is as good as none.                                      *)
LEMMA PopTyped ==
    ASSUME EntriesTyped, NEW S, Pop(S)
    PROVE  EntriesTyped'
<1>1. 0 \in 0..MaxConns
  BY MaxConnsAssumption
<1> QED
  BY <1>1 DEF EntriesTyped, Pop

(* A call changes in its own arguments only.                               *)
Others(t) ==
    \A u \in Tasks \ {t} : pc'[u] = pc[u] /\ on'[u] = on[u] /\ call'[u] = call[u]

LEMMA GoLaunchDoes ==
    ASSUME TasksTyped, NEW t \in Tasks, NEW c \in Calls, GoLaunch(t, c)
    PROVE  /\ TasksTyped'
           /\ pc'[t] = "launch" /\ call'[t].srv = c.srv /\ Others(t)
<1>1. [c EXCEPT !.oauth = @ \/ c.srv \in required, !.relaunch = FALSE] \in Calls
  BY DEF Calls
<1>2. 0 \in 0..MaxConns
  BY MaxConnsAssumption
<1>3. [c EXCEPT !.oauth = @ \/ c.srv \in required, !.relaunch = FALSE].srv = c.srv
  BY DEF Calls
<1> QED
  BY <1>1, <1>2, <1>3 DEF GoLaunch, TasksTyped, Goto, Take, Others, Awaits, LockPcs

LEMMA ReturnDoes ==
    ASSUME TasksTyped, NEW t \in Tasks, Return(t)
    PROVE  TasksTyped' /\ pc'[t] = "idle" /\ Others(t)
<1>1. 0 \in 0..MaxConns
  BY MaxConnsAssumption
<1> QED
  BY <1>1, NoCallTyped DEF Return, TasksTyped, Goto, Take, Others

LEMMA UseDoes ==
    ASSUME TasksTyped, NEW t \in Tasks, NEW c \in 0..MaxConns, Use(t, c)
    PROVE  TasksTyped' /\ pc'[t] = "use" /\ call'[t].srv = Srv(t) /\ Others(t)
<1>1. Srv(t) \in Servers \cup {None} /\ call[t].want \in Configs \cup {None}
  BY DEF TasksTyped, Calls, Srv
<1> DEFINE new == [NoCall EXCEPT !.srv = Srv(t), !.want = call[t].want]
<1>2. new \in Calls /\ new.srv = Srv(t)
  BY <1>1 DEF NoCall, Calls
<1>3. call' = [call EXCEPT ![t] = new]
  BY DEF Use
<1> HIDE DEF new
<1> QED
  BY <1>2, <1>3 DEF Use, TasksTyped, Goto, Take, Others, Awaits

LEMMA GoClearDoes ==
    ASSUME TasksTyped, NEW t \in Tasks, NEW b \in BOOLEAN, GoClear(t, b), UNCHANGED on
    PROVE  TasksTyped' /\ pc'[t] = "clear" /\ call'[t].srv = Srv(t) /\ Others(t)
<1>1. [call[t] EXCEPT !.relaunch = b] \in Calls
  BY DEF TasksTyped, Calls
<1>2. [call[t] EXCEPT !.relaunch = b].srv = call[t].srv
  BY DEF TasksTyped, Calls
<1> QED
  BY <1>1, <1>2 DEF GoClear, TasksTyped, Goto, Others, Awaits, LockPcs, Srv

-----------------------------------------------------------------------------
(* Type correctness                                                        *)

Typed == ManagerTyped /\ ConnectionsTyped /\ TasksTyped

LEMMA CheckTypes ==
    ASSUME Typed, Named, NEW t \in Tasks, Check(t)
    PROVE  Typed'
<1> USE DEF Typed
<1>1. Current(t) \in 0..MaxConns /\ call[t] \in Calls
  BY DEF Check, Enters, Named, Awaits, LockPcs, Current, ManagerTyped, EntriesTyped, TasksTyped
<1>2. CASE Current(t) = 0
  <2>1. GoLaunch(t, call[t]) /\ UNCHANGED <<manager, connections>>
    BY <1>2 DEF Check, manager, connections
  <2> QED
    BY <1>1, <2>1, GoLaunchDoes DEF ManagerTyped, EntriesTyped, ConnectionsTyped, manager,
       entries, connections
<1>3. CASE Use(t, Current(t)) /\ UNCHANGED <<life, lock>>
  BY <1>1, <1>3, UseDoes DEF Check, ManagerTyped, EntriesTyped, ConnectionsTyped, entries
<1>4. CASE /\ ShutdownAndHold(t, {Current(t)}, "recreate") /\ Take(t, Current(t))
           /\ UNCHANGED call
  <2>1. TasksTyped'
    BY <1>1, <1>4 DEF TasksTyped, ShutdownAndHold, Take, Goto, Awaits, HoldPcs
  <2>2. ManagerTyped' /\ ConnectionsTyped'
    BY <1>4, ShutdownKeeps DEF Check, ShutdownAndHold, ManagerTyped, EntriesTyped,
       ConnectionsTyped, entries
  <2> QED
    BY <2>1, <2>2
<1> QED
  BY <1>2, <1>3, <1>4 DEF Check

LEMMA LaunchTypes ==
    ASSUME Typed, NEW t \in Tasks, Launch(t)
    PROVE  Typed'
<1> DEFINE c == NewConn
<1>1. c \in Conns /\ c \in 0..MaxConns
  BY NewConnUnused, MaxConnsAssumption DEF Launch, Conns
<1> HIDE DEF c
<1>2. Wanted(t) \in Configs
  BY ConfigsAssumption DEF Wanted, Typed, TasksTyped, Calls
<1>3. running' \in [Servers -> 0..MaxConns]
  BY <1>1 DEF Launch, Typed, ManagerTyped, EntriesTyped, c
<1>4. ASSUME probing' # probing
      PROVE  probing' = probing \cup {Srv(t)} /\ Srv(t) \in Servers \cup {None}
  BY <1>4 DEF Launch, Srv, Typed, TasksTyped, Calls
<1>5. config' \in [Servers -> Configs \cup {None}]
  BY <1>2 DEF Launch, Typed, ManagerTyped, EntriesTyped
<1>6. ConnectionsTyped'
  BY <1>1 DEF Launch, Typed, ConnectionsTyped, Lives, Asked, c
<1>7. TasksTyped'
  BY <1>1 DEF Launch, Typed, TasksTyped, Goto, Take, Awaits, c
<1>8. Named => probing' \subseteq Servers
  BY <1>4 DEF Launch, Enters, Named, Awaits, LockPcs, Typed, ManagerTyped, EntriesTyped
<1> QED
  BY <1>3, <1>5, <1>6, <1>7, <1>8 DEF Launch, Typed, ManagerTyped, EntriesTyped

LEMMA StepTypes ==
    ASSUME Typed, Named, [Next]_vars
    PROVE  Typed'
<1> USE DEF Typed
<1>0. CASE UNCHANGED vars
  BY <1>0 DEF vars, manager, connections, entries, ManagerTyped, EntriesTyped,
     ConnectionsTyped, TasksTyped
<1>1. ASSUME NEW t \in Tasks, Check(t)
      PROVE  Typed'
  BY <1>1, CheckTypes
<1>2. ASSUME NEW t \in Tasks, Recreate(t)
      PROVE  Typed'
  <2>1. call[t] \in Calls
    BY DEF TasksTyped
  <2> QED
    BY <1>2, <2>1, GoLaunchDoes, PopTyped DEF Recreate, ManagerTyped, ConnectionsTyped,
       connections
<1>3. ASSUME NEW t \in Tasks, Launch(t)
      PROVE  Typed'
  BY <1>3, LaunchTypes
<1>4. ASSUME NEW t \in Tasks, JoinLaunch(t)
      PROVE  Typed'
  <2>1. TasksTyped'
    <3>1. CASE Return(t)
      BY <3>1, ReturnDoes
    <3>2. CASE Take(t, Current(t)) /\ Goto(t, "wait") /\ UNCHANGED call
      <4>1. Current(t) \in 0..MaxConns
        BY <1>4 DEF JoinLaunch, Enters, Named, Awaits, LockPcs, Current, ManagerTyped,
           EntriesTyped
      <4> QED
        BY <3>2, <4>1 DEF TasksTyped, Take, Goto, Awaits
    <3> QED
      BY <1>4, <3>1, <3>2 DEF JoinLaunch
  <2> QED
    BY <1>4, <2>1 DEF JoinLaunch, manager, entries, connections, ManagerTyped, EntriesTyped,
       ConnectionsTyped
<1>5. ASSUME NEW t \in Tasks, Initialized(t)
      PROVE  Typed'
  <2>1. TasksTyped'
    <3>1. CASE Use(t, on[t])
      BY <3>1, UseDoes DEF TasksTyped
    <3>2. CASE \E b \in BOOLEAN : GoClear(t, b) /\ UNCHANGED on
      BY <3>2, GoClearDoes
    <3> QED
      BY <1>5, <3>1, <3>2 DEF Initialized
  <2>2. Srv(t) \in Servers
    BY <1>5 DEF Initialized, Named, Awaits
  <2>3. required' \subseteq Servers
    BY <1>5, <2>2 DEF Initialized, ManagerTyped
  <2> QED
    BY <1>5, <2>1, <2>3 DEF Initialized, entries, connections, ManagerTyped, EntriesTyped,
       ConnectionsTyped
<1>6. ASSUME NEW t \in Tasks, BudgetSpent(t)
      PROVE  Typed'
  BY <1>6, GoClearDoes DEF BudgetSpent, manager, entries, connections, ManagerTyped,
     EntriesTyped, ConnectionsTyped
<1>7. ASSUME NEW t \in Tasks, Clear(t)
      PROVE  Typed'
  BY <1>7, ShutdownKeeps DEF Clear, ShutdownAndHold, Goto, entries, ManagerTyped,
     EntriesTyped, ConnectionsTyped, TasksTyped, Awaits, HoldPcs
<1>8. ASSUME NEW t \in Tasks, Cleared(t)
      PROVE  Typed'
  <2>1. TasksTyped'
    <3>1. [call[t] EXCEPT !.oauth = TRUE, !.retried = TRUE] \in Calls
      BY DEF TasksTyped, Calls
    <3> QED
      BY <1>8, <3>1, GoLaunchDoes, ReturnDoes DEF Cleared
  <2> QED
    BY <1>8, <2>1, PopTyped DEF Cleared, connections, ManagerTyped, ConnectionsTyped
<1>9. ASSUME NEW t \in Tasks, Disconnect(t)
      PROVE  Typed'
  <2>1. Current(t) \in 0..MaxConns /\ call[t] \in Calls
    BY <1>9 DEF Disconnect, Enters, Named, Awaits, LockPcs, Current, ManagerTyped,
       EntriesTyped, TasksTyped
  <2>2. CASE Current(t) = 0
    BY <1>9, <2>1, <2>2, GoLaunchDoes, ReturnDoes DEF Disconnect, AfterDisconnect, entries,
       ManagerTyped, EntriesTyped, ConnectionsTyped
  <2>3. CASE Current(t) # 0
    <3>1. TasksTyped'
      BY <1>9, <2>1, <2>3 DEF Disconnect, ShutdownAndHold, Take, Goto, TasksTyped, Awaits,
         HoldPcs
    <3> QED
      BY <1>9, <2>3, <3>1, ShutdownKeeps DEF Disconnect, ShutdownAndHold, entries,
         ManagerTyped, EntriesTyped, ConnectionsTyped
  <2> QED
    BY <2>2, <2>3
<1>10. ASSUME NEW t \in Tasks, Disconnected(t)
       PROVE  Typed'
  <2>1. call[t] \in Calls
    BY DEF TasksTyped
  <2> QED
    BY <1>10, <2>1, GoLaunchDoes, ReturnDoes, PopTyped DEF Disconnected, AfterDisconnect,
       connections, ManagerTyped, ConnectionsTyped
<1>11. ASSUME NEW t \in Tasks, DisconnectAll(t)
       PROVE  Typed'
  <2>1. CASE Entries = {}
    BY <1>11, <2>1, ReturnDoes DEF DisconnectAll, entries, ManagerTyped, EntriesTyped,
       ConnectionsTyped
  <2>2. CASE Entries # {}
    BY <1>11, <2>2, ShutdownKeeps DEF DisconnectAll, ShutdownAndHold, Goto, entries,
       ManagerTyped, EntriesTyped, ConnectionsTyped, TasksTyped, Awaits, HoldPcs
  <2> QED
    BY <2>1, <2>2
<1>12. ASSUME NEW t \in Tasks, DisconnectedAll(t)
       PROVE  Typed'
  BY <1>12, ReturnDoes, PopTyped DEF DisconnectedAll, connections, ManagerTyped,
     ConnectionsTyped
<1>13. ASSUME NEW t \in Tasks, CallGet(t)
       PROVE  Typed'
  <2>1. call' \in [Tasks -> Calls]
    <3>1. PICK s \in Servers, w \in Given, trigger \in Triggers :
            call' = [call EXCEPT ![t] = [NoCall EXCEPT !.srv = s, !.want = w, !.oauth = trigger]]
      BY <1>13 DEF CallGet
    <3>2. [NoCall EXCEPT !.srv = s, !.want = w, !.oauth = trigger] \in Calls
      BY GivenAssumption, TriggersAssumption DEF NoCall, Calls
    <3> QED
      BY <3>1, <3>2 DEF TasksTyped
  <2> QED
    BY <1>13, <2>1 DEF CallGet, Goto, manager, entries, connections, ManagerTyped,
       EntriesTyped, ConnectionsTyped, TasksTyped, Awaits, LockPcs
<1>14. ASSUME NEW t \in Tasks, CallDisconnect(t)
       PROVE  Typed'
  <2>1. call' \in [Tasks -> Calls]
    <3>1. PICK new \in Calls : call' = [call EXCEPT ![t] = new]
      <4>1. PICK s \in Servers :
              \/ call' = [call EXCEPT ![t] = [NoCall EXCEPT !.srv = s]]
              \/ \E w \in Given, trigger \in Triggers :
                   call' = [call EXCEPT ![t] = [NoCall EXCEPT !.srv = s, !.want = w,
                                                  !.oauth = trigger, !.relaunch = TRUE]]
        BY <1>14 DEF CallDisconnect
      <4>2. [NoCall EXCEPT !.srv = s] \in Calls
        BY DEF NoCall, Calls
      <4>3. \A w \in Given, trigger \in Triggers :
              [NoCall EXCEPT !.srv = s, !.want = w, !.oauth = trigger, !.relaunch = TRUE] \in Calls
        BY GivenAssumption, TriggersAssumption DEF NoCall, Calls
      <4> QED
        BY <4>1, <4>2, <4>3
    <3> QED
      BY <3>1 DEF TasksTyped
  <2> QED
    BY <1>14, <2>1 DEF CallDisconnect, Goto, manager, entries, connections, ManagerTyped,
       EntriesTyped, ConnectionsTyped, TasksTyped, Awaits, LockPcs
<1>15. ASSUME NEW t \in Tasks, CallDisconnectAll(t)
       PROVE  Typed'
  BY <1>15 DEF CallDisconnectAll, Goto, manager, entries, connections, ManagerTyped,
     EntriesTyped, ConnectionsTyped, TasksTyped, Awaits, LockPcs
<1>16. ASSUME NEW t \in Tasks, Finish(t)
       PROVE  Typed'
  BY <1>16, ReturnDoes DEF Finish, manager, entries, connections, ManagerTyped,
     EntriesTyped, ConnectionsTyped
<1>17. ASSUME NEW t \in Tasks, Recover(t)
       PROVE  Typed'
  <2>1. PICK b \in BOOLEAN :
          /\ challenged' = IF b THEN challenged \cup {on[t]} ELSE challenged
          /\ call' = [call EXCEPT ![t] = [@ EXCEPT !.oauth = b, !.relaunch = TRUE]]
    BY <1>17 DEF Recover
  <2>2. on[t] \in Conns
    BY <1>17, MaxConnsAssumption DEF Recover, Conns, TasksTyped, Named
  <2>3. [call[t] EXCEPT !.oauth = b, !.relaunch = TRUE] \in Calls
    BY DEF TasksTyped, Calls
  <2>4. call' \in [Tasks -> Calls]
    BY <2>1, <2>3 DEF TasksTyped
  <2>5. on' \in [Tasks -> 0..MaxConns] /\ pc' \in [Tasks -> Awaits \cup {"idle"}]
    BY <1>17, MaxConnsAssumption DEF Recover, Take, Goto, TasksTyped, Awaits, LockPcs
  <2> QED
    BY <1>17, <2>1, <2>2, <2>4, <2>5 DEF Recover, manager, entries, ManagerTyped,
       EntriesTyped, ConnectionsTyped, TasksTyped
<1>18. ASSUME NEW t \in Tasks, Cancel(t)
       PROVE  Typed'
  BY <1>18, GoClearDoes, ReturnDoes DEF Cancel, entries, connections, ManagerTyped,
     EntriesTyped, ConnectionsTyped
<1>19. ASSUME NEW c \in Conns, Lifecycle(c) \/ Server(c)
       PROVE  Typed'
  <2>1. UNCHANGED <<manager, pc, call, on>>
    BY <1>19 DEF Lifecycle, Server, Begin, Abandon, Leave, Ready, Fail, PingsMissed, Pass
  <2>2. ConnectionsTyped'
    BY <1>19 DEF Lifecycle, Server, Begin, Abandon, Leave, Ready, Fail, PingsMissed, Pass,
       ConnectionsTyped, Lives, Asked, Range
  <2> QED
    BY <2>1, <2>2 DEF manager, entries, ManagerTyped, EntriesTyped, TasksTyped
<1> QED
  BY <1>0, <1>1, <1>2, <1>3, <1>4, <1>5, <1>6, <1>7, <1>8, <1>9, <1>10, <1>11, <1>12,
     <1>13, <1>14, <1>15, <1>16, <1>17, <1>18, <1>19 DEF Next, Proceed, Call

-----------------------------------------------------------------------------
(* Who holds the lock, and what for                                        *)

(* What a step does to the program points of tasks other than its own.     *)
LEMMA OneMoves ==
    ASSUME Typed, NEW t \in Tasks, Proceed(t) \/ Call(t) \/ Cancel(t)
    PROVE  Others(t)
<1> USE DEF Typed
<1>1. ASSUME NEW b \in BOOLEAN, GoClear(t, b), UNCHANGED on
      PROVE  Others(t)
  BY <1>1, GoClearDoes
<1>2. ASSUME NEW c, GoLaunch(t, c)
      PROVE  Others(t)
  BY <1>2 DEF GoLaunch, Goto, Take, Others, TasksTyped
<1>3. ASSUME NEW c, Use(t, c)
      PROVE  Others(t)
  BY <1>3 DEF Use, Goto, Take, Others, TasksTyped
<1>4. ASSUME NEW l, Goto(t, l), UNCHANGED call, UNCHANGED on \/ \E c : Take(t, c)
      PROVE  Others(t)
  BY <1>4 DEF Goto, Take, Others, TasksTyped
<1>5. CASE Check(t)
  BY <1>2, <1>3, <1>4, <1>5 DEF Check, ShutdownAndHold
<1>6. CASE Launch(t)
  BY <1>4, <1>6 DEF Launch
<1>7. CASE JoinLaunch(t)
  BY <1>4, <1>7, ReturnDoes DEF JoinLaunch
<1>8. CASE Initialized(t)
  BY <1>1, <1>3, <1>8 DEF Initialized
<1>9. CASE Disconnect(t)
  BY <1>2, <1>4, <1>9, ReturnDoes DEF Disconnect, AfterDisconnect, ShutdownAndHold
<1>10. CASE DisconnectAll(t)
  BY <1>4, <1>10, ReturnDoes DEF DisconnectAll, ShutdownAndHold
<1>11. CASE Recreate(t) \/ Cleared(t) \/ Disconnected(t) \/ DisconnectedAll(t) \/ Finish(t)
  BY <1>2, <1>11, ReturnDoes DEF Recreate, Cleared, Disconnected, DisconnectedAll,
     AfterDisconnect, Finish
<1>12. CASE BudgetSpent(t) \/ Cancel(t)
  BY <1>1, <1>12, ReturnDoes DEF BudgetSpent, Cancel
<1>13. CASE Clear(t) \/ CallDisconnectAll(t)
  BY <1>4, <1>13 DEF Clear, CallDisconnectAll, ShutdownAndHold
<1>14. CASE CallGet(t) \/ CallDisconnect(t) \/ Recover(t)
  BY <1>14 DEF CallGet, CallDisconnect, Recover, Goto, Take, Others, TasksTyped
<1> QED
  BY <1>5, <1>6, <1>7, <1>8, <1>9, <1>10, <1>11, <1>12, <1>13, <1>14 DEF Proceed, Call

(* The lock is passed on by its holder only, and taken to shut down.       *)
LEMMA LockMoves ==
    ASSUME Typed, Holding, NEW t \in Tasks, Proceed(t) \/ Call(t) \/ Cancel(t)
    PROVE  /\ lock' # lock => (lock = None /\ lock' = t) \/ (lock = t /\ lock' = None)
           /\ pc'[t] \in HoldPcs => lock' = t
<1> USE TasksAssumption DEF Typed
<1> DEFINE Moves == /\ lock' # lock => (lock = None /\ lock' = t) \/ (lock = t /\ lock' = None)
                    /\ pc'[t] \in HoldPcs => lock' = t
<1>1. ASSUME NEW c, GoLaunch(t, c)
      PROVE  pc'[t] = "launch"
  BY <1>1 DEF GoLaunch, Goto, TasksTyped
<1>2. ASSUME NEW c, Use(t, c)
      PROVE  pc'[t] = "use"
  BY <1>2 DEF Use, Goto, TasksTyped
<1>3. ASSUME NEW b, GoClear(t, b)
      PROVE  pc'[t] = "clear"
  BY <1>3 DEF GoClear, Goto, TasksTyped
<1>4. ASSUME NEW C, NEW l, ShutdownAndHold(t, C, l)
      PROVE  lock' = t
  BY <1>4 DEF ShutdownAndHold
<1>5. CASE Check(t)
  BY <1>1, <1>2, <1>4, <1>5 DEF Check, Enters, HoldPcs
<1>6. CASE Recreate(t) \/ Cleared(t) \/ Disconnected(t) \/ DisconnectedAll(t)
  <2>1. lock = t /\ lock' = None
    BY <1>6 DEF Recreate, Cleared, Disconnected, DisconnectedAll, Holding, HoldPcs
  <2>2. pc'[t] \in {"launch", "idle"}
    BY <1>1, <1>6, ReturnDoes DEF Recreate, Cleared, Disconnected, DisconnectedAll,
       AfterDisconnect
  <2> QED
    BY <2>1, <2>2 DEF HoldPcs
<1>7. CASE Launch(t) \/ JoinLaunch(t)
  BY <1>7, ReturnDoes DEF Launch, JoinLaunch, Goto, TasksTyped, HoldPcs, manager
<1>8. CASE Initialized(t) \/ BudgetSpent(t)
  BY <1>2, <1>3, <1>8 DEF Initialized, BudgetSpent, HoldPcs, manager
<1>9. CASE Clear(t)
  BY <1>4, <1>9 DEF Clear, Enters
<1>10. CASE Disconnect(t) \/ DisconnectAll(t)
  BY <1>1, <1>4, <1>10, ReturnDoes DEF Disconnect, DisconnectAll, AfterDisconnect, Enters,
     HoldPcs
<1>11. CASE Call(t)
  BY <1>11, ReturnDoes DEF Call, CallGet, CallDisconnect, CallDisconnectAll, Finish, Recover,
     Goto, TasksTyped, HoldPcs, manager
<1>12. CASE Cancel(t)
  BY <1>3, <1>12, ReturnDoes DEF Cancel, HoldPcs
<1> QED
  BY <1>5, <1>6, <1>7, <1>8, <1>9, <1>10, <1>11, <1>12 DEF Proceed

LEMMA StepHolding ==
    ASSUME Typed, Holding, [Next]_vars
    PROVE  Holding'
<1>1. CASE UNCHANGED <<lock, pc>>
  BY <1>1 DEF Holding
<1>2. ASSUME NEW t \in Tasks, Proceed(t) \/ Call(t) \/ Cancel(t)
      PROVE  Holding'
  BY <1>2, OneMoves, LockMoves, TasksAssumption DEF Holding, Others
<1>3. ASSUME NEW c \in Conns, Lifecycle(c) \/ Server(c)
      PROVE  UNCHANGED <<lock, pc>>
  BY <1>3 DEF Lifecycle, Server, Begin, Abandon, Leave, Ready, Fail, PingsMissed, Pass, manager
<1> QED
  BY <1>1, <1>2, <1>3 DEF Next, vars, manager

(* A call keeps the name of its server, and what it waits for, to its end. *)
LEMMA StepNamed ==
    ASSUME Typed, Named, [Next]_vars
    PROVE  Named'
<1> USE DEF Typed
<1> DEFINE Fits(t) ==
             /\ pc'[t] \in (Awaits \ {"disconnectAll", "disconnectingAll"})
                  => call'[t].srv \in Servers
             /\ pc'[t] \in {"wait", "use"} => on'[t] # 0
<1>1. ASSUME NEW t \in Tasks, NEW c \in Calls, c.srv \in Servers, GoLaunch(t, c)
      PROVE  Fits(t)
  BY <1>1, GoLaunchDoes
<1>2. ASSUME NEW t \in Tasks, NEW c \in 0..MaxConns, c # 0, Srv(t) \in Servers, Use(t, c)
      PROVE  Fits(t)
  BY <1>2, UseDoes DEF Use, Take, TasksTyped
<1>3. ASSUME NEW t \in Tasks, NEW b \in BOOLEAN, Srv(t) \in Servers, GoClear(t, b), UNCHANGED on
      PROVE  Fits(t)
  BY <1>3, GoClearDoes
<1>4. ASSUME NEW t \in Tasks, Return(t)
      PROVE  Fits(t)
  BY <1>4, ReturnDoes DEF Awaits, LockPcs, HoldPcs
<1>5. ASSUME NEW t \in Tasks, NEW l \in Awaits \ {"wait", "use"},
             l \in {"disconnectAll", "disconnectingAll"} \/ Srv(t) \in Servers,
             Goto(t, l), UNCHANGED call
      PROVE  Fits(t)
  BY <1>5 DEF Goto, TasksTyped, Srv
<1>6. ASSUME NEW t \in Tasks, Proceed(t) \/ Call(t) \/ Cancel(t)
      PROVE  Fits(t)
  <2>1. pc[t] \in (Awaits \ {"disconnectAll", "disconnectingAll"}) =>
            Srv(t) \in Servers /\ call[t].srv \in Servers
    BY DEF Named, Srv
  <2>2. call[t] \in Calls /\ on[t] \in 0..MaxConns
    BY DEF TasksTyped
  <2> USE <2>1, <2>2 DEF Enters
  <2>3. CASE Check(t)
    <3>1. Current(t) \in 0..MaxConns
      BY <2>3 DEF Check, Current, ManagerTyped, EntriesTyped, Awaits, LockPcs
    <3> QED
      BY <1>1, <1>2, <1>5, <2>3, <3>1 DEF Check, ShutdownAndHold, Awaits, LockPcs, HoldPcs
  <2>4. CASE Recreate(t)
    BY <1>1, <2>4 DEF Recreate, Awaits, HoldPcs
  <2>5. CASE Launch(t)
    <3>1. NewConn \in Conns
      BY <2>5, NewConnUnused DEF Launch
    <3> QED
      BY <2>5, <3>1, MaxConnsAssumption DEF Launch, Take, Goto, TasksTyped, Conns, Srv, Awaits,
         LockPcs
  <2>6. CASE JoinLaunch(t)
    <3>1. CASE Take(t, Current(t)) /\ Goto(t, "wait") /\ UNCHANGED call
      BY <2>6, <3>1 DEF JoinLaunch, Take, Goto, TasksTyped, Srv, Awaits, LockPcs
    <3> QED
      BY <1>4, <2>6, <3>1 DEF JoinLaunch
  <2>7. CASE Initialized(t)
    <3>1. on[t] # 0
      BY <2>7 DEF Initialized, Named
    <3> QED
      BY <1>2, <1>3, <2>7, <3>1 DEF Initialized, Awaits
  <2>8. CASE BudgetSpent(t)
    BY <1>3, <2>8 DEF BudgetSpent, Awaits
  <2>9. CASE Clear(t)
    BY <1>5, <2>9 DEF Clear, ShutdownAndHold, Awaits, LockPcs, HoldPcs
  <2>10. CASE Cleared(t)
    <3>1. LET c == [call[t] EXCEPT !.oauth = TRUE, !.retried = TRUE]
          IN c \in Calls /\ c.srv = call[t].srv
      BY DEF Calls
    <3> QED
      BY <1>1, <1>4, <2>10, <3>1 DEF Cleared, Awaits, HoldPcs
  <2>11. CASE Disconnect(t)
    BY <1>1, <1>4, <1>5, <2>11 DEF Disconnect, AfterDisconnect, ShutdownAndHold, Awaits, LockPcs,
       HoldPcs
  <2>12. CASE Disconnected(t)
    BY <1>1, <1>4, <2>12 DEF Disconnected, AfterDisconnect, Awaits, HoldPcs
  <2>13. CASE DisconnectAll(t)
    BY <1>4, <1>5, <2>13 DEF DisconnectAll, ShutdownAndHold, Awaits, HoldPcs
  <2>14. CASE DisconnectedAll(t) \/ Finish(t)
    BY <1>4, <2>14 DEF DisconnectedAll, Finish
  <2>15. CASE CallGet(t)
    <3>1. PICK s \in Servers, w \in Given, trigger \in Triggers :
            call' = [call EXCEPT ![t] = [NoCall EXCEPT !.srv = s, !.want = w, !.oauth = trigger]]
      BY <2>15 DEF CallGet
    <3>2. call'[t].srv = s
      BY <3>1 DEF NoCall, TasksTyped
    <3> QED
      BY <2>15, <3>2 DEF CallGet, Goto, TasksTyped
  <2>16. CASE CallDisconnect(t)
    <3>1. PICK s \in Servers :
            \/ call' = [call EXCEPT ![t] = [NoCall EXCEPT !.srv = s]]
            \/ \E w \in Given, trigger \in Triggers :
                 call' = [call EXCEPT ![t] = [NoCall EXCEPT !.srv = s, !.want = w,
                                                !.oauth = trigger, !.relaunch = TRUE]]
      BY <2>16 DEF CallDisconnect
    <3>2. call'[t].srv = s
      BY <3>1 DEF NoCall, TasksTyped
    <3> QED
      BY <2>16, <3>2 DEF CallDisconnect, Goto, TasksTyped
  <2>17. CASE CallDisconnectAll(t)
    BY <1>5, <2>17 DEF CallDisconnectAll, Awaits, LockPcs
  <2>18. CASE Recover(t)
    <3>1. PICK b \in BOOLEAN :
            call' = [call EXCEPT ![t] = [@ EXCEPT !.oauth = b, !.relaunch = TRUE]]
      BY <2>18 DEF Recover
    <3>2. call'[t].srv = call[t].srv
      BY <3>1 DEF TasksTyped, Calls
    <3> QED
      BY <2>18, <3>2 DEF Recover, Goto, TasksTyped, Awaits
  <2>19. CASE Cancel(t)
    BY <1>3, <1>4, <2>19 DEF Cancel, Awaits
  <2> QED
    BY <1>6, <2>3, <2>4, <2>5, <2>6, <2>7, <2>8, <2>9, <2>10, <2>11, <2>12, <2>13, <2>14,
       <2>15, <2>16, <2>17, <2>18, <2>19 DEF Proceed, Call
<1>7. ASSUME NEW t \in Tasks, Proceed(t) \/ Call(t) \/ Cancel(t)
      PROVE  Named'
  <2>1. ASSUME NEW u \in Tasks, u # t
        PROVE  pc'[u] = pc[u] /\ on'[u] = on[u] /\ call'[u] = call[u]
    BY <1>7, <2>1, OneMoves DEF Others
  <2>2. Fits(t)
    BY <1>6, <1>7
  <2> QED
    BY <2>1, <2>2 DEF Named, Srv
<1>8. CASE UNCHANGED <<pc, call, on>>
  BY <1>8 DEF Named, Srv
<1>9. ASSUME NEW c \in Conns, Lifecycle(c) \/ Server(c)
      PROVE  UNCHANGED <<pc, call, on>>
  BY <1>9 DEF Lifecycle, Server, Begin, Abandon, Leave, Ready, Fail, PingsMissed, Pass
<1> QED
  BY <1>7, <1>8, <1>9 DEF Next, vars

(* The entries are changed by a task with the lock, or by a launch.        *)
LEMMA EntriesMove ==
    ASSUME Typed, Holding, NEW t \in Tasks, Proceed(t) \/ Call(t) \/ Cancel(t)
    PROVE  running' # running => lock \in {None, t}
<1>1. CASE Recreate(t) \/ Cleared(t) \/ Disconnected(t) \/ DisconnectedAll(t)
  BY <1>1 DEF Recreate, Cleared, Disconnected, DisconnectedAll, Holding, HoldPcs
<1>2. CASE Launch(t)
  BY <1>2 DEF Launch, Enters
<1>3. CASE UNCHANGED running
  BY <1>3
<1> QED
  BY <1>1, <1>2, <1>3 DEF Proceed, Call, Cancel, Check, JoinLaunch, Initialized, BudgetSpent,
     Clear, Disconnect, DisconnectAll, CallGet, CallDisconnect, CallDisconnectAll, Finish,
     Recover, manager, entries

(* No entry changes while its lifecycle is awaited.                        *)
LEMMA StepAwaiting ==
    ASSUME Typed, Holding, Awaiting, [Next]_vars
    PROVE  Awaiting'
<1> USE DEF Typed
<1>1. CASE UNCHANGED <<running, pc, call, on>>
  BY <1>1 DEF Awaiting, Current, Srv
<1>2. ASSUME NEW t \in Tasks, Proceed(t) \/ Call(t) \/ Cancel(t)
      PROVE  Awaiting'
  <2>1. ASSUME NEW u \in Tasks, u # t, pc'[u] \in {"recreate", "disconnecting"}
        PROVE  on'[u] = Current(u)'
    <3>1. lock = u
      BY <1>2, <2>1, OneMoves DEF Others, Holding, HoldPcs
    <3>2. running' = running
      BY <1>2, <2>1, <3>1, EntriesMove, TasksAssumption
    <3> QED
      BY <1>2, <2>1, <3>2, OneMoves DEF Others, Awaiting, Current, Srv
  <2>2. ASSUME pc'[t] \in {"recreate", "disconnecting"}
        PROVE  on'[t] = Current(t)'
    <3>1. CASE Check(t)
      <4>1. Take(t, Current(t)) /\ UNCHANGED call
        BY <2>2, <3>1 DEF Check, GoLaunch, Use, Goto, TasksTyped
      <4> QED
        BY <3>1, <4>1 DEF Check, entries, Take, TasksTyped, Current, Srv
    <3>2. CASE Disconnect(t)
      <4>1. Take(t, Current(t)) /\ UNCHANGED call
        BY <2>2, <3>2, ReturnDoes DEF Disconnect, AfterDisconnect, GoLaunch, Goto, TasksTyped
      <4> QED
        BY <3>2, <4>1 DEF Disconnect, entries, Take, TasksTyped, Current, Srv
    <3>3. CASE ~Check(t) /\ ~Disconnect(t)
      <4>1. pc'[t] \notin {"recreate", "disconnecting"}
        BY <1>2, <3>3, ReturnDoes DEF Proceed, Call, Cancel, Recreate, Launch, JoinLaunch, Initialized,
           BudgetSpent, Clear, Cleared, Disconnected, DisconnectAll, DisconnectedAll, CallGet,
           CallDisconnect, CallDisconnectAll, Finish, Recover, GoLaunch, GoClear, Use,
           ShutdownAndHold, AfterDisconnect, Goto, TasksTyped
      <4> QED
        BY <2>2, <4>1
    <3> QED
      BY <3>1, <3>2, <3>3
  <2> QED
    BY <2>1, <2>2 DEF Awaiting
<1>3. ASSUME NEW c \in Conns, Lifecycle(c) \/ Server(c)
      PROVE  UNCHANGED <<running, pc, call, on>>
  BY <1>3 DEF Lifecycle, Server, Begin, Abandon, Leave, Ready, Fail, PingsMissed, Pass, manager,
     entries
<1> QED
  BY <1>1, <1>2, <1>3 DEF Next, vars, manager, entries

-----------------------------------------------------------------------------
(* One runtime                                                             *)

(* A step that revives no connection and drops only entries that are over.  *)
LEMMA OneRuntimeKept ==
    ASSUME Typed, OneRuntime,
           \A c \in Conns : Over(c) => Over(c)',
           \A s \in Servers : running'[s] = running[s] \/ Over(running[s]),
           running' \in [Servers -> 0..MaxConns]
    PROVE  OneRuntime'
<1>1. SUFFICES ASSUME NEW c \in Conns, ~Over(c)'
               PROVE  c \in Range(running)'
  BY DEF OneRuntime
<1>2. PICK s \in Servers : running[s] = c
  BY <1>1 DEF OneRuntime, Range, Typed, ManagerTyped, EntriesTyped
<1>3. running'[s] = c
  BY <1>1, <1>2
<1> QED
  BY <1>3 DEF Range

(* Only entries whose lifecycle is over are popped.                        *)
LEMMA StepOneRuntime ==
    ASSUME Typed, Typed', Named, Awaiting, OneRuntime, [Next]_vars
    PROVE  OneRuntime'
<1> USE DEF Typed
<1>1. running \in [Servers -> 0..MaxConns] /\ running' \in [Servers -> 0..MaxConns]
  BY DEF ManagerTyped, EntriesTyped
<1>2. ASSUME UNCHANGED running, \/ UNCHANGED life
                                \/ \E C : Shutdown(C)
      PROVE  OneRuntime'
  <2>1. \A c \in Conns : Over(c) => Over(c)'
    BY <1>2, ShutdownKeeps DEF Over
  <2> QED
    BY <1>1, <1>2, <2>1, OneRuntimeKept
<1>3. ASSUME UNCHANGED life, NEW S, Pop(S), \A s \in S \cap Servers : Over(running[s])
      PROVE  OneRuntime'
  <2>1. \A c \in Conns : Over(c) => Over(c)'
    BY <1>3 DEF Over
  <2>2. \A s \in Servers : running'[s] = running[s] \/ Over(running[s])
    BY <1>3 DEF Pop
  <2> QED
    BY <1>1, <2>1, <2>2, OneRuntimeKept
<1>4. ASSUME NEW t \in Tasks, Launch(t)
      PROVE  OneRuntime'
  <2>1. Srv(t) \in Servers /\ NewConn \in Conns
    BY <1>4, NewConnUnused DEF Launch, Enters, Named, Awaits, LockPcs
  <2>2. running'[Srv(t)] = NewConn /\ running[Srv(t)] = 0
    BY <1>1, <1>4, <2>1 DEF Launch, Current
  <2>3. ASSUME NEW c \in Conns, c # NewConn, ~Over(c)'
        PROVE  c \in Range(running)'
    <3>1. ~Over(c) /\ c # 0
      BY <1>4, <2>3, MaxConnsAssumption DEF Launch, Over, ConnectionsTyped, Conns
    <3>2. PICK s \in Servers : running[s] = c
      BY <1>1, <3>1 DEF OneRuntime, Range
    <3>3. running'[s] = c
      BY <1>1, <1>4, <2>2, <3>1, <3>2 DEF Launch
    <3> QED
      BY <1>1, <3>3 DEF Range
  <2>4. NewConn \in Range(running)'
    BY <1>1, <2>1, <2>2 DEF Range
  <2> QED
    BY <2>3, <2>4 DEF OneRuntime
<1>5. ASSUME NEW t \in Tasks, Recreate(t) \/ Disconnected(t)
      PROVE  OneRuntime'
  <2>1. Over(running[Srv(t)])
    BY <1>5 DEF Recreate, Disconnected, Awaiting, Current
  <2> QED
    BY <1>3, <1>5, <2>1 DEF Recreate, Disconnected, connections
<1>6. ASSUME NEW t \in Tasks, Cleared(t)
      PROVE  OneRuntime'
  BY <1>3, <1>6 DEF Cleared, Stale, connections
<1>7. ASSUME NEW t \in Tasks, DisconnectedAll(t)
      PROVE  OneRuntime'
  <2>2. \A s \in Servers : running'[s] = running[s] \/ Over(running[s])
    BY <1>1, <1>7 DEF DisconnectedAll, Pop, Entries, Range
  <2>3. \A c \in Conns : Over(c) => Over(c)'
    BY <1>7 DEF DisconnectedAll, connections, Over
  <2> QED
    BY <1>1, <2>2, <2>3, OneRuntimeKept
<1>8. ASSUME NEW t \in Tasks, Proceed(t) \/ Call(t) \/ Cancel(t),
             ~Launch(t), ~Recreate(t), ~Disconnected(t), ~Cleared(t), ~DisconnectedAll(t)
      PROVE  OneRuntime'
  <2>1. UNCHANGED running /\ (UNCHANGED life \/ \E C : Shutdown(C))
    BY <1>8 DEF Proceed, Call, Cancel, Check, JoinLaunch, Initialized, BudgetSpent, Clear,
       Disconnect, DisconnectAll, CallGet, CallDisconnect, CallDisconnectAll, Finish, Recover,
       ShutdownAndHold, manager, entries, connections
  <2> QED
    BY <1>2, <2>1
<1>9. ASSUME NEW c \in Conns, Lifecycle(c) \/ Server(c)
      PROVE  OneRuntime'
  <2>1. UNCHANGED running /\ \A d \in Conns : Over(d) => Over(d)'
    BY <1>9 DEF Lifecycle, Server, Begin, Abandon, Leave, Ready, Fail, PingsMissed, Pass, manager,
       entries, Over, ConnectionsTyped
  <2> QED
    BY <1>1, <2>1, OneRuntimeKept
<1>10. CASE UNCHANGED vars
  BY <1>2, <1>10 DEF vars, manager, entries, connections
<1> QED
  BY <1>4, <1>5, <1>6, <1>7, <1>8, <1>9, <1>10 DEF Next

-----------------------------------------------------------------------------
(* The inductive invariant                                                 *)

IInv == Typed /\ Holding /\ Named /\ Awaiting /\ OneRuntime

LEMMA InitIInv == Init => IInv
<1> SUFFICES ASSUME Init PROVE IInv
  OBVIOUS
<1>1. Typed
  BY NoCallTyped, MaxConnsAssumption DEF Init, Typed, ManagerTyped, EntriesTyped,
     ConnectionsTyped, TasksTyped, Lives, Asked
<1> QED
  BY <1>1 DEF Init, IInv, Holding, Named, Awaiting, OneRuntime, Over, HoldPcs, Awaits, LockPcs

LEMMA StepIInv == IInv /\ [Next]_vars => IInv'
  BY StepTypes, StepHolding, StepNamed, StepAwaiting, StepOneRuntime DEF IInv

LEMMA Invariant == Spec => []IInv
  BY InitIInv, StepIInv, PTL DEF Spec

(* Every variable stays in its domain, whatever callers, servers and        *)
(* cancellations do to the manager.                                         *)
THEOREM TypeCorrect == Spec => []TypeOK
<1>1. IInv => TypeOK
  BY TypeParts DEF IInv, Typed
<1> QED
  BY <1>1, Invariant, PTL

(* A connection that is not completely shut down is the registered one of  *)
(* its server: launches, reconnects, retries, disconnects and the          *)
(* cancellation of any of them leave no second runtime behind.             *)
THEOREM OneRuntimeSafe == Spec => []OneRuntime
  BY Invariant, PTL DEF IInv

-----------------------------------------------------------------------------
(* Working connections                                                     *)

(* A working connection is told to leave by the one who takes the lock.    *)
LEMMA StepWorkingKept ==
    ASSUME IInv, [Next]_vars, NEW c \in Conns, life[c] = "ready", life'[c] = "leaving"
    PROVE  \E t \in Tasks :
             /\ lock' = t
             /\ \/ pc[t] \in {"disconnect", "disconnectAll"}
                \/ pc[t] = "check" /\ ~Suits(t)
                \/ pc[t] = "clear" /\ on[t] = c
<1> USE DEF IInv, Typed, ConnectionsTyped
<1>1. ASSUME NEW C, Shutdown(C)
      PROVE  c \in C
  BY <1>1 DEF Shutdown
<1>2. ASSUME NEW t \in Tasks, Check(t)
      PROVE  lock' = t /\ pc[t] = "check" /\ ~Suits(t)
  BY <1>1, <1>2 DEF Check, Enters, ShutdownAndHold, Healthy
<1>3. ASSUME NEW t \in Tasks, Clear(t)
      PROVE  lock' = t /\ pc[t] = "clear" /\ on[t] = c
  BY <1>1, <1>3 DEF Clear, Enters, ShutdownAndHold
<1>4. ASSUME NEW t \in Tasks, Disconnect(t) \/ DisconnectAll(t)
      PROVE  lock' = t /\ pc[t] \in {"disconnect", "disconnectAll"}
  BY <1>4 DEF Disconnect, DisconnectAll, Enters, ShutdownAndHold
<1>5. ASSUME NEW t \in Tasks, Launch(t)
      PROVE  FALSE
  <2>1. NewConn \in Conns
    BY <1>5, NewConnUnused DEF Launch
  <2> QED
    BY <1>5, <2>1 DEF Launch
<1>6. ASSUME NEW t \in Tasks, Proceed(t) \/ Call(t) \/ Cancel(t),
             ~Check(t), ~Clear(t), ~Disconnect(t), ~DisconnectAll(t), ~Launch(t)
      PROVE  UNCHANGED life
  BY <1>6 DEF Proceed, Call, Cancel, Recreate, JoinLaunch, Initialized, BudgetSpent, Cleared,
     Disconnected, DisconnectedAll, CallGet, CallDisconnect, CallDisconnectAll, Finish, Recover,
     connections
<1>7. ASSUME NEW d \in Conns, Lifecycle(d) \/ Server(d)
      PROVE  FALSE
  BY <1>7 DEF Lifecycle, Server, Begin, Abandon, Leave, Ready, Fail, PingsMissed, Pass
<1>8. ~UNCHANGED life
  OBVIOUS
<1> QED
  BY <1>2, <1>3, <1>4, <1>5, <1>6, <1>7, <1>8 DEF Next, vars, connections

(* A working connection is only taken from its users by a disconnect, by a  *)
(* caller with other settings, or by one whose own wait for it was cut short. *)
THEOREM WorkingKeptSafe == Spec => WorkingKept
<1>1. IInv /\ [Next]_vars =>
        [\A c \in Conns : life[c] = "ready" /\ life'[c] = "leaving" =>
           \E t \in Tasks :
              /\ lock' = t
              /\ \/ pc[t] \in {"disconnect", "disconnectAll"}
                 \/ pc[t] = "check" /\ ~Suits(t)
                 \/ pc[t] = "clear" /\ on[t] = c]_vars
  BY StepWorkingKept
<1> QED
  BY <1>1, Invariant, PTL DEF Spec, WorkingKept

-----------------------------------------------------------------------------
(* A call comes to an end, and so does the wait for the lock.              *)

(* What has been told to end, or has ended: its lifecycle task needs no     *)
(* server to be over.                                                      *)
Ending(c) == life[c] \in {"barred", "cancelled", "leaving", "failing", "done", "lost"}

(* The connections whose end a task awaits with the lock held.             *)
Awaited(t) == IF pc[t] = "disconnectingAll" THEN Entries ELSE {on[t]}

(* The manager's lock is held only by a task that awaits lifecycles which are *)
(* already told to end, so nothing but those stands between it and release. *)
LockPassedOn ==
    lock # None => /\ pc[lock] \in HoldPcs
                   /\ \A c \in Awaited(lock) \cap Conns : Ending(c)

(* The steps of a call that are left to its task: a retry goes through the  *)
(* launch once more.                                                       *)
Left(t) ==
    CASE pc[t] \in {"idle", "use"} -> 0
      [] pc[t] \in {"clearing", "disconnectingAll"} -> 1
      [] pc[t] \in {"clear", "disconnectAll"} -> 2
      [] pc[t] = "wait" -> 3
      [] pc[t] = "launch" -> 4
      [] pc[t] \in {"recreate", "disconnecting"} -> 5
      [] pc[t] \in {"check", "disconnect"} -> 6
StepsLeft(t) ==
    IF pc[t] \in {"idle", "use"} THEN 0
    ELSE Left(t) + (IF call[t].retried THEN 0 ELSE 4)

(* A step of a call leaves fewer steps of it, and nothing gives it more.   *)
CallShortens ==
    [][\A t \in Tasks :
          /\ Proceed(t) => StepsLeft(t)' < StepsLeft(t)
          /\ pc[t] \notin {"idle", "use"} => StepsLeft(t)' <= StepsLeft(t)]_vars

(* A relaunch that is yet to come is the first one.                       *)
Retrying ==
    \A t \in Tasks :
        pc[t] \in {"clear", "clearing"} /\ call[t].relaunch => ~call[t].retried

(* What GoLaunch and GoClear make of a call.                                *)
LEMMA GoLaunchCalls ==
    ASSUME TasksTyped, NEW t \in Tasks, NEW c \in Calls, GoLaunch(t, c)
    PROVE  /\ pc'[t] = "launch" /\ on'[t] = 0
           /\ call'[t].retried = c.retried /\ ~call'[t].relaunch
<1>1. /\ [c EXCEPT !.oauth = @ \/ c.srv \in required, !.relaunch = FALSE].retried = c.retried
      /\ [c EXCEPT !.oauth = @ \/ c.srv \in required, !.relaunch = FALSE].relaunch = FALSE
  BY DEF Calls
<1> QED
  BY <1>1 DEF GoLaunch, TasksTyped, Goto, Take

(* The retries of a call are not changed by clearing its connection.       *)
LEMMA GoClearCalls ==
    ASSUME TasksTyped, NEW t \in Tasks, NEW b \in BOOLEAN, GoClear(t, b)
    PROVE  /\ pc'[t] = "clear"
           /\ call'[t].retried = call[t].retried /\ call'[t].relaunch = b
<1>1. /\ [call[t] EXCEPT !.relaunch = b].retried = call[t].retried
      /\ [call[t] EXCEPT !.relaunch = b].relaunch = b
  BY DEF TasksTyped, Calls
<1> QED
  BY <1>1 DEF GoClear, TasksTyped, Goto

(* The steps of a call, one after another. *)
Steps(t) ==
    \/ pc'[t] \in {"idle", "use"}
    \/ /\ pc[t] \in {"check", "recreate", "disconnect", "disconnecting"} /\ pc'[t] = "launch"
       /\ call'[t].retried = call[t].retried
    \/ /\ <<pc[t], pc'[t]>> \in {<<"check", "recreate">>, <<"launch", "wait">>,
             <<"clear", "clearing">>, <<"disconnect", "disconnecting">>,
             <<"disconnectAll", "disconnectingAll">>}
       /\ call'[t] = call[t]
    \/ /\ pc[t] = "wait" /\ pc'[t] = "clear" /\ call'[t].retried = call[t].retried
       /\ call'[t].relaunch => ~call[t].retried
    \/ /\ pc[t] = "clearing" /\ pc'[t] = "launch"
       /\ call[t].relaunch /\ call'[t].retried

(* Each step a task takes in a call is one of those.                       *)
LEMMA ProceedSteps ==
    ASSUME Typed, NEW t \in Tasks, Proceed(t)
    PROVE  Steps(t) /\ pc[t] \notin {"idle", "use"}
<1> USE DEF Typed
<1>0. call[t] \in Calls
  BY DEF TasksTyped
<1>1. ASSUME NEW l, Goto(t, l)
      PROVE  pc'[t] = l
  BY <1>1 DEF Goto, TasksTyped
<1>2. ASSUME NEW C, NEW l, ShutdownAndHold(t, C, l)
      PROVE  pc'[t] = l
  BY <1>1, <1>2 DEF ShutdownAndHold
<1>3. ASSUME NEW c, Use(t, c)
      PROVE  pc'[t] = "use"
  BY <1>1, <1>3 DEF Use
<1>4. CASE Check(t)
  BY <1>0, <1>2, <1>3, <1>4, GoLaunchCalls DEF Check, Enters, Steps
<1>5. CASE Recreate(t)
  BY <1>0, <1>5, GoLaunchCalls DEF Recreate, Steps
<1>6. CASE Launch(t) \/ JoinLaunch(t)
  BY <1>1, <1>6, ReturnDoes DEF Launch, JoinLaunch, Enters, Steps
<1>7. CASE Initialized(t)
  <2>1. CASE Use(t, on[t])
    BY <1>3, <1>7, <2>1 DEF Initialized, Steps
  <2>2. CASE ~Use(t, on[t])
    <3> DEFINE retry == ~call[t].retried /\ ShouldRetry(t)
    <3>1. GoClear(t, retry) /\ pc[t] = "wait" /\ retry \in BOOLEAN
      BY <1>7, <2>2 DEF Initialized
    <3>2. retry => ~call[t].retried
      OBVIOUS
    <3> HIDE DEF retry
    <3> QED
      BY <3>1, <3>2, GoClearCalls DEF Steps
  <2> QED
    BY <2>1, <2>2
<1>8. CASE BudgetSpent(t)
  BY <1>8, GoClearCalls DEF BudgetSpent, Steps
<1>9. CASE Clear(t)
  BY <1>2, <1>9 DEF Clear, Enters, Steps
<1>10. CASE Cleared(t)
  <2>1. CASE call[t].relaunch
    <3> DEFINE c == [call[t] EXCEPT !.oauth = TRUE, !.retried = TRUE]
    <3>1. c \in Calls /\ c.retried
      BY <1>0 DEF Calls
    <3>2. GoLaunch(t, c) /\ pc[t] = "clearing"
      BY <1>10, <2>1 DEF Cleared
    <3> HIDE DEF c
    <3> QED
      BY <2>1, <3>1, <3>2, GoLaunchCalls DEF Steps
  <2>2. CASE ~call[t].relaunch
    BY <1>10, <2>2, ReturnDoes DEF Cleared, Steps
  <2> QED
    BY <2>1, <2>2
<1>11. CASE Disconnect(t)
  BY <1>0, <1>2, <1>11, GoLaunchCalls, ReturnDoes DEF Disconnect, AfterDisconnect, Enters, Steps
<1>12. CASE Disconnected(t)
  BY <1>0, <1>12, GoLaunchCalls, ReturnDoes DEF Disconnected, AfterDisconnect, Steps
<1>13. CASE DisconnectAll(t)
  BY <1>2, <1>13, ReturnDoes DEF DisconnectAll, Enters, Steps
<1>14. CASE DisconnectedAll(t)
  BY <1>14, ReturnDoes DEF DisconnectedAll, Steps
<1> QED
  BY <1>4, <1>5, <1>6, <1>7, <1>8, <1>9, <1>10, <1>11, <1>12, <1>13, <1>14 DEF Proceed

(* Each of those leaves fewer steps.                                       *)
LEMMA StepsShorten ==
    ASSUME Typed, NEW t \in Tasks, Steps(t), pc[t] \notin {"idle", "use"},
           pc[t] \in {"clear", "clearing"} /\ call[t].relaunch => ~call[t].retried
    PROVE  StepsLeft(t)' < StepsLeft(t)
<1>1. pc[t] \in Awaits
  BY DEF Typed, TasksTyped
<1> QED
  BY <1>1 DEF Steps, StepsLeft, Left, Awaits, LockPcs, HoldPcs

(* A cancelled call returns, or clears what it waited for. *)
LEMMA CancelSteps ==
    ASSUME Typed, NEW t \in Tasks, Cancel(t)
    PROVE  \/ pc'[t] = "idle"
           \/ /\ pc[t] = "wait" /\ pc'[t] = "clear"
              /\ call'[t].retried = call[t].retried /\ ~call'[t].relaunch
  BY GoClearCalls, ReturnDoes DEF Cancel, Typed

(* Each step keeps Retrying.                                               *)
LEMMA StepRetrying ==
    ASSUME Typed, Retrying, [Next]_vars
    PROVE  Retrying'
<1>1. ASSUME NEW t \in Tasks, Proceed(t) \/ Call(t) \/ Cancel(t)
      PROVE  Retrying'
  <2>1. ASSUME NEW u \in Tasks, u # t
        PROVE  pc'[u] = pc[u] /\ call'[u] = call[u]
    BY <1>1, <2>1, OneMoves DEF Others
  <2>2. ASSUME pc'[t] \in {"clear", "clearing"}, call'[t].relaunch
        PROVE  ~call'[t].retried
    <3>1. CASE Proceed(t)
      BY <2>2, <3>1, ProceedSteps DEF Steps, Retrying
    <3>2. CASE Cancel(t)
      BY <2>2, <3>2, CancelSteps
    <3>3. CASE Call(t)
      BY <2>2, <3>3, ReturnDoes DEF Call, CallGet, CallDisconnect, CallDisconnectAll, Finish,
         Recover, Goto, Typed, TasksTyped
    <3> QED
      BY <1>1, <3>1, <3>2, <3>3
  <2> QED
    BY <2>1, <2>2 DEF Retrying
<1>2. CASE UNCHANGED <<pc, call>>
  BY <1>2 DEF Retrying
<1>3. ASSUME NEW c \in Conns, Lifecycle(c) \/ Server(c)
      PROVE  UNCHANGED <<pc, call>>
  BY <1>3 DEF Lifecycle, Server, Begin, Abandon, Leave, Ready, Fail, PingsMissed, Pass
<1> QED
  BY <1>1, <1>2, <1>3 DEF Next, vars

(* Each step of the system keeps to CallShortens.                          *)
LEMMA StepCallShortens ==
    ASSUME Typed, Retrying, [Next]_vars, NEW t \in Tasks
    PROVE  /\ Proceed(t) => StepsLeft(t)' < StepsLeft(t)
           /\ pc[t] \notin {"idle", "use"} => StepsLeft(t)' <= StepsLeft(t)
<1>1. pc[t] \in Awaits \cup {"idle"}
  BY DEF Typed, TasksTyped
<1>2. StepsLeft(t) \in Nat
  BY <1>1 DEF StepsLeft, Left, Awaits, LockPcs, HoldPcs
<1>3. ASSUME Proceed(t)
      PROVE  StepsLeft(t)' < StepsLeft(t)
  BY <1>3, ProceedSteps, StepsShorten DEF Retrying
<1>4. ASSUME pc'[t] = pc[t], call'[t] = call[t]
      PROVE  StepsLeft(t)' = StepsLeft(t)
  BY <1>4 DEF StepsLeft, Left
<1>5. ASSUME Cancel(t)
      PROVE  StepsLeft(t)' <= StepsLeft(t)
  <2>1. CASE pc'[t] = "idle"
    BY <1>2, <2>1 DEF StepsLeft
  <2>2. CASE pc[t] = "wait" /\ pc'[t] = "clear" /\ call'[t].retried = call[t].retried
    BY <2>2 DEF StepsLeft, Left
  <2> QED
    BY <1>5, <2>1, <2>2, CancelSteps
<1>6. ASSUME Call(t)
      PROVE  pc[t] \in {"idle", "use"}
  BY <1>6 DEF Call, CallGet, CallDisconnect, CallDisconnectAll, Finish, Recover
<1>7. ASSUME NEW u \in Tasks, u # t, Proceed(u) \/ Call(u) \/ Cancel(u)
      PROVE  pc'[t] = pc[t] /\ call'[t] = call[t]
  BY <1>7, OneMoves DEF Others
<1>8. ASSUME NEW c \in Conns, Lifecycle(c) \/ Server(c)
      PROVE  pc'[t] = pc[t] /\ call'[t] = call[t]
  BY <1>8 DEF Lifecycle, Server, Begin, Abandon, Leave, Ready, Fail, PingsMissed, Pass
<1>9. \/ Proceed(t) \/ Cancel(t) \/ Call(t) \/ (pc'[t] = pc[t] /\ call'[t] = call[t])
  BY <1>7, <1>8 DEF Next, vars
<1>10. Proceed(t) => StepsLeft(t)' \in Int
  <2>1. Proceed(t) => pc'[t] \in Awaits \cup {"idle"}
    BY ProceedSteps DEF Steps, Awaits, LockPcs, HoldPcs
  <2> QED
    BY <2>1 DEF StepsLeft, Left, Awaits, LockPcs, HoldPcs
<1>11. StepsLeft(t) <= StepsLeft(t)
  BY <1>2
<1>12. Proceed(t) => StepsLeft(t)' <= StepsLeft(t)
  BY <1>2, <1>3, <1>10
<1> QED
  BY <1>3, <1>4, <1>5, <1>6, <1>9, <1>11, <1>12

(* get_server, disconnect_server and disconnect_all take at most ten steps of *)
(* their caller, cut short or not, and a retry with OAuth happens at most   *)
(* once: what a call waits for may be late, but it does not go round.      *)
THEOREM CallBounded == Spec => [](\A t \in Tasks : StepsLeft(t) \in 0..10) /\ CallShortens
<1>1. IInv => \A t \in Tasks : StepsLeft(t) \in 0..10
  BY DEF IInv, Typed, TasksTyped, StepsLeft, Left, Awaits, LockPcs, HoldPcs
<1>2. Init => Retrying
  BY DEF Init, Retrying
<1>3. IInv /\ Retrying /\ [Next]_vars => Retrying'
  BY StepRetrying DEF IInv
<1>4. IInv /\ Retrying /\ [Next]_vars =>
        [\A t \in Tasks :
          /\ Proceed(t) => StepsLeft(t)' < StepsLeft(t)
          /\ pc[t] \notin {"idle", "use"} => StepsLeft(t)' <= StepsLeft(t)]_vars
  BY StepCallShortens DEF IInv
<1> QED
  BY <1>1, <1>2, <1>3, <1>4, Invariant, PTL DEF Spec, CallShortens

-----------------------------------------------------------------------------
(* What each task with the lock awaits is ending.                          *)
Told == \A t \in Tasks : pc[t] \in HoldPcs => \A c \in Awaited(t) : c \in Conns => Ending(c)
Locked == lock # None => lock \in Tasks /\ pc[lock] \in HoldPcs

(* Each step keeps Locked.                                                 *)
LEMMA StepLocked ==
    ASSUME Typed, Holding, Locked, [Next]_vars
    PROVE  Locked'
<1> USE DEF Typed
<1>1. CASE UNCHANGED <<lock, pc>>
  BY <1>1 DEF Locked
<1>2. ASSUME NEW t \in Tasks, Proceed(t) \/ Call(t) \/ Cancel(t)
      PROVE  Locked'
  <2>1. ASSUME lock' = t
        PROVE  pc'[t] \in HoldPcs
    <3>1. ASSUME NEW C, NEW l \in HoldPcs, ShutdownAndHold(t, C, l)
          PROVE  pc'[t] \in HoldPcs
      BY <3>1 DEF ShutdownAndHold, Goto, TasksTyped
    <3>2. CASE lock = t
      <4>1. pc[t] \in HoldPcs /\ t # None
        BY <3>2, TasksAssumption DEF Locked
      <4>2. Recreate(t) \/ Cleared(t) \/ Disconnected(t) \/ DisconnectedAll(t) \/ Cancel(t)
        BY <1>2, <4>1 DEF Proceed, Call, Check, Launch, JoinLaunch, Initialized, BudgetSpent,
           Clear, Disconnect, DisconnectAll, Enters, CallGet, CallDisconnect,
           CallDisconnectAll, Finish, Recover, HoldPcs
      <4> QED
        BY <2>1, <3>2, <4>1, <4>2 DEF Recreate, Cleared, Disconnected, DisconnectedAll, Cancel,
           HoldPcs
    <3>3. CASE lock # t
      <4>1. Check(t) \/ Clear(t) \/ Disconnect(t) \/ DisconnectAll(t)
        BY <1>2, <2>1, <3>3, TasksAssumption DEF Proceed, Call, Recreate, Cleared,
           Disconnected, DisconnectedAll, Launch, JoinLaunch, Initialized, BudgetSpent,
           CallGet, CallDisconnect, CallDisconnectAll, Finish, Recover, Cancel, manager, entries
      <4> QED
        BY <2>1, <3>1, <3>3, <4>1 DEF Check, Clear, Disconnect, DisconnectAll, HoldPcs
    <3> QED
      BY <3>2, <3>3
  <2>2. ASSUME lock' # t, lock' # None
        PROVE  lock' \in Tasks /\ pc'[lock'] \in HoldPcs
    <3>1. lock' = lock
      BY <1>2, <2>2, LockMoves
    <3> QED
      BY <1>2, <2>2, <3>1, OneMoves DEF Others, Locked
  <2> QED
    BY <2>1, <2>2 DEF Locked
<1>3. ASSUME NEW c \in Conns, Lifecycle(c) \/ Server(c)
      PROVE  UNCHANGED <<lock, pc>>
  BY <1>3 DEF Lifecycle, Server, Begin, Abandon, Leave, Ready, Fail, PingsMissed, Pass, manager
<1> QED
  BY <1>1, <1>2, <1>3 DEF Next, vars, manager

(* What is ending goes on to its end, unless its number is used again. *)
LEMMA EndingStays ==
    ASSUME Typed, [Next]_vars, NEW c \in Conns, Ending(c), lock # None
    PROVE  Ending(c)'
<1> USE DEF Typed, Ending
<1>1. ASSUME NEW C, Shutdown(C)
      PROVE  Ending(c)'
  BY <1>1 DEF Shutdown, Asked
<1>2. CASE UNCHANGED life
  BY <1>2
<1>3. ASSUME NEW d \in Conns, Lifecycle(d) \/ Server(d)
      PROVE  Ending(c)'
  BY <1>3 DEF Lifecycle, Server, Begin, Abandon, Leave, Ready, Fail, PingsMissed, Pass,
     ConnectionsTyped
<1>4. ASSUME NEW t \in Tasks, Proceed(t) \/ Call(t) \/ Cancel(t)
      PROVE  UNCHANGED life \/ \E C : Shutdown(C)
  BY <1>4 DEF Proceed, Call, Cancel, Check, Recreate, Launch, JoinLaunch, Initialized,
     BudgetSpent, Clear, Cleared, Disconnect, Disconnected, DisconnectAll, DisconnectedAll,
     CallGet, CallDisconnect, CallDisconnectAll, Finish, Recover, ShutdownAndHold, Enters,
     connections
<1> QED
  BY <1>1, <1>2, <1>3, <1>4 DEF Next, vars, connections

(* What a shutdown is requested of is ending.                              *)
LEMMA ShutdownEnds ==
    ASSUME Typed, NEW C, Shutdown(C), NEW c \in Conns, c \in C
    PROVE  Ending(c)'
<1>1. life[c] \in Lives
  BY DEF Typed, ConnectionsTyped
<1>2. life'[c] = IF life[c] \in DOMAIN Asked THEN Asked[life[c]] ELSE life[c]
  BY DEF Shutdown
<1> QED
  BY <1>1, <1>2 DEF Ending, Lives, Asked, Range

(* Each step keeps Told: a task takes the lock by requesting the shutdowns *)
(* it goes on to await, and no entry changes while it has the lock.        *)
LEMMA StepTold ==
    ASSUME Typed, Holding, Locked, Told, [Next]_vars
    PROVE  Told'
<1> USE DEF Typed
<1>1. ASSUME NEW t \in Tasks, pc'[t] \in HoldPcs, NEW c \in Awaited(t)', c \in Conns
      PROVE  Ending(c)'
  <2>1. CASE pc[t] \in HoldPcs /\ pc'[t] = pc[t] /\ on'[t] = on[t] /\ running' = running
    <3>1. c \in Awaited(t) /\ lock # None
      BY <1>1, <2>1, TasksAssumption DEF Awaited, Entries, Holding
    <3> QED
      BY <1>1, <2>1, <3>1, EndingStays DEF Told
  <2>2. CASE Proceed(t)
    <3>1. ASSUME NEW C, NEW l, ShutdownAndHold(t, C, l), c \in C
          PROVE  Ending(c)'
      BY <1>1, <3>1, ShutdownEnds DEF ShutdownAndHold
    <3>2. CASE Check(t)
      <4>1. ShutdownAndHold(t, {Current(t)}, "recreate") /\ Take(t, Current(t))
        BY <1>1, <3>2 DEF Check, GoLaunch, Use, Goto, TasksTyped, HoldPcs
      <4>2. pc'[t] = "recreate" /\ on'[t] = Current(t)
        BY <4>1 DEF ShutdownAndHold, Goto, Take, TasksTyped
      <4> QED
        BY <1>1, <3>1, <4>1, <4>2 DEF Awaited
    <3>3. CASE Clear(t)
      <4>1. ShutdownAndHold(t, {on[t]}, "clearing") /\ on' = on
        BY <3>3 DEF Clear
      <4>2. pc'[t] = "clearing"
        BY <4>1 DEF ShutdownAndHold, Goto, TasksTyped
      <4> QED
        BY <1>1, <3>1, <4>1, <4>2 DEF Awaited
    <3>4. CASE Disconnect(t)
      <4>1. ShutdownAndHold(t, {Current(t)}, "disconnecting") /\ Take(t, Current(t))
        BY <1>1, <3>4, ReturnDoes DEF Disconnect, AfterDisconnect, GoLaunch, Goto, TasksTyped,
           HoldPcs
      <4>2. pc'[t] = "disconnecting" /\ on'[t] = Current(t)
        BY <4>1 DEF ShutdownAndHold, Goto, Take, TasksTyped
      <4> QED
        BY <1>1, <3>1, <4>1, <4>2 DEF Awaited
    <3>5. CASE DisconnectAll(t)
      <4>1. ShutdownAndHold(t, Entries, "disconnectingAll") /\ running' = running
        BY <1>1, <3>5, ReturnDoes DEF DisconnectAll, HoldPcs, entries
      <4>2. pc'[t] = "disconnectingAll"
        BY <4>1 DEF ShutdownAndHold, Goto, TasksTyped
      <4>3. Entries' = Entries
        BY <4>1 DEF Entries
      <4> QED
        BY <1>1, <3>1, <4>1, <4>2, <4>3 DEF Awaited
    <3>6. pc[t] \in {"check", "clear", "disconnect", "disconnectAll"}
      BY <1>1, <2>2, ProceedSteps DEF Steps, HoldPcs
    <3> QED
      BY <2>2, <3>2, <3>3, <3>4, <3>5, <3>6 DEF Proceed, Recreate, Launch, JoinLaunch, Initialized,
         BudgetSpent, Cleared, Disconnected, DisconnectedAll, Enters
  <2>3. ASSUME NEW u \in Tasks, u # t, Proceed(u) \/ Call(u) \/ Cancel(u)
        PROVE  pc'[t] = pc[t] /\ on'[t] = on[t] /\ running' = running
    <3>1. pc'[t] = pc[t] /\ on'[t] = on[t]
      BY <2>3, OneMoves DEF Others
    <3>2. lock = t
      BY <1>1, <3>1 DEF Holding
    <3> QED
      BY <2>3, <3>1, <3>2, EntriesMove, TasksAssumption
  <2>4. ASSUME NEW d \in Conns, Lifecycle(d) \/ Server(d)
        PROVE  pc' = pc /\ on' = on /\ running' = running
    BY <2>4 DEF Lifecycle, Server, Begin, Abandon, Leave, Ready, Fail, PingsMissed, Pass, manager,
       entries
  <2>5. ASSUME Call(t) \/ Cancel(t)
        PROVE  FALSE
    <3>1. pc'[t] \notin HoldPcs
      BY <2>5, CancelSteps, ReturnDoes DEF Call, CallGet, CallDisconnect, CallDisconnectAll,
         Finish, Recover, Goto, TasksTyped, HoldPcs
    <3> QED
      BY <1>1, <3>1
  <2> QED
    BY <1>1, <2>1, <2>2, <2>3, <2>4, <2>5 DEF Next, vars, manager, entries
<1> QED
  BY <1>1 DEF Told

(* The manager's lock is held across an await only for lifecycles that have *)
(* been told to end: a startup that nobody asked to stop, or a working server, *)
(* never holds up the other callers of the manager.                       *)
THEOREM LockPassedOnSafe == Spec => []LockPassedOn
<1>1. Init => Locked /\ Told
  BY DEF Init, Locked, Told, HoldPcs
<1>2. IInv /\ Locked /\ Told /\ [Next]_vars => (Locked /\ Told)'
  BY StepLocked, StepTold DEF IInv
<1>3. IInv /\ Locked /\ Told => LockPassedOn
  BY DEF Locked, Told, LockPassedOn
<1> QED
  BY <1>1, <1>2, <1>3, Invariant, PTL DEF Spec

=============================================================================
