------------------------ MODULE DurableProcess_proofs ------------------------
(***************************************************************************)
(* Theorems about DurableProcess, for every set of processes and clients,  *)
(* every limit, use and fault: type correctness, and that a command is     *)
(* started at most once. Then, under the assumptions named where they are  *)
(* first used (Undisturbed, Punctual): that a record which has ended stays *)
(* so, that no running command is pruned or declared gone, and that no     *)
(* more commands run than the limit allows.                                *)
(***************************************************************************)
EXTENDS DurableProcess, FiniteSetTheorems, TLAPS

-----------------------------------------------------------------------------
(* The operators that write a status write a Status. *)

(* A fresh record is a Status. *)
LEMMA BlankType == Blank \in Status
  BY DEF Blank, Status, Nonterminal, Terminal

(* Judging a status (_persist_unavailable_status) yields a status.         *)
LEMMA JudgedType ==
    ASSUME NEW p, NEW st \in Status
    PROVE  Judged(p, st) \in Status
  BY DEF Judged, Status, Nonterminal, Terminal

(* _write_status with PIDs that fit the state leaves every file a Status.  *)
LEMMA WriteType ==
    ASSUME status \in [Procs -> Status], NEW p, NEW s, NEW q, WriteStatus(p, s, q),
           [state |-> s, pids |-> q, fresh |-> TRUE] \in Status
    PROVE  status' \in [Procs -> Status]
  BY DEF WriteStatus

(* What the writers write fits.                                            *)
LEMMA WrittenTypes ==
    /\ [state |-> "starting", pids |-> "none", fresh |-> TRUE] \in Status
    /\ \A q \in {"none", "supervisor", "both"} :
          [state |-> "unavailable", pids |-> q, fresh |-> TRUE] \in Status
    /\ \A s \in {"running", "stopping", "exited", "stopped"} :
          [state |-> s, pids |-> "both", fresh |-> TRUE] \in Status
  BY DEF Status, Nonterminal, Terminal

(* So do the supervisor's reports.                                         *)
LEMMA ReportType ==
    ASSUME status \in [Procs -> Status], NEW p, NEW s \in {"running", "stopping"}, NEW l,
           Report(p, s, l)
    PROVE  status' \in [Procs -> Status]
<1>1. [state |-> s, pids |-> "both", fresh |-> TRUE] \in Status
  BY WrittenTypes
<1> QED
  BY <1>1, WriteType DEF Report

(* The initial state has the types. *)
LEMMA InitTypeOK == Init => TypeOK
  BY BlankType DEF Init, TypeOK, Actors, ClientPcs, SupervisorPcs, ScanPcs

-----------------------------------------------------------------------------
(* Every action preserves the types. *)
LEMMA NextTypeOK == TypeOK /\ [Next]_vars => TypeOK'
<1> SUFFICES ASSUME TypeOK, [Next]_vars
             PROVE  TypeOK'
  OBVIOUS
<1> USE DEF TypeOK
<1>0. CASE UNCHANGED vars
  BY <1>0 DEF vars, files, scan
<1>1. ASSUME NEW a \in Actors, StartPrune(a)
      PROVE  TypeOK'
  BY <1>1, SMTT(30) DEF StartPrune, Actors, Goto, ClientPcs, SupervisorPcs, ScanPcs,
     files, scan, TakeLock, Present
<1>2. ASSUME NEW a \in Actors, ScanRead(a)
      PROVE  TypeOK'
  BY <1>2, SMTT(30) DEF ScanRead, Actors, Goto, ClientPcs, SupervisorPcs, ScanPcs,
     files, scan
<1>3. ASSUME NEW a \in Actors, ScanJudge(a)
      PROVE  TypeOK'
  BY <1>3, JudgedType, BlankType, SMTT(30) DEF ScanJudge, Actors, Goto, ClientPcs,
     SupervisorPcs, ScanPcs, files, scan, PersistUnavailable
<1>4. ASSUME NEW a \in Actors, ChooseVictims(a)
      PROVE  TypeOK'
  BY <1>4, SMTT(30) DEF ChooseVictims, Actors, Goto, ClientPcs, SupervisorPcs,
     ScanPcs, files, scan
<1>5. ASSUME NEW a \in Actors, Remove(a)
      PROVE  TypeOK'
  BY <1>5, SMTT(30) DEF Remove, Actors, Goto, ClientPcs, SupervisorPcs, ScanPcs,
     files, scan
<1>6. ASSUME NEW a \in Actors, EndPrune(a)
      PROVE  TypeOK'
  BY <1>6, SMTT(30) DEF EndPrune, Actors, Goto, ClientPcs, SupervisorPcs, ScanPcs,
     files, scan, Unlock, ScanDone
<1>7. ASSUME NEW c \in Clients, StartCreate(c)
      PROVE  TypeOK'
  BY <1>7, SMTT(30) DEF StartCreate, Actors, Goto, ClientPcs, SupervisorPcs,
     ScanPcs, files, scan, TakeLock, Present
<1>8. ASSUME NEW c \in Clients, Create(c)
      PROVE  TypeOK'
  BY <1>8, SMTT(30) DEF Create, Actors, Goto, ClientPcs, SupervisorPcs, ScanPcs,
     files, scan, Unlock, Present
<1>9. ASSUME NEW c \in Clients, StartDiscover(c)
      PROVE  TypeOK'
  BY <1>9, SMTT(30) DEF StartDiscover, Actors, Goto, ClientPcs, SupervisorPcs,
     ScanPcs, files, scan, TakeLock, Present
<1>10. ASSUME NEW c \in Clients, EndDiscover(c)
      PROVE  TypeOK'
  BY <1>10, SMTT(30) DEF EndDiscover, Actors, Goto, ClientPcs, SupervisorPcs,
     ScanPcs, files, scan, Unlock, ScanDone
<1>11. ASSUME NEW c \in Clients, Relaunch(c)
      PROVE  TypeOK'
  BY <1>11, SMTT(30) DEF Relaunch, Actors, Goto, ClientPcs, SupervisorPcs, ScanPcs,
     files, scan, Present
<1>12. ASSUME NEW c \in Clients, LaunchRead(c)
      PROVE  TypeOK'
  BY <1>12, SMTT(30) DEF LaunchRead, Actors, Goto, ClientPcs, SupervisorPcs,
     ScanPcs, files, scan, Present, GiveUp
<1>13. ASSUME NEW c \in Clients, Claim(c)
      PROVE  TypeOK'
  BY <1>13, SMTT(30) DEF Claim, Actors, Goto, ClientPcs, SupervisorPcs, ScanPcs,
     files, scan, Claimable, Present, GiveUp
<1>14. ASSUME NEW c \in Clients, WriteStarting(c)
      PROVE  TypeOK'
  BY <1>14, WriteType, WrittenTypes, SMTT(30) DEF WriteStarting, Actors, Goto,
     ClientPcs, SupervisorPcs, ScanPcs, files, scan, Present, GiveUp
<1>15. ASSUME NEW c \in Clients, Popen(c)
      PROVE  TypeOK'
  <2>1. pc' \in [Actors -> ClientPcs \cup SupervisorPcs]
    BY <1>15 DEF Popen, ClientPcs, SupervisorPcs, ScanPcs
  <2>2. back' \in [Actors -> {"idle", "read", "start", "zombie"}]
    BY <1>15 DEF Popen
  <2>3. spawns' \in [Procs -> Nat]
    <3>1. \A p \in Procs : spawns[p] \in Nat /\ spawns[p] + 1 \in Nat
      OBVIOUS
    <3> QED
      BY <1>15, <3>1 DEF Popen
  <2> QED
    BY <1>15, <2>1, <2>2, <2>3 DEF Popen, files, scan
<1>16. ASSUME NEW c \in Clients, PopenFails(c)
      PROVE  TypeOK'
  BY <1>16, WriteType, WrittenTypes, SMTT(30) DEF PopenFails, Actors, Goto,
     ClientPcs, SupervisorPcs, ScanPcs, files, scan, Present
<1>17. ASSUME NEW c \in Clients, StartGet(c)
      PROVE  TypeOK'
  BY <1>17, SMTT(30) DEF StartGet, Actors, Goto, ClientPcs, SupervisorPcs, ScanPcs,
     files, scan, Present
<1>18. ASSUME NEW c \in Clients, GetRead(c)
      PROVE  TypeOK'
  BY <1>18, SMTT(30) DEF GetRead, Actors, Goto, ClientPcs, SupervisorPcs, ScanPcs,
     files, scan, Present, GiveUp
<1>19. ASSUME NEW c \in Clients, GetJudge(c)
      PROVE  TypeOK'
  BY <1>19, JudgedType, BlankType, SMTT(30) DEF GetJudge, Actors, Goto, ClientPcs,
     SupervisorPcs, ScanPcs, files, scan, Present, GiveUp, PersistUnavailable
<1>20. ASSUME NEW c \in Clients, RequestStop(c)
      PROVE  TypeOK'
  BY <1>20, SMTT(30) DEF RequestStop, Actors, Goto, ClientPcs, SupervisorPcs,
     ScanPcs, files, scan, Present
<1>21. ASSUME NEW c \in Clients, ClientCrash(c)
      PROVE  TypeOK'
  BY <1>21, BlankType, SMTT(30) DEF ClientCrash, Actors, Goto, ClientPcs,
     SupervisorPcs, ScanPcs, files, scan, Unlock
<1>22. ASSUME NEW p \in Procs, ReadSpec(p)
      PROVE  TypeOK'
  BY <1>22, SMTT(30) DEF ReadSpec, Actors, Goto, ClientPcs, SupervisorPcs, ScanPcs,
     files, scan
<1>23. ASSUME NEW p \in Procs, Publish(p)
      PROVE  TypeOK'
  <2>1. status' \in [Procs -> Status]
    BY <1>23, ReportType DEF Publish
  <2>2. pc' \in [Actors -> ClientPcs \cup SupervisorPcs]
    BY <1>23 DEF Publish, Report, Goto, ClientPcs, SupervisorPcs, ScanPcs
  <2> QED
    BY <1>23, <2>1, <2>2 DEF Publish, files, scan
<1>36. ASSUME NEW p \in Procs, PublishLate(p)
       PROVE  TypeOK'
  <2>1. [state |-> "running", pids |-> "both", fresh |-> FALSE] \in Status
    BY DEF Status, Nonterminal, Terminal
  <2>2. pc' \in [Actors -> ClientPcs \cup SupervisorPcs]
    BY <1>36 DEF PublishLate, Goto, ClientPcs, SupervisorPcs, ScanPcs
  <2> QED
    BY <1>36, <2>1, <2>2 DEF PublishLate, files, scan
<1>24. ASSUME NEW p \in Procs, Heartbeat(p)
      PROVE  TypeOK'
  <2>1. status' \in [Procs -> Status]
    BY <1>24, ReportType DEF Heartbeat
  <2>2. pc' \in [Actors -> ClientPcs \cup SupervisorPcs]
    BY <1>24 DEF Heartbeat, Report, Goto, ClientPcs, SupervisorPcs, ScanPcs
  <2> QED
    BY <1>24, <2>1, <2>2 DEF Heartbeat, files, scan
<1>25. ASSUME NEW p \in Procs, SeeStop(p)
      PROVE  TypeOK'
  <2>1. status' \in [Procs -> Status]
    BY <1>25, ReportType DEF SeeStop
  <2>2. pc' \in [Actors -> ClientPcs \cup SupervisorPcs]
    BY <1>25 DEF SeeStop, Report, Goto, ClientPcs, SupervisorPcs, ScanPcs
  <2> QED
    BY <1>25, <2>1, <2>2 DEF SeeStop, files, scan
<1>26. ASSUME NEW p \in Procs, Terminate(p)
      PROVE  TypeOK'
  BY <1>26, SMTT(30) DEF Terminate, Actors, Goto, ClientPcs, SupervisorPcs, ScanPcs,
     files, scan, Terminated
<1>27. ASSUME NEW p \in Procs, LoopEnds(p)
      PROVE  TypeOK'
  BY <1>27, SMTT(30) DEF LoopEnds, Actors, Goto, ClientPcs, SupervisorPcs, ScanPcs,
     files, scan
<1>28. ASSUME NEW p \in Procs, DrainFails(p)
      PROVE  TypeOK'
  BY <1>28, SMTT(30) DEF DrainFails, Actors, Goto, ClientPcs, SupervisorPcs,
     ScanPcs, files, scan
<1>29. ASSUME NEW p \in Procs, Finish(p)
      PROVE  TypeOK'
  BY <1>29, WriteType, WrittenTypes, SMTT(30) DEF Finish, Actors, Goto, ClientPcs,
     SupervisorPcs, ScanPcs, files, scan, PrepareExit
<1>30. ASSUME NEW p \in Procs, Fail(p)
      PROVE  TypeOK'
  BY <1>30, WriteType, WrittenTypes, SMTT(30) DEF Fail, Actors, Goto, ClientPcs,
     SupervisorPcs, ScanPcs, files, scan, PrepareExit, Terminated
<1>31. ASSUME NEW p \in Procs, SupervisorCrash(p)
      PROVE  TypeOK'
  BY <1>31, BlankType, SMTT(30) DEF SupervisorCrash, Actors, Goto, ClientPcs,
     SupervisorPcs, ScanPcs, files, scan, Unlock
<1>32. ASSUME NEW p \in Procs, ChildEnds(p)
      PROVE  TypeOK'
  BY <1>32, SMTT(30) DEF ChildEnds, Actors, Goto, ClientPcs, SupervisorPcs, ScanPcs,
     files, scan
<1>33. ASSUME NEW p \in Procs, KillTakesEffect(p)
      PROVE  TypeOK'
  BY <1>33, SMTT(30) DEF KillTakesEffect, Actors, Goto, ClientPcs, SupervisorPcs,
     ScanPcs, files, scan
<1>34. ASSUME NEW p \in Procs, Reap(p)
      PROVE  TypeOK'
  BY <1>34, SMTT(30) DEF Reap, Actors, Goto, ClientPcs, SupervisorPcs, ScanPcs,
     files, scan
<1>35. ASSUME NEW p \in Procs, Age(p)
      PROVE  TypeOK'
  <2>1. status[p] \in Status
    BY <1>35
  <2>2. [status[p] EXCEPT !.fresh = FALSE] \in Status
    BY <2>1 DEF Status
  <2>3. status' \in [Procs -> Status]
    BY <1>35, <2>2 DEF Age
  <2> QED
    BY <1>35, <2>3 DEF Age, files, scan
<1>a. Clients \subseteq Actors /\ Procs \subseteq Actors
  BY DEF Actors
<1> QED
  BY <1>0, <1>a, <1>1, <1>2, <1>3, <1>4, <1>5, <1>6, <1>7, <1>8, <1>9, <1>10, <1>11,
     <1>12, <1>13, <1>14, <1>15, <1>16, <1>17, <1>18, <1>19, <1>20, <1>21, <1>22,
     <1>23, <1>24, <1>25, <1>26, <1>27, <1>28, <1>29, <1>30, <1>31, <1>32, <1>33,
     <1>34, <1>35, <1>36 DEF Next, ClientStep, ClientChoice, SupervisorStep, System, Scan

(* In every reachable state the files, the scan and the actors are in their *)
(* types: in particular every status a process writes or is declared fits.  *)
THEOREM TypeCorrect == Spec => []TypeOK
  BY InitTypeOK, NextTypeOK, PTL DEF Spec

-----------------------------------------------------------------------------
(* A command is started at most once. *)

(* Between its claim and its Popen a launcher owns the record: it has       *)
(* claimed it, no other launcher is there, and nothing was started yet. What*)
(* was never claimed was never started.                                     *)
Launching == {"starting", "popen"}
LaunchInv ==
    /\ \A c \in Clients : pc[c] \in Launching => on[c] \in claimed /\ spawns[on[c]] = 0
    /\ \A c, d \in Clients :
          pc[c] \in Launching /\ pc[d] \in Launching /\ on[c] = on[d] => c = d
    /\ \A p \in Procs \ claimed : spawns[p] = 0
    /\ \A p \in Procs : spawns[p] <= 1

(* It holds before anything is created. *)
LEMMA InitLaunchInv == Init => LaunchInv
  BY ActorsAssumption DEF Init, LaunchInv, Launching, Actors

(* Every action preserves it: Claim is the only way in, and it excludes.   *)
LEMMA NextLaunchInv == TypeOK /\ LaunchInv /\ [Next]_vars => LaunchInv'
<1> SUFFICES ASSUME TypeOK, LaunchInv, [Next]_vars
             PROVE  LaunchInv'
  OBVIOUS
<1> USE ActorsAssumption DEF LaunchInv, Launching
<1>0. CASE UNCHANGED vars
  BY <1>0 DEF vars, files, scan
<1>1. ASSUME NEW a \in Actors, StartPrune(a)
      PROVE  LaunchInv'
  BY <1>1 DEF StartPrune, Goto, Actors, TypeOK, files, scan, TakeLock
<1>2. ASSUME NEW a \in Actors, ScanRead(a)
      PROVE  LaunchInv'
  BY <1>2 DEF ScanRead, Goto, Actors, TypeOK, files, scan
<1>3. ASSUME NEW a \in Actors, ScanJudge(a)
      PROVE  LaunchInv'
  BY <1>3 DEF ScanJudge, Goto, Actors, TypeOK, files, scan
<1>4. ASSUME NEW a \in Actors, ChooseVictims(a)
      PROVE  LaunchInv'
  BY <1>4 DEF ChooseVictims, Goto, Actors, TypeOK, files, scan
<1>5. ASSUME NEW a \in Actors, Remove(a)
      PROVE  LaunchInv'
  BY <1>5 DEF Remove, Goto, Actors, TypeOK, files, scan
<1>6. ASSUME NEW a \in Actors, EndPrune(a)
      PROVE  LaunchInv'
  <2>1. back[a] \notin Launching
    BY DEF TypeOK, Launching
  <2> QED
    BY <1>6, <2>1 DEF EndPrune, Goto, Actors, TypeOK, files, scan
<1>7. ASSUME NEW c \in Clients, StartCreate(c)
      PROVE  LaunchInv'
  BY <1>7 DEF StartCreate, Goto, Actors, TypeOK, files, scan, TakeLock
<1>8. ASSUME NEW c \in Clients, Create(c)
      PROVE  LaunchInv'
  BY <1>8 DEF Create, Goto, Actors, TypeOK, files, scan
<1>9. ASSUME NEW c \in Clients, StartDiscover(c)
      PROVE  LaunchInv'
  BY <1>9 DEF StartDiscover, Goto, Actors, TypeOK, files, scan, TakeLock
<1>10. ASSUME NEW c \in Clients, EndDiscover(c)
      PROVE  LaunchInv'
  BY <1>10 DEF EndDiscover, Goto, Actors, TypeOK, files, scan
<1>11. ASSUME NEW c \in Clients, Relaunch(c)
      PROVE  LaunchInv'
  BY <1>11 DEF Relaunch, Goto, Actors, TypeOK, files, scan
<1>12. ASSUME NEW c \in Clients, LaunchRead(c)
      PROVE  LaunchInv'
  BY <1>12 DEF LaunchRead, Goto, Actors, TypeOK, files, scan, GiveUp
<1>13. ASSUME NEW c \in Clients, Claim(c)
      PROVE  LaunchInv'
  BY <1>13 DEF Claim, Goto, Actors, TypeOK, files, scan, GiveUp, Claimable, Present
<1>14. ASSUME NEW c \in Clients, WriteStarting(c)
      PROVE  LaunchInv'
  BY <1>14 DEF WriteStarting, Goto, Actors, TypeOK, files, scan, GiveUp
<1>15. ASSUME NEW c \in Clients, Popen(c)
      PROVE  LaunchInv'
  BY <1>15 DEF Popen, Goto, Actors, TypeOK, files, scan
<1>16. ASSUME NEW c \in Clients, PopenFails(c)
      PROVE  LaunchInv'
  BY <1>16 DEF PopenFails, Goto, Actors, TypeOK, files, scan, GiveUp
<1>17. ASSUME NEW c \in Clients, StartGet(c)
      PROVE  LaunchInv'
  BY <1>17 DEF StartGet, Goto, Actors, TypeOK, files, scan
<1>18. ASSUME NEW c \in Clients, GetRead(c)
      PROVE  LaunchInv'
  BY <1>18 DEF GetRead, Goto, Actors, TypeOK, files, scan, GiveUp
<1>19. ASSUME NEW c \in Clients, GetJudge(c)
      PROVE  LaunchInv'
  BY <1>19 DEF GetJudge, Goto, Actors, TypeOK, files, scan, GiveUp
<1>20. ASSUME NEW c \in Clients, RequestStop(c)
      PROVE  LaunchInv'
  BY <1>20 DEF RequestStop, Goto, Actors, TypeOK, files, scan
<1>21. ASSUME NEW c \in Clients, ClientCrash(c)
      PROVE  LaunchInv'
  BY <1>21 DEF ClientCrash, Goto, Actors, TypeOK, files, scan
<1>22. ASSUME NEW p \in Procs, ReadSpec(p)
      PROVE  LaunchInv'
  BY <1>22 DEF ReadSpec, Goto, Actors, TypeOK, files, scan
<1>23. ASSUME NEW p \in Procs, Publish(p)
      PROVE  LaunchInv'
  BY <1>23 DEF Publish, Goto, Actors, TypeOK, files, scan, Report
<1>36. ASSUME NEW p \in Procs, PublishLate(p)
       PROVE  LaunchInv'
  BY <1>36 DEF PublishLate, Goto, Actors, TypeOK, files, scan
<1>24. ASSUME NEW p \in Procs, Heartbeat(p)
      PROVE  LaunchInv'
  BY <1>24 DEF Heartbeat, Goto, Actors, TypeOK, files, scan, Report
<1>25. ASSUME NEW p \in Procs, SeeStop(p)
      PROVE  LaunchInv'
  BY <1>25 DEF SeeStop, Goto, Actors, TypeOK, files, scan, Report
<1>26. ASSUME NEW p \in Procs, Terminate(p)
      PROVE  LaunchInv'
  BY <1>26 DEF Terminate, Goto, Actors, TypeOK, files, scan
<1>27. ASSUME NEW p \in Procs, LoopEnds(p)
      PROVE  LaunchInv'
  BY <1>27 DEF LoopEnds, Goto, Actors, TypeOK, files, scan
<1>28. ASSUME NEW p \in Procs, DrainFails(p)
      PROVE  LaunchInv'
  BY <1>28 DEF DrainFails, Goto, Actors, TypeOK, files, scan
<1>29. ASSUME NEW p \in Procs, Finish(p)
      PROVE  LaunchInv'
  BY <1>29 DEF Finish, Goto, Actors, TypeOK, files, scan, PrepareExit
<1>30. ASSUME NEW p \in Procs, Fail(p)
      PROVE  LaunchInv'
  BY <1>30 DEF Fail, Goto, Actors, TypeOK, files, scan, PrepareExit
<1>31. ASSUME NEW p \in Procs, SupervisorCrash(p)
      PROVE  LaunchInv'
  BY <1>31 DEF SupervisorCrash, Goto, Actors, TypeOK, files, scan
<1>32. ASSUME NEW p \in Procs, ChildEnds(p)
      PROVE  LaunchInv'
  BY <1>32 DEF ChildEnds, Goto, Actors, TypeOK, files, scan
<1>33. ASSUME NEW p \in Procs, KillTakesEffect(p)
      PROVE  LaunchInv'
  BY <1>33 DEF KillTakesEffect, Goto, Actors, TypeOK, files, scan
<1>34. ASSUME NEW p \in Procs, Reap(p)
      PROVE  LaunchInv'
  BY <1>34 DEF Reap, Goto, Actors, TypeOK, files, scan
<1>35. ASSUME NEW p \in Procs, Age(p)
      PROVE  LaunchInv'
  BY <1>35 DEF Age, Goto, Actors, TypeOK, files, scan
<1>a. Clients \subseteq Actors /\ Procs \subseteq Actors
  BY DEF Actors
<1> QED
  BY <1>0, <1>a, <1>1, <1>2, <1>3, <1>4, <1>5, <1>6, <1>7, <1>8, <1>9, <1>10, <1>11,
     <1>12, <1>13, <1>14, <1>15, <1>16, <1>17, <1>18, <1>19, <1>20, <1>21, <1>22,
     <1>23, <1>24, <1>25, <1>26, <1>27, <1>28, <1>29, <1>30, <1>31, <1>32, <1>33,
     <1>34, <1>35, <1>36 DEF Next, ClientStep, ClientChoice, SupervisorStep, System, Scan

(* However many clients launch a record at the same time, and whatever is  *)
(* killed in between, at most one supervisor is started for it.            *)
THEOREM LaunchedOnceSafe == Spec => []LaunchedOnce
<1>1. LaunchInv => LaunchedOnce
  BY DEF LaunchInv, LaunchedOnce
<1> QED
  BY <1>1, InitTypeOK, NextTypeOK, InitLaunchInv, NextLaunchInv, PTL DEF Spec

-----------------------------------------------------------------------------
(* What goes on about a process, and who has a say in it                   *)

(* What the next theorems assume. No heartbeat is late before a launch has  *)
(* published what it started, and nobody launches what another created.     *)
Undisturbed == MayLag \cap {"created", "starting"} = {} /\ "relaunch" \notin Uses

(* A process is undertaken from its creation until its launch is given up   *)
(* or its supervisor has written the last status.                          *)
LaunchPcs == {"launchRead", "claim", "starting", "popen"}
Launches(c, p) == on[c] = p /\ pc[c] \in LaunchPcs
InLaunch(p) == \E c \in Clients : Launches(c, p)
Supervised(p) == SupervisorLive(p) /\ back[p] = "start"
Undertaken(p) == InLaunch(p) \/ Supervised(p)

(* Somebody has read the status of a process and will judge it.            *)
About(a, p) == (lock = a /\ reading = p) \/ (a \in Clients /\ pc[a] = "judge" /\ on[a] = p)

(* The lock is held by one who scans, and a record is read under it only.  *)
Locked ==
    /\ lock = None => reading = None
    /\ lock # None => pc[lock] \in {"count", "discover", "prune", "remove"}

(* Of a process that was not created there is nothing.                     *)
Absent ==
    \A p \in Procs : dir[p] = "absent" =>
        /\ status[p] = Blank /\ pc[p] = "none"
        /\ p \notin todo \cup found /\ reading # p /\ \A c \in Clients : on[c] # p

(* The command runs after the first prune of the supervisor, and not after  *)
(* its last status.                                                        *)
Staged ==
    \A p \in Procs :
        /\ back[p] \in {"start", "zombie"}
        /\ pc[p] \in ScanPcs \cup {"none", "start"} /\ back[p] = "start" => child[p] = "none"
        /\ back[p] = "zombie" => pc[p] \in ScanPcs \cup {"zombie", "gone"} /\ child[p] # "alive"
        /\ pc[p] = "none" => back[p] = "start"
        /\ pc[p] = "final" => child[p] = "ended"

(* A process is launched by one client, and has no supervisor yet.         *)
Launchers ==
    /\ \A c \in Clients : pc[c] \in LaunchPcs =>
          on[c] \in Procs /\ pc[on[c]] = "none" /\ status[on[c]].pids = "none"
    /\ \A c, d \in Clients : pc[c] \in LaunchPcs /\ pc[d] \in LaunchPcs /\ on[c] = on[d] => c = d

(* What is undertaken is there, and active.                                *)
Active ==
    \A p \in Procs : Undertaken(p) =>
        /\ dir[p] = "present" /\ status[p].state \in Nonterminal
        /\ status[p].pids = "none" => status[p].fresh

(* Who judges an undertaken process will find it active.                   *)
Observed ==
    \A a \in Actors, p \in Procs : About(a, p) =>
        /\ dir[p] # "absent"
        /\ Undertaken(p) => ~AbandonedLaunch(held[a])
        /\ InLaunch(p) => held[a].pids = "none"

(* A command whose record says how it ended does not run.                  *)
Ended ==
    \A p \in Procs : status[p].state \in Terminal /\ status[p].pids = "both" => child[p] # "alive"

Sound == TypeOK /\ Locked /\ Absent /\ Staged /\ Launchers /\ Active /\ Observed /\ Ended

(* Then the first status of a supervisor is not late either.               *)
LEMMA OnTime == Undisturbed => \A p : ~PublishLate(p)
  BY DEF Undisturbed, PublishLate

(* Clients and supervisors are actors of two kinds.                        *)
LEMMA ActorsApart ==
    /\ Procs \subseteq Actors /\ Clients \subseteq Actors /\ None \notin Actors
    /\ \A p \in Procs : p \notin Clients
    /\ \A c \in Clients : c \notin Procs
    /\ \A a \in Actors : a \in Procs \/ a \in Clients
  BY ActorsAssumption DEF Actors

(* At first nothing is created, locked or read.                            *)
LEMMA InitSound == Init => Sound
<1> SUFFICES ASSUME Init PROVE Sound
  OBVIOUS
<1> USE ActorsApart
<1>1. TypeOK
  BY InitTypeOK
<1>2. \A p \in Procs : pc[p] = "none" /\ back[p] = "start" /\ child[p] = "none"
                       /\ status[p] = Blank /\ dir[p] = "absent"
  BY DEF Init
<1>3. \A c \in Clients : pc[c] = "lockPrune" /\ on[c] = None
  BY DEF Init
<1>4. lock = None /\ reading = None /\ todo = {} /\ found = {}
  BY DEF Init
<1>5. Locked /\ Staged /\ Launchers /\ Ended
  BY <1>2, <1>3, <1>4 DEF Locked, Staged, Launchers, Ended, LaunchPcs, ScanPcs
<1>6. Absent
  BY <1>2, <1>3, <1>4 DEF Absent
<1>7. \A p \in Procs : ~Undertaken(p)
  BY <1>2, <1>3 DEF Undertaken, InLaunch, Launches, LaunchPcs, Supervised, SupervisorLive
<1>8. Active
  BY <1>7 DEF Active
<1>9. \A a \in Actors, p \in Procs : ~About(a, p)
  BY <1>3, <1>4 DEF About
<1>10. Observed
  BY <1>9 DEF Observed
<1> QED
  BY <1>1, <1>5, <1>6, <1>8, <1>10 DEF Sound

(* One who scans keeps the lock until the scan is done.                    *)
Scanning == {"count", "discover", "prune", "remove"}

(* The lock passes from one scan to the next.                              *)
LEMMA StepLocked ==
    ASSUME TypeOK, Locked, Launchers, [Next]_vars
    PROVE  Locked'
<1> USE ActorsApart DEF Locked, Scanning
<1>1. ASSUME NEW a \in Actors, NEW to, Goto(a, to), UNCHANGED <<lock, reading>>,
             pc[a] \notin Scanning
      PROVE  Locked'
  BY <1>1 DEF Goto, TypeOK
<1>2. ASSUME NEW a \in Actors, NEW l \in Scanning, TakeLock(a, l)
      PROVE  Locked'
  BY <1>2 DEF TakeLock, Goto, TypeOK
<1>3. ASSUME NEW a \in Actors, lock = a, Unlock(a), reading = None, UNCHANGED reading
      PROVE  Locked'
  BY <1>3 DEF Unlock
<1>4. ASSUME lock # None, UNCHANGED <<lock, pc>>
      PROVE  Locked'
  BY <1>4
<1>5. ASSUME UNCHANGED <<lock, pc, reading>>
      PROVE  Locked'
  BY <1>5
<1>6. ASSUME NEW a \in Actors, Unlock(a), Goto(a, "lockPrune") \/ Goto(a, "zombie"),
             lock = a => reading' = None, lock # a => UNCHANGED reading
      PROVE  Locked'
  BY <1>6 DEF Unlock, Goto, TypeOK
<1>7. ASSUME NEW a \in Actors, Scan(a)
      PROVE  Locked'
  <2>1. CASE StartPrune(a)
    BY <1>2, <2>1 DEF StartPrune
  <2>2. CASE ScanRead(a) \/ ScanJudge(a) \/ Remove(a)
    <3>1. lock # None /\ UNCHANGED <<lock, pc>>
      BY <2>2 DEF ScanRead, ScanJudge, Remove
    <3> QED
      BY <1>4, <3>1
  <2>3. CASE ChooseVictims(a)
    BY <2>3 DEF ChooseVictims, ScanDone, Goto, TypeOK
  <2>4. CASE EndPrune(a)
    BY <1>3, <2>4 DEF EndPrune, ScanDone, scan
  <2> QED
    BY <1>7, <2>1, <2>2, <2>3, <2>4 DEF Scan
<1>8. ASSUME NEW c \in Clients, ClientStep(c) \/ ClientChoice(c) \/ ClientCrash(c)
      PROVE  Locked'
  <2>1. CASE Create(c) \/ EndDiscover(c)
    BY <1>3, <2>1 DEF Create, EndDiscover, ScanDone, scan
  <2>2. CASE LaunchRead(c) \/ Claim(c) \/ WriteStarting(c)
    BY <1>1, <2>2 DEF LaunchRead, Claim, WriteStarting, GiveUp, scan
  <2>3. CASE Popen(c)
    BY <2>3 DEF Popen, Launchers, LaunchPcs, TypeOK, scan
  <2>4. CASE PopenFails(c) \/ GetRead(c) \/ GetJudge(c)
    BY <1>1, <2>4 DEF PopenFails, GetRead, GetJudge, GiveUp, scan
  <2>5. CASE StartCreate(c) \/ StartDiscover(c)
    BY <1>2, <2>5 DEF StartCreate, StartDiscover
  <2>6. CASE Relaunch(c) \/ StartGet(c)
    BY <1>1, <2>6 DEF Relaunch, StartGet, scan
  <2>7. CASE RequestStop(c)
    BY <1>5, <2>7 DEF RequestStop, scan
  <2>8. CASE ClientCrash(c)
    BY <1>6, <2>8 DEF ClientCrash, scan
  <2> QED
    BY <1>7, <1>8, <2>1, <2>2, <2>3, <2>4, <2>5, <2>6, <2>7, <2>8 DEF ClientStep, ClientChoice
<1>9. ASSUME NEW p \in Procs, SupervisorStep(p) \/ SupervisorCrash(p) \/ System(p)
      PROVE  Locked'
  <2>1. CASE ReadSpec(p) \/ Publish(p) \/ PublishLate(p) \/ Heartbeat(p) \/ SeeStop(p)
    BY <1>1, <2>1 DEF ReadSpec, Publish, PublishLate, Heartbeat, SeeStop, Report, scan
  <2>2. CASE Terminate(p) \/ LoopEnds(p) \/ DrainFails(p)
    BY <1>1, <2>2 DEF Terminate, LoopEnds, DrainFails, scan
  <2>3. CASE Finish(p) \/ Fail(p) \/ Reap(p)
    BY <1>1, <2>3 DEF Finish, Fail, PrepareExit, Reap, scan
  <2>4. CASE SupervisorCrash(p)
    BY <1>6, <2>4 DEF SupervisorCrash, scan
  <2>5. CASE ChildEnds(p) \/ KillTakesEffect(p) \/ Age(p)
    BY <1>5, <2>5 DEF ChildEnds, KillTakesEffect, Age, scan
  <2> QED
    BY <1>7, <1>9, <2>1, <2>2, <2>3, <2>4, <2>5 DEF SupervisorStep, System
<1>10. CASE UNCHANGED vars
  BY <1>5, <1>10 DEF vars, scan
<1> QED
  BY <1>8, <1>9, <1>10 DEF Next

-----------------------------------------------------------------------------
(* What a step may do                                                      *)

(* A process is created once.                                              *)
Created(p) ==
    dir[p] = "absent" /\ \E c \in Clients : Create(c) /\ dir' = [dir EXCEPT ![p] = "present"]

(* Directories come and go by creation and by the removal of what is over.  *)
LEMMA StepDir ==
    ASSUME TypeOK, [Next]_vars, NEW p \in Procs
    PROVE  \/ dir'[p] = dir[p]
           \/ Created(p)
           \/ /\ dir'[p] = "removed" /\ status[p].state \in Terminal /\ p \in todo
              /\ \E a \in Actors : Remove(a)
<1> USE DEF TypeOK
<1>1. CASE UNCHANGED dir
  BY <1>1
<1>2. ASSUME NEW a \in Actors, Scan(a), ~UNCHANGED dir
      PROVE  Remove(a)
  BY <1>2 DEF Scan, StartPrune, TakeLock, ScanRead, ScanJudge, ChooseVictims, EndPrune, files
<1>3. ASSUME NEW a \in Actors, Remove(a), dir'[p] # dir[p]
      PROVE  dir'[p] = "removed" /\ status[p].state \in Terminal /\ p \in todo
  BY <1>3 DEF Remove, Prunable
<1>4. ASSUME NEW c \in Clients, ClientStep(c) \/ ClientChoice(c) \/ ClientCrash(c),
             ~UNCHANGED dir
      PROVE  Scan(c) \/ Create(c)
  BY <1>4 DEF ClientStep, ClientChoice, ClientCrash, EndDiscover, LaunchRead, Claim,
     WriteStarting, Popen, PopenFails, GetRead, GetJudge, StartCreate, StartDiscover, TakeLock,
     Relaunch, StartGet, RequestStop, files
<1>5. ASSUME NEW c \in Clients, Create(c), dir'[p] # dir[p]
      PROVE  Created(p)
  <2>1. PICK q \in Procs : dir[q] = "absent" /\ dir' = [dir EXCEPT ![q] = "present"]
    BY <1>5 DEF Create
  <2>2. q = p
    BY <1>5, <2>1
  <2> QED
    BY <1>5, <2>1, <2>2 DEF Created
<1>6. ASSUME NEW q \in Procs, SupervisorStep(q) \/ SupervisorCrash(q) \/ System(q),
             ~UNCHANGED dir
      PROVE  Scan(q)
  BY <1>6 DEF SupervisorStep, SupervisorCrash, System, ReadSpec, Publish, PublishLate,
     Heartbeat, SeeStop, Terminate, LoopEnds, DrainFails, Finish, Fail, ChildEnds,
     KillTakesEffect, Reap, Age, files
<1>7. CASE UNCHANGED vars
  BY <1>7 DEF vars, files
<1> QED
  BY <1>1, <1>2, <1>3, <1>4, <1>5, <1>6, <1>7, ActorsApart DEF Next

(* A command begins when its supervisor has read the record.               *)
LEMMA StepChild ==
    ASSUME TypeOK, [Next]_vars, NEW p \in Procs, child'[p] # child[p]
    PROVE  \/ ReadSpec(p) /\ child' = [child EXCEPT ![p] = "alive"]
           \/ child'[p] # "alive" /\ child[p] # "none"
<1> USE DEF TypeOK
<1>1. ASSUME NEW a \in Actors, Scan(a)
      PROVE  UNCHANGED child
  BY <1>1 DEF Scan, StartPrune, TakeLock, ScanRead, ScanJudge, ChooseVictims, Remove, EndPrune
<1>2. ASSUME NEW c \in Clients, ClientStep(c) \/ ClientChoice(c) \/ ClientCrash(c)
      PROVE  UNCHANGED child
  BY <1>1, <1>2, ActorsApart DEF ClientStep, ClientChoice, ClientCrash, Create, EndDiscover,
     LaunchRead, Claim, WriteStarting, Popen, PopenFails, GetRead, GetJudge, StartCreate,
     StartDiscover, TakeLock, Relaunch, StartGet, RequestStop
<1>3. ASSUME NEW q \in Procs, SupervisorStep(q) \/ SupervisorCrash(q) \/ System(q),
             ~UNCHANGED child
      PROVE  \/ ReadSpec(q) /\ child' = [child EXCEPT ![q] = "alive"]
             \/ Terminate(q) \/ Fail(q) \/ ChildEnds(q) \/ KillTakesEffect(q)
  BY <1>1, <1>3, ActorsApart DEF SupervisorStep, SupervisorCrash, System, ReadSpec, Publish,
     PublishLate, Heartbeat, SeeStop, LoopEnds, DrainFails, Finish, Reap, Age
<1>4. ASSUME NEW q \in Procs, Terminate(q) \/ Fail(q) \/ ChildEnds(q) \/ KillTakesEffect(q)
      PROVE  child'[p] # "alive" /\ child[p] # "none"
  BY <1>4 DEF Terminate, Fail, ChildEnds, KillTakesEffect, Terminated
<1>5. ~UNCHANGED vars
  BY DEF vars
<1> QED
  BY <1>2, <1>3, <1>4, <1>5 DEF Next

(* An observer judges what it read, and a launch or a supervisor writes.    *)
Judges(a, p) ==
    /\ About(a, p) /\ (ScanJudge(a) \/ (a \in Clients /\ GetJudge(a)))
    /\ Disappeared(p, held[a]) \/ AbandonedLaunch(held[a])
    /\ status' = [status EXCEPT ![p] = [held[a] EXCEPT !.state = "unavailable"]]

LaunchWrites(c, p) ==
    /\ on[c] = p
    /\ \/ WriteStarting(c) /\ WriteStatus(p, "starting", "none")
       \/ PopenFails(c) /\ WriteStatus(p, "unavailable", "none")

SupervisorWrites(p) ==
    \/ Publish(p) /\ Report(p, "running", "loop")
    \/ Heartbeat(p) /\ Report(p, "running", "loop")
    \/ SeeStop(p) /\ Report(p, "stopping", "term")
    \/ Finish(p) /\ \E s \in {"exited", "stopped"} : WriteStatus(p, s, "both")
    \/ Fail(p) /\ \E q \in {"supervisor", "both"} : WriteStatus(p, "unavailable", q)

-----------------------------------------------------------------------------
(* Who writes a status.                                                    *)
LEMMA StepStatus ==
    ASSUME TypeOK, Undisturbed, [Next]_vars, NEW p \in Procs, status'[p] # status[p]
    PROVE  \/ Age(p)
           \/ SupervisorWrites(p)
           \/ \E c \in Clients : LaunchWrites(c, p)
           \/ \E a \in Actors : Judges(a, p)
<1> USE DEF TypeOK
<1>1. ASSUME NEW a \in Actors, NEW q \in Procs, PersistUnavailable(q, held[a])
      PROVE  /\ q = p
             /\ Disappeared(p, held[a]) \/ AbandonedLaunch(held[a])
             /\ status' = [status EXCEPT ![p] = [held[a] EXCEPT !.state = "unavailable"]]
  <2>1. Judged(q, held[a]) # held[a] /\ status' = [status EXCEPT ![q] = Judged(q, held[a])]
    BY <1>1 DEF PersistUnavailable
  <2>2. q = p
    BY <2>1
  <2> QED
    BY <2>1, <2>2 DEF Judged
<1>2. ASSUME NEW a \in Actors, Scan(a)
      PROVE  Judges(a, p)
  <2>1. ScanJudge(a)
    BY <1>2 DEF Scan, StartPrune, TakeLock, ScanRead, ChooseVictims, Remove, EndPrune, files
  <2>2. lock = a /\ reading \in Procs /\ PersistUnavailable(reading, held[a])
    BY <2>1 DEF ScanJudge
  <2> QED
    BY <1>1, <2>1, <2>2 DEF Judges, About
<1>3. ASSUME NEW c \in Clients, ClientStep(c) \/ ClientChoice(c) \/ ClientCrash(c)
      PROVE  (\E d \in Clients : LaunchWrites(d, p)) \/ (\E a \in Actors : Judges(a, p))
  <2>1. \/ Scan(c) \/ WriteStarting(c) \/ PopenFails(c) \/ GetJudge(c)
    BY <1>3 DEF ClientStep, ClientChoice, ClientCrash, Create, EndDiscover, LaunchRead, Claim,
       Popen, GetRead, StartCreate, StartDiscover, TakeLock, Relaunch, StartGet, RequestStop,
          files
  <2>2. CASE WriteStarting(c) \/ PopenFails(c)
    <3>1. on[c] = p
      BY <2>2 DEF WriteStarting, PopenFails, WriteStatus, Present
    <3> QED
      BY <2>2, <3>1 DEF WriteStarting, PopenFails, LaunchWrites, WriteStatus
  <2>3. CASE GetJudge(c)
    <3>1. pc[c] = "judge" /\ on[c] \in Procs /\ PersistUnavailable(on[c], held[c])
      BY <2>3 DEF GetJudge, Present
    <3>2. Judges(c, p)
      BY <1>1, <2>3, <3>1, ActorsApart DEF Judges, About
    <3> QED
      BY <3>2, ActorsApart
  <2> QED
    BY <1>2, <2>1, <2>2, <2>3, ActorsApart
<1>4. ASSUME NEW q \in Procs, SupervisorStep(q) \/ SupervisorCrash(q) \/ System(q)
      PROVE  Age(p) \/ SupervisorWrites(p) \/ (\E a \in Actors : Judges(a, p))
  <2>1. \/ Scan(q) \/ Publish(q) \/ Heartbeat(q) \/ SeeStop(q)
        \/ Finish(q) \/ Fail(q) \/ Age(q)
    BY <1>4, OnTime DEF SupervisorStep, SupervisorCrash, System, ReadSpec, Terminate, LoopEnds,
       DrainFails, ChildEnds, KillTakesEffect, Reap, files
  <2>2. CASE Publish(q) \/ Heartbeat(q) \/ SeeStop(q)
    <3>1. q = p
      BY <2>2 DEF Publish, Heartbeat, SeeStop, Report, WriteStatus
    <3> QED
      BY <2>2, <3>1 DEF Publish, Heartbeat, SeeStop, SupervisorWrites
  <2>3. CASE Finish(q) \/ Fail(q)
    <3>1. q = p
      BY <2>3 DEF Finish, Fail, WriteStatus
    <3> QED
      BY <2>3, <3>1 DEF Finish, Fail, SupervisorWrites
  <2>4. CASE Age(q)
    BY <2>4 DEF Age
  <2> QED
    BY <1>2, <2>1, <2>2, <2>3, <2>4, ActorsApart
<1>5. ~UNCHANGED vars
  BY DEF vars, files
<1> QED
  BY <1>3, <1>4, <1>5 DEF Next

(* Who judges a status read it before, or reads it now.                     *)
LEMMA StepAbout ==
    ASSUME TypeOK, Locked, Absent, [Next]_vars, NEW p \in Procs, NEW a \in Actors, About(a, p)'
    PROVE  \/ About(a, p) /\ held'[a] = held[a]
           \/ /\ held'[a] = status[p] /\ dir[p] # "absent"
              /\ UNCHANGED <<dir, status>> /\ (ScanRead(a) \/ GetRead(a))
<1> USE ActorsApart DEF TypeOK
<1>1. ASSUME NEW b \in Actors, NEW to, Goto(b, to), to # "judge", UNCHANGED <<held, reading>>,
             UNCHANGED lock \/ Unlock(b),
             UNCHANGED on \/ \E q : on' = [on EXCEPT ![b] = q]
      PROVE  About(a, p) /\ held'[a] = held[a]
  BY <1>1 DEF About, Goto, Unlock
<1>2. ASSUME NEW b \in Actors, NEW l, l # "judge", TakeLock(b, l)
      PROVE  About(a, p) /\ held'[a] = held[a]
  BY <1>2 DEF About, TakeLock, Goto, Locked
<1>3. ASSUME UNCHANGED <<pc, lock, reading, on, held>>
      PROVE  About(a, p) /\ held'[a] = held[a]
  BY <1>3 DEF About
<1>4. ASSUME NEW b \in Actors, Unlock(b), Goto(b, "lockPrune") \/ Goto(b, "zombie"),
             lock = b => reading' = None, lock # b => UNCHANGED reading,
             held' = [held EXCEPT ![b] = Blank],
             UNCHANGED on \/ \E q : on' = [on EXCEPT ![b] = q]
      PROVE  About(a, p) /\ held'[a] = held[a]
  BY <1>4 DEF About, Goto, Unlock
<1>5. ASSUME NEW b \in Actors, Scan(b)
      PROVE  \/ About(a, p) /\ held'[a] = held[a]
             \/ /\ held'[a] = status[p] /\ dir[p] # "absent"
                /\ UNCHANGED <<dir, status>> /\ ScanRead(a)
  <2>1. CASE StartPrune(b)
    BY <1>2, <2>1 DEF StartPrune
  <2>2. CASE ScanRead(b)
    <3>1. PICK q \in todo : /\ reading' = q /\ held' = [held EXCEPT ![b] = status[q]]
                            /\ lock = b /\ UNCHANGED <<dir, status, lock, pc, on>>
      BY <2>2 DEF ScanRead, files
    <3>2. CASE a = b
      <4>1. p = q
        BY <3>1, <3>2 DEF About, Locked
      <4>2. dir[p] # "absent"
        BY <3>1, <4>1 DEF Absent
      <4> QED
        BY <2>2, <3>1, <3>2, <4>1, <4>2
    <3>3. CASE a # b
      BY <3>1, <3>3 DEF About
    <3> QED
      BY <3>2, <3>3
  <2>3. CASE ScanJudge(b)
    <3>1. /\ lock = b /\ reading' = None /\ held' = [held EXCEPT ![b] = Blank]
          /\ UNCHANGED <<lock, pc, on>>
      BY <2>3 DEF ScanJudge
    <3> QED
      BY <3>1 DEF About, Locked
  <2>4. CASE ChooseVictims(b)
    BY <1>1, <2>4 DEF ChooseVictims
  <2>5. CASE Remove(b)
    BY <1>3, <2>5 DEF Remove
  <2>6. CASE EndPrune(b)
    <3>1. back[b] # "judge"
      OBVIOUS
    <3> QED
      BY <1>1, <2>6, <3>1 DEF EndPrune, scan
  <2> QED
    BY <1>5, <2>1, <2>2, <2>3, <2>4, <2>5, <2>6 DEF Scan
<1>6. ASSUME NEW c \in Clients, ClientStep(c) \/ ClientChoice(c) \/ ClientCrash(c)
      PROVE  \/ About(a, p) /\ held'[a] = held[a]
             \/ /\ held'[a] = status[p] /\ dir[p] # "absent"
                /\ UNCHANGED <<dir, status>> /\ (ScanRead(a) \/ GetRead(a))
  <2>1. CASE Create(c) \/ EndDiscover(c)
    <3>1. PICK to \in {"idle", "launchRead"} : Goto(c, to)
      BY <2>1 DEF Create, EndDiscover
    <3>2. /\ Unlock(c) /\ UNCHANGED <<held, reading>>
          /\ UNCHANGED on \/ \E q : on' = [on EXCEPT ![c] = q]
      BY <2>1 DEF Create, EndDiscover, scan
    <3> QED
      BY <1>1, <3>1, <3>2
  <2>2. CASE LaunchRead(c) \/ Claim(c) \/ WriteStarting(c) \/ PopenFails(c)
    <3>1. PICK to \in {"idle", "claim", "starting", "popen", "lockPrune"} : Goto(c, to)
      BY <2>2 DEF LaunchRead, Claim, WriteStarting, PopenFails, GiveUp
    <3>2. /\ UNCHANGED <<held, reading, lock>>
          /\ UNCHANGED on \/ \E q : on' = [on EXCEPT ![c] = q]
      BY <2>2 DEF LaunchRead, Claim, WriteStarting, PopenFails, GiveUp, scan
    <3> QED
      BY <1>1, <3>1, <3>2
  <2>3. CASE Popen(c)
    BY <2>3 DEF Popen, About, scan
  <2>4. CASE GetRead(c)
    <3>1. /\ pc[c] = "read" /\ UNCHANGED <<lock, reading, dir, status>>
          /\ \A b \in Actors \ {c} : pc'[b] = pc[b] /\ held'[b] = held[b]
          /\ \A b \in Clients \ {c} : on'[b] = on[b]
      BY <2>4 DEF GetRead, Goto, GiveUp, scan, files
    <3>2. CASE a # c
      BY <3>1, <3>2 DEF About
    <3>3. CASE a = c
      <4>1. pc'[c] = "judge" /\ on'[c] = p
        BY <3>1, <3>3 DEF About, Locked
      <4>2. on[c] \in Present /\ held'[c] = status[on[c]] /\ on'[c] = on[c]
        BY <2>4, <4>1 DEF GetRead, GiveUp, Goto
      <4> QED
        BY <2>4, <3>1, <3>3, <4>1, <4>2 DEF Present
    <3> QED
      BY <3>2, <3>3
  <2>5. CASE GetJudge(c)
    <3>1. /\ pc[c] = "judge" /\ UNCHANGED <<lock, reading>> /\ pc'[c] = "idle"
          /\ \A b \in Actors \ {c} : pc'[b] = pc[b] /\ held'[b] = held[b]
          /\ \A b \in Clients \ {c} : on'[b] = on[b]
      BY <2>5 DEF GetJudge, Goto, GiveUp, scan
    <3> QED
      BY <3>1 DEF About, Locked
  <2>6. CASE StartCreate(c) \/ StartDiscover(c)
    BY <1>2, <2>6 DEF StartCreate, StartDiscover
  <2>7. CASE Relaunch(c) \/ StartGet(c)
    <3>1. PICK to \in {"launchRead", "read"} : Goto(c, to)
      BY <2>7 DEF Relaunch, StartGet
    <3>2. UNCHANGED <<held, reading, lock>> /\ \E q : on' = [on EXCEPT ![c] = q]
      BY <2>7 DEF Relaunch, StartGet, scan
    <3> QED
      BY <1>1, <3>1, <3>2
  <2>8. CASE RequestStop(c)
    BY <1>3, <2>8 DEF RequestStop, scan
  <2>9. CASE ClientCrash(c)
    BY <1>4, <2>9 DEF ClientCrash, scan
  <2> QED
    BY <1>5, <1>6, <2>1, <2>2, <2>3, <2>4, <2>5, <2>6, <2>7, <2>8, <2>9
       DEF ClientStep, ClientChoice
<1>7. ASSUME NEW q \in Procs, SupervisorStep(q) \/ SupervisorCrash(q) \/ System(q)
      PROVE  \/ About(a, p) /\ held'[a] = held[a]
             \/ /\ held'[a] = status[p] /\ dir[p] # "absent"
                /\ UNCHANGED <<dir, status>> /\ ScanRead(a)
  <2>1. CASE ReadSpec(q) \/ Publish(q) \/ PublishLate(q) \/ Heartbeat(q) \/ SeeStop(q)
    <3>1. PICK to \in {"publish", "fail", "zombie", "loop", "term"} : Goto(q, to)
      BY <2>1 DEF ReadSpec, Publish, PublishLate, Heartbeat, SeeStop, Report
    <3>2. UNCHANGED <<held, reading, lock, on>>
      BY <2>1 DEF ReadSpec, Publish, PublishLate, Heartbeat, SeeStop, scan
    <3> QED
      BY <1>1, <3>1, <3>2
  <2>2. CASE Terminate(q) \/ LoopEnds(q) \/ DrainFails(q) \/ Finish(q) \/ Fail(q) \/ Reap(q)
    <3>1. PICK to \in {"loop", "final", "fail", "lockPrune", "gone"} : Goto(q, to)
      BY <2>2 DEF Terminate, LoopEnds, DrainFails, Finish, Fail, PrepareExit, Reap
    <3>2. UNCHANGED <<held, reading, lock, on>>
      BY <2>2 DEF Terminate, LoopEnds, DrainFails, Finish, Fail, Reap, scan
    <3> QED
      BY <1>1, <3>1, <3>2
  <2>3. CASE SupervisorCrash(q)
    BY <1>4, <2>3 DEF SupervisorCrash, scan
  <2>4. CASE ChildEnds(q) \/ KillTakesEffect(q) \/ Age(q)
    BY <1>3, <2>4 DEF ChildEnds, KillTakesEffect, Age, scan
  <2> QED
    BY <1>5, <1>7, <2>1, <2>2, <2>3, <2>4 DEF SupervisorStep, System
<1>8. CASE UNCHANGED vars
  BY <1>3, <1>8 DEF vars, scan
<1> QED
  BY <1>6, <1>7, <1>8 DEF Next

-----------------------------------------------------------------------------
(* A launch begins with the creation of the process.                       *)
LEMMA StepLaunches ==
    ASSUME TypeOK, Undisturbed, [Next]_vars, NEW p, NEW c \in Clients, Launches(c, p)'
    PROVE  Launches(c, p) \/ (p \in Procs /\ Created(p) /\ Create(c))
<1> USE ActorsApart DEF TypeOK, Launches, LaunchPcs
<1>1. ASSUME UNCHANGED <<pc, on>>
      PROVE  Launches(c, p)
  BY <1>1
<1>2. ASSUME NEW a \in Actors, NEW to, Goto(a, to), to \notin LaunchPcs,
             UNCHANGED on \/ \E q : on' = [on EXCEPT ![a] = q]
      PROVE  Launches(c, p)
  BY <1>2 DEF Goto
<1>3. ASSUME NEW a \in Actors, Scan(a)
      PROVE  Launches(c, p)
  <2>1. CASE StartPrune(a) \/ ChooseVictims(a)
    BY <1>2, <2>1 DEF StartPrune, TakeLock, ChooseVictims
  <2>2. CASE ScanRead(a) \/ ScanJudge(a) \/ Remove(a)
    BY <1>1, <2>2 DEF ScanRead, ScanJudge, Remove
  <2>3. CASE EndPrune(a)
    <3>1. back[a] \notin LaunchPcs
      OBVIOUS
    <3> QED
      BY <1>2, <2>3, <3>1 DEF EndPrune
  <2> QED
    BY <1>3, <2>1, <2>2, <2>3 DEF Scan
<1>4. ASSUME NEW d \in Clients, ClientStep(d) \/ ClientChoice(d) \/ ClientCrash(d)
      PROVE  Launches(c, p) \/ (p \in Procs /\ Created(p) /\ Create(c))
  <2>1. CASE Create(d)
    <3>1. CASE Goto(d, "idle") /\ UNCHANGED on
      BY <1>2, <3>1
    <3>2. CASE \E q \in Procs : /\ dir[q] = "absent" /\ dir' = [dir EXCEPT ![q] = "present"]
                                /\ on' = [on EXCEPT ![d] = q] /\ Goto(d, "launchRead")
      <4>1. c # d => Launches(c, p)
        BY <3>2 DEF Goto
      <4>2. c = d => p \in Procs /\ Created(p)
        BY <2>1, <3>2 DEF Created
      <4> QED
        BY <2>1, <4>1, <4>2
    <3> QED
      BY <2>1, <3>1, <3>2 DEF Create
  <2>2. CASE LaunchRead(d) \/ Claim(d) \/ WriteStarting(d)
    <3>1. c # d => Launches(c, p)
      BY <2>2 DEF LaunchRead, Claim, WriteStarting, GiveUp, Goto
    <3>2. c = d => Launches(c, p)
      BY <2>2 DEF LaunchRead, Claim, WriteStarting, GiveUp, Goto
    <3> QED
      BY <3>1, <3>2
  <2>3. CASE Popen(d)
    BY <2>3 DEF Popen
  <2>4. CASE EndDiscover(d) \/ PopenFails(d) \/ GetJudge(d) \/ ClientCrash(d)
    BY <1>2, <2>4 DEF EndDiscover, PopenFails, GetJudge, ClientCrash, GiveUp
  <2>5. CASE StartCreate(d) \/ StartDiscover(d) \/ StartGet(d)
    BY <1>2, <2>5 DEF StartCreate, StartDiscover, TakeLock, StartGet
  <2>6. CASE GetRead(d)
    BY <1>2, <2>6 DEF GetRead, GiveUp
  <2>7. CASE RequestStop(d)
    BY <1>1, <2>7 DEF RequestStop
  <2>8. ~Relaunch(d)
    BY DEF Relaunch, Undisturbed
  <2> QED
    BY <1>3, <1>4, <2>1, <2>2, <2>3, <2>4, <2>5, <2>6, <2>7, <2>8 DEF ClientStep, ClientChoice
<1>5. ASSUME NEW q \in Procs, SupervisorStep(q) \/ SupervisorCrash(q) \/ System(q)
      PROVE  Launches(c, p)
  <2>1. CASE ReadSpec(q) \/ Publish(q) \/ PublishLate(q) \/ Heartbeat(q) \/ SeeStop(q)
    BY <1>2, <2>1 DEF ReadSpec, Publish, PublishLate, Heartbeat, SeeStop, Report
  <2>2. CASE Terminate(q) \/ LoopEnds(q) \/ DrainFails(q) \/ Finish(q) \/ Fail(q) \/ Reap(q)
    BY <1>2, <2>2 DEF Terminate, LoopEnds, DrainFails, Finish, Fail, PrepareExit, Reap
  <2>3. CASE SupervisorCrash(q)
    BY <1>2, <2>3 DEF SupervisorCrash
  <2>4. CASE ChildEnds(q) \/ KillTakesEffect(q) \/ Age(q)
    BY <1>1, <2>4 DEF ChildEnds, KillTakesEffect, Age
  <2> QED
    BY <1>3, <1>5, <2>1, <2>2, <2>3, <2>4 DEF SupervisorStep, System
<1>6. CASE UNCHANGED vars
  BY <1>1, <1>6 DEF vars
<1> QED
  BY <1>4, <1>5, <1>6 DEF Next

(* A supervisor begins with a launch.                                      *)
LEMMA StepSupervised ==
    ASSUME TypeOK, Staged, Launchers, [Next]_vars, NEW p \in Procs, Supervised(p)'
    PROVE  Supervised(p) \/ \E c \in Clients : Popen(c) /\ on[c] = p
<1> USE ActorsApart DEF TypeOK, Supervised, SupervisorLive
<1>1. ASSUME pc'[p] = pc[p],
             UNCHANGED back \/ \E c \in Clients : \E x : back' = [back EXCEPT ![c] = x]
      PROVE  Supervised(p)
  BY <1>1
<1>2. ASSUME NEW c \in Clients, NEW to, Goto(c, to),
             UNCHANGED back \/ \E x : back' = [back EXCEPT ![c] = x]
      PROVE  Supervised(p)
  BY <1>1, <1>2 DEF Goto
<1>3. ASSUME NEW a \in Actors, Scan(a)
      PROVE  Supervised(p)
  <2>1. CASE StartPrune(a) \/ ChooseVictims(a) \/ EndPrune(a)
    <3>1. /\ a = p => pc[p] \notin {"none", "zombie", "gone"}
          /\ a # p => pc'[p] = pc[p]
          /\ UNCHANGED back
      BY <2>1 DEF StartPrune, TakeLock, ChooseVictims, EndPrune, ScanDone, Goto
    <3> QED
      BY <3>1
  <2>2. CASE ScanRead(a) \/ ScanJudge(a) \/ Remove(a)
    BY <1>1, <2>2 DEF ScanRead, ScanJudge, Remove
  <2> QED
    BY <1>3, <2>1, <2>2 DEF Scan
<1>4. ASSUME NEW c \in Clients, ClientStep(c) \/ ClientChoice(c) \/ ClientCrash(c)
      PROVE  Supervised(p) \/ (Popen(c) /\ on[c] = p)
  <2>1. CASE Create(c) \/ EndDiscover(c)
    BY <1>2, <2>1 DEF Create, EndDiscover
  <2>2. CASE LaunchRead(c) \/ Claim(c) \/ WriteStarting(c)
    BY <1>2, <2>2 DEF LaunchRead, Claim, WriteStarting, GiveUp
  <2>3. CASE Popen(c)
    <3>1. on[c] # p => pc'[p] = pc[p]
      BY <2>3 DEF Popen
    <3> QED
      BY <1>1, <2>3, <3>1 DEF Popen
  <2>4. CASE PopenFails(c) \/ GetRead(c) \/ GetJudge(c) \/ ClientCrash(c)
    BY <1>2, <2>4 DEF PopenFails, GetRead, GetJudge, ClientCrash, GiveUp
  <2>5. CASE StartCreate(c) \/ StartDiscover(c) \/ StartGet(c) \/ Relaunch(c)
    BY <1>2, <2>5 DEF StartCreate, StartDiscover, TakeLock, StartGet, Relaunch
  <2>6. CASE RequestStop(c)
    BY <1>1, <2>6 DEF RequestStop
  <2> QED
    BY <1>3, <1>4, <2>1, <2>2, <2>3, <2>4, <2>5, <2>6 DEF ClientStep, ClientChoice
<1>5. ASSUME NEW q \in Procs, SupervisorStep(q) \/ SupervisorCrash(q) \/ System(q)
      PROVE  Supervised(p)
  <2>1. CASE ReadSpec(q) \/ Publish(q) \/ PublishLate(q) \/ Heartbeat(q) \/ SeeStop(q)
    <3>1. /\ q = p => pc[p] \notin {"none", "zombie", "gone"}
          /\ q # p => pc'[p] = pc[p]
          /\ UNCHANGED back
      BY <2>1 DEF ReadSpec, Publish, PublishLate, Heartbeat, SeeStop, Report, Goto
    <3> QED
      BY <3>1
  <2>2. CASE Terminate(q) \/ LoopEnds(q) \/ DrainFails(q)
    <3>1. /\ q = p => pc[p] \notin {"none", "zombie", "gone"}
          /\ q # p => pc'[p] = pc[p]
          /\ UNCHANGED back
      BY <2>2 DEF Terminate, LoopEnds, DrainFails, Goto
    <3> QED
      BY <3>1
  <2>3. CASE Finish(q) \/ Fail(q)
    BY <2>3 DEF Finish, Fail, PrepareExit, Goto
  <2>4. CASE Reap(q) \/ SupervisorCrash(q)
    BY <2>4 DEF Reap, SupervisorCrash, Goto
  <2>5. CASE ChildEnds(q) \/ KillTakesEffect(q) \/ Age(q)
    BY <1>1, <2>5 DEF ChildEnds, KillTakesEffect, Age
  <2> QED
    BY <1>3, <1>5, <2>1, <2>2, <2>3, <2>4, <2>5 DEF SupervisorStep, System
<1>6. CASE UNCHANGED vars
  BY <1>1, <1>6 DEF vars
<1> QED
  BY <1>4, <1>5, <1>6 DEF Next

(* A process is undertaken from its creation on.                           *)
LEMMA StepUndertaken ==
    ASSUME TypeOK, Staged, Launchers, Undisturbed, [Next]_vars, NEW p \in Procs
    PROVE  /\ Undertaken(p)' => Undertaken(p) \/ Created(p)
           /\ InLaunch(p)' => InLaunch(p) \/ Created(p)
<1>1. InLaunch(p)' => InLaunch(p) \/ Created(p)
  BY StepLaunches DEF InLaunch
<1>2. Supervised(p)' => Undertaken(p)
  BY StepSupervised DEF Undertaken, InLaunch, Launches, Popen, LaunchPcs
<1> QED
  BY <1>1, <1>2 DEF Undertaken

(* After its last status a process is not undertaken any more.             *)
LEMMA LastWrites ==
    ASSUME TypeOK, Staged, Launchers, Undisturbed, [Next]_vars, NEW p \in Procs
    PROVE  /\ Finish(p) /\ p \in Present => ~Undertaken(p)'
           /\ Fail(p) => ~Undertaken(p)'
           /\ \A c \in Clients : PopenFails(c) /\ on[c] = p => ~Undertaken(p)'
<1> USE ActorsApart DEF TypeOK
<1>1. ASSUME (Finish(p) /\ p \in Present) \/ Fail(p)
      PROVE  ~Undertaken(p)'
  <2>1. back'[p] = "zombie" /\ pc[p] # "none" /\ ~Created(p)
    BY <1>1 DEF Finish, Fail, PrepareExit, Created, files
  <2>2. ~InLaunch(p)
    BY <2>1 DEF Launchers, InLaunch, Launches
  <2> QED
    BY <2>1, <2>2, StepUndertaken DEF Undertaken, Supervised
<1>2. ASSUME NEW c \in Clients, PopenFails(c), on[c] = p
      PROVE  ~Undertaken(p)'
  <2>1. pc[p] = "none" /\ \A d \in Clients : Launches(d, p) => d = c
    BY <1>2 DEF Launchers, Launches, PopenFails, LaunchPcs
  <2>2. pc'[p] = "none" /\ pc'[c] = "lockPrune" /\ on'[c] = None
    BY <1>2, <2>1 DEF PopenFails, Goto
  <2>3. \A d \in Clients \ {c} : on'[d] = on[d] /\ pc'[d] = pc[d]
    BY <1>2 DEF PopenFails, Goto
  <2>4. ~InLaunch(p)'
    BY <2>1, <2>2, <2>3 DEF InLaunch, Launches, LaunchPcs
  <2> QED
    BY <2>2, <2>4 DEF Undertaken, Supervised, SupervisorLive
<1> QED
  BY <1>1, <1>2

(* A supervisor prunes, watches its command, prunes again and ends.        *)
LEMMA StepStaged ==
    ASSUME TypeOK, Staged, Launchers, [Next]_vars
    PROVE  Staged'
<1> SUFFICES ASSUME NEW p \in Procs
             PROVE  /\ back'[p] \in {"start", "zombie"}
                    /\ pc'[p] \in ScanPcs \cup {"none", "start"} /\ back'[p] = "start"
                          => child'[p] = "none"
                    /\ back'[p] = "zombie"
                          => pc'[p] \in ScanPcs \cup {"zombie", "gone"} /\ child'[p] # "alive"
                    /\ pc'[p] = "none" => back'[p] = "start"
                    /\ pc'[p] = "final" => child'[p] = "ended"
  BY DEF Staged
<1> USE ActorsApart DEF TypeOK, Staged, ScanPcs
<1>1. CASE pc'[p] = pc[p] /\ back'[p] = back[p] /\ child'[p] = child[p]
  BY <1>1
<1>2. ASSUME NEW a \in Actors, NEW to, Goto(a, to), UNCHANGED <<back, child>>, a # p
      PROVE  pc'[p] = pc[p] /\ back'[p] = back[p] /\ child'[p] = child[p]
  BY <1>2 DEF Goto
<1>3. ASSUME NEW a \in Actors, Scan(a), a # p
      PROVE  pc'[p] = pc[p] /\ back'[p] = back[p] /\ child'[p] = child[p]
  BY <1>3 DEF Scan, StartPrune, TakeLock, ScanRead, ScanJudge, ChooseVictims, Remove, EndPrune,
     Goto
<1>4. CASE Scan(p)
  <2>1. CASE StartPrune(p) \/ ChooseVictims(p)
    BY <2>1 DEF StartPrune, TakeLock, ChooseVictims, ScanDone, Goto
  <2>2. CASE ScanRead(p) \/ ScanJudge(p) \/ Remove(p)
    BY <1>1, <2>2 DEF ScanRead, ScanJudge, Remove
  <2>3. CASE EndPrune(p)
    BY <2>3 DEF EndPrune, ScanDone, Goto
  <2> QED
    BY <1>4, <2>1, <2>2, <2>3 DEF Scan
<1>5. ASSUME NEW c \in Clients, ClientStep(c) \/ ClientChoice(c) \/ ClientCrash(c), ~Popen(c)
      PROVE  pc'[p] = pc[p] /\ back'[p] = back[p] /\ child'[p] = child[p]
  <2>1. CASE Create(c) \/ EndDiscover(c) \/ LaunchRead(c) \/ Claim(c) \/ WriteStarting(c)
    BY <2>1 DEF Create, EndDiscover, LaunchRead, Claim, WriteStarting, GiveUp, Goto
  <2>2. CASE PopenFails(c) \/ GetRead(c) \/ GetJudge(c) \/ ClientCrash(c)
    BY <2>2 DEF PopenFails, GetRead, GetJudge, ClientCrash, GiveUp, Goto
  <2>3. CASE StartCreate(c) \/ StartDiscover(c) \/ StartGet(c) \/ Relaunch(c) \/ RequestStop(c)
    BY <2>3 DEF StartCreate, StartDiscover, TakeLock, StartGet, Relaunch, RequestStop, Goto
  <2> QED
    BY <1>3, <1>5, <2>1, <2>2, <2>3 DEF ClientStep, ClientChoice
<1>6. ASSUME NEW c \in Clients, Popen(c)
      PROVE  /\ back'[p] = back[p] /\ child'[p] = child[p]
             /\ pc'[p] = pc[p] \/ (pc[p] = "none" /\ pc'[p] = "lockPrune")
  BY <1>6 DEF Popen, Launchers, LaunchPcs
<1>7. ASSUME NEW q \in Procs, SupervisorStep(q) \/ SupervisorCrash(q) \/ System(q), q # p
      PROVE  pc'[p] = pc[p] /\ back'[p] = back[p] /\ child'[p] = child[p]
  <2>1. CASE ReadSpec(q) \/ Publish(q) \/ PublishLate(q) \/ Heartbeat(q)
             \/ SeeStop(q) \/ Terminate(q)
    BY <1>7, <2>1 DEF ReadSpec, Publish, PublishLate, Heartbeat, SeeStop, Report, Terminate, Goto
  <2>2. CASE LoopEnds(q) \/ DrainFails(q) \/ Finish(q) \/ Fail(q)
    BY <1>7, <2>2 DEF LoopEnds, DrainFails, Finish, Fail, PrepareExit, Goto
  <2>3. CASE SupervisorCrash(q) \/ ChildEnds(q) \/ KillTakesEffect(q) \/ Reap(q) \/ Age(q)
    BY <1>7, <2>3 DEF SupervisorCrash, ChildEnds, KillTakesEffect, Reap, Age, Goto
  <2> QED
    BY <1>3, <1>7, <2>1, <2>2, <2>3 DEF SupervisorStep, System
<1>8. CASE SupervisorStep(p) \/ SupervisorCrash(p) \/ System(p)
  <2>1. CASE ReadSpec(p)
    BY <2>1 DEF ReadSpec, Goto
  <2>2. CASE Publish(p) \/ PublishLate(p) \/ Heartbeat(p) \/ SeeStop(p)
    BY <2>2 DEF Publish, PublishLate, Heartbeat, SeeStop, Report, Goto
  <2>3. CASE Terminate(p)
    BY <2>3 DEF Terminate, Terminated, Goto
  <2>4. CASE LoopEnds(p) \/ DrainFails(p)
    BY <2>4 DEF LoopEnds, DrainFails, Goto
  <2>5. CASE Finish(p)
    BY <2>5 DEF Finish, PrepareExit, Goto
  <2>6. CASE Fail(p)
    BY <2>6 DEF Fail, PrepareExit, Terminated, Goto
  <2>7. CASE SupervisorCrash(p) \/ Reap(p)
    BY <2>7 DEF SupervisorCrash, SupervisorLive, Reap, Goto
  <2>8. CASE ChildEnds(p) \/ KillTakesEffect(p) \/ Age(p)
    BY <2>8 DEF ChildEnds, KillTakesEffect, Age
  <2> QED
    BY <1>4, <1>8, <2>1, <2>2, <2>3, <2>4, <2>5, <2>6, <2>7, <2>8 DEF SupervisorStep, System
<1>9. CASE UNCHANGED vars
  BY <1>1, <1>9 DEF vars
<1> QED
  BY <1>1, <1>5, <1>6, <1>7, <1>8, <1>9 DEF Next

(* A supervisor is started by a launcher, and by nothing else.              *)
LEMMA StepBorn ==
    ASSUME TypeOK, [Next]_vars, NEW p \in Procs, pc[p] = "none", pc'[p] # "none"
    PROVE  \E c \in Clients : Popen(c) /\ on[c] = p
<1> USE ActorsApart DEF TypeOK
<1>1. ASSUME NEW a \in Actors, Scan(a)
      PROVE  FALSE
  BY <1>1 DEF Scan, StartPrune, TakeLock, ScanRead, ScanJudge, ChooseVictims, Remove, EndPrune,
     ScanDone, Goto
<1>2. ASSUME NEW c \in Clients, ClientStep(c) \/ ClientChoice(c) \/ ClientCrash(c)
      PROVE  Popen(c) /\ on[c] = p
  <2>1. CASE Create(c) \/ EndDiscover(c) \/ LaunchRead(c) \/ Claim(c) \/ WriteStarting(c)
    BY <2>1 DEF Create, EndDiscover, LaunchRead, Claim, WriteStarting, GiveUp, Goto
  <2>2. CASE PopenFails(c) \/ GetRead(c) \/ GetJudge(c) \/ ClientCrash(c)
    BY <2>2 DEF PopenFails, GetRead, GetJudge, ClientCrash, GiveUp, Goto
  <2>3. CASE StartCreate(c) \/ StartDiscover(c) \/ StartGet(c) \/ Relaunch(c) \/ RequestStop(c)
    BY <2>3 DEF StartCreate, StartDiscover, TakeLock, StartGet, Relaunch, RequestStop, Goto
  <2>4. CASE Popen(c)
    BY <2>4 DEF Popen
  <2> QED
    BY <1>1, <1>2, <2>1, <2>2, <2>3, <2>4 DEF ClientStep, ClientChoice
<1>3. ASSUME NEW q \in Procs, SupervisorStep(q) \/ SupervisorCrash(q) \/ System(q)
      PROVE  FALSE
  <2>1. CASE ReadSpec(q) \/ Publish(q) \/ PublishLate(q) \/ Heartbeat(q)
             \/ SeeStop(q) \/ Terminate(q)
    BY <2>1 DEF ReadSpec, Publish, PublishLate, Heartbeat, SeeStop, Report, Terminate, Goto
  <2>2. CASE LoopEnds(q) \/ DrainFails(q) \/ Finish(q) \/ Fail(q)
    BY <2>2 DEF LoopEnds, DrainFails, Finish, Fail, PrepareExit, Goto
  <2>3. CASE SupervisorCrash(q) \/ ChildEnds(q) \/ KillTakesEffect(q) \/ Reap(q) \/ Age(q)
    BY <2>3 DEF SupervisorCrash, SupervisorLive, ChildEnds, KillTakesEffect, Reap, Age, Goto
  <2> QED
    BY <1>1, <1>3, <2>1, <2>2, <2>3 DEF SupervisorStep, System
<1>4. ~UNCHANGED vars
  BY DEF vars
<1> QED
  BY <1>2, <1>3, <1>4 DEF Next

-----------------------------------------------------------------------------
(* A scan is about what is there, and a client about what is there or what  *)
(* it has just created.                                                    *)
LEMMA StepNames ==
    ASSUME TypeOK, Undisturbed, [Next]_vars
    PROVE  /\ todo' \cup found' \subseteq todo \cup found \cup Present \cup {reading}
           /\ reading' \in todo \cup {reading, None}
           /\ \A c \in Clients : \/ on'[c] \in Present \cup {on[c], None}
                                 \/ on'[c] \in Procs /\ Created(on'[c])
<1> USE ActorsApart DEF TypeOK
<1>1. CASE UNCHANGED <<scan, on>>
  BY <1>1 DEF scan
<1>2. ASSUME NEW a \in Actors, NEW l, TakeLock(a, l)
      PROVE  /\ todo' \cup found' \subseteq Present /\ UNCHANGED <<reading, on>>
  BY <1>2 DEF TakeLock
<1>3. ASSUME NEW a \in Actors, Scan(a)
      PROVE  /\ todo' \cup found' \subseteq todo \cup found \cup Present \cup {reading}
             /\ reading' \in todo \cup {reading, None} /\ UNCHANGED on
  <2>1. CASE StartPrune(a)
    BY <1>2, <2>1 DEF StartPrune
  <2>2. CASE ScanRead(a) \/ Remove(a) \/ EndPrune(a)
    BY <2>2 DEF ScanRead, Remove, EndPrune, scan
  <2>3. CASE ScanJudge(a)
    BY <2>3 DEF ScanJudge
  <2>4. CASE ChooseVictims(a)
    BY <2>4 DEF ChooseVictims
  <2> QED
    BY <1>3, <2>1, <2>2, <2>3, <2>4 DEF Scan
<1>4. ASSUME NEW d \in Clients, ClientStep(d) \/ ClientChoice(d) \/ ClientCrash(d)
      PROVE  /\ todo' \cup found' \subseteq todo \cup found \cup Present \cup {reading}
             /\ reading' \in todo \cup {reading, None}
             /\ \A c \in Clients : \/ on'[c] \in Present \cup {on[c], None}
                                   \/ on'[c] \in Procs /\ Created(on'[c])
  <2>1. CASE Create(d)
    <3>1. todo' \cup found' \subseteq todo /\ UNCHANGED reading
      BY <2>1 DEF Create
    <3>2. CASE UNCHANGED on
      BY <3>1, <3>2
    <3>3. CASE \E q \in Procs : /\ dir[q] = "absent" /\ dir' = [dir EXCEPT ![q] = "present"]
                                /\ on' = [on EXCEPT ![d] = q]
      <4>1. PICK q \in Procs : /\ dir[q] = "absent" /\ dir' = [dir EXCEPT ![q] = "present"]
                               /\ on' = [on EXCEPT ![d] = q]
        BY <3>3
      <4>2. Created(q) /\ on'[d] = q /\ \A c \in Clients \ {d} : on'[c] = on[c]
        BY <2>1, <4>1 DEF Created
      <4> QED
        BY <3>1, <4>2
    <3> QED
      BY <2>1, <3>2, <3>3 DEF Create
  <2>2. CASE LaunchRead(d) \/ Claim(d) \/ WriteStarting(d) \/ PopenFails(d)
    BY <2>2 DEF LaunchRead, Claim, WriteStarting, PopenFails, GiveUp, scan
  <2>3. CASE GetRead(d) \/ GetJudge(d) \/ StartGet(d) \/ ClientCrash(d)
    BY <2>3 DEF GetRead, GetJudge, StartGet, ClientCrash, GiveUp, scan
  <2>4. CASE StartCreate(d) \/ StartDiscover(d)
    BY <1>2, <2>4 DEF StartCreate, StartDiscover
  <2>5. CASE EndDiscover(d) \/ Popen(d) \/ RequestStop(d)
    BY <1>1, <2>5 DEF EndDiscover, Popen, RequestStop
  <2>6. ~Relaunch(d)
    BY DEF Relaunch, Undisturbed
  <2> QED
    BY <1>3, <1>4, <2>1, <2>2, <2>3, <2>4, <2>5, <2>6 DEF ClientStep, ClientChoice
<1>5. ASSUME NEW q \in Procs, SupervisorStep(q) \/ SupervisorCrash(q) \/ System(q)
      PROVE  /\ todo' \cup found' \subseteq todo \cup found \cup Present \cup {reading}
             /\ reading' \in todo \cup {reading, None} /\ UNCHANGED on
  <2>1. CASE SupervisorCrash(q)
    BY <2>1 DEF SupervisorCrash, scan
  <2>2. CASE ~SupervisorCrash(q) /\ ~Scan(q)
    BY <1>1, <1>5, <2>2 DEF SupervisorStep, System, ReadSpec, Publish, PublishLate, Heartbeat,
       SeeStop, Terminate, LoopEnds, DrainFails, Finish, Fail, ChildEnds, KillTakesEffect,
       Reap, Age, scan
  <2> QED
    BY <1>3, <2>1, <2>2
<1>6. CASE UNCHANGED vars
  BY <1>1, <1>6 DEF vars
<1> QED
  BY <1>4, <1>5, <1>6 DEF Next

(* What is not created stays untouched.                                    *)
LEMMA StepAbsent ==
    ASSUME Sound, Undisturbed, [Next]_vars
    PROVE  Absent'
<1> USE ActorsApart DEF Sound
<1>1. SUFFICES ASSUME NEW p \in Procs, dir'[p] = "absent"
               PROVE  /\ status'[p] = Blank /\ pc'[p] = "none"
                      /\ p \notin todo' \cup found' /\ reading' # p
                      /\ \A c \in Clients : on'[c] # p
  BY DEF Absent
<1>2. dir[p] = "absent" /\ p \notin Present /\ ~Created(p)
  BY <1>1, StepDir DEF Created, Present, TypeOK
<1>3. /\ status[p] = Blank /\ pc[p] = "none"
      /\ p \notin todo \cup found /\ reading # p /\ \A c \in Clients : on[c] # p
  BY <1>2 DEF Absent
<1>4. \A a \in Actors : ~About(a, p)
  BY <1>3 DEF About
<1>5. status'[p] = status[p]
  <2>1. ~Age(p) /\ \A c \in Clients : ~LaunchWrites(c, p)
    BY <1>2 DEF Age, LaunchWrites, WriteStatus
  <2>2. ~SupervisorWrites(p)
    BY <1>2, <1>3 DEF SupervisorWrites, Finish, Fail, WriteStatus, Publish, Heartbeat, SeeStop
  <2>3. \A a \in Actors : ~Judges(a, p)
    BY <1>4 DEF Judges
  <2> QED
    BY <2>1, <2>2, <2>3, StepStatus
<1>6. pc'[p] = "none"
  BY <1>3, StepBorn
<1>7. /\ p \notin todo' \cup found' /\ reading' # p /\ \A c \in Clients : on'[c] # p
  BY <1>2, <1>3, StepNames
<1> QED
  BY <1>3, <1>5, <1>6, <1>7

(* A launch has its process to itself until it starts the supervisor.      *)
LEMMA StepLaunchers ==
    ASSUME Sound, Undisturbed, [Next]_vars
    PROVE  Launchers'
<1> USE ActorsApart DEF Sound
<1>1. ASSUME NEW c \in Clients, pc'[c] \in LaunchPcs
      PROVE  on'[c] \in Procs /\ pc'[on'[c]] = "none" /\ status'[on'[c]].pids = "none"
  <2>1. PICK p : p = on'[c] /\ Launches(c, p)'
    BY <1>1 DEF Launches
  <2>2. Launches(c, p) \/ (p \in Procs /\ Created(p) /\ Create(c))
    BY <2>1, StepLaunches
  <2>3. p \in Procs /\ pc[p] = "none" /\ status[p].pids = "none"
    <3>1. CASE Launches(c, p)
      BY <3>1 DEF Launches, Launchers
    <3>2. CASE p \in Procs /\ Created(p)
      BY <3>2 DEF Created, Absent, Blank
    <3> QED
      BY <2>2, <3>1, <3>2
  <2>4. pc'[p] = "none"
    <3>1. SUFFICES ASSUME pc'[p] # "none" PROVE FALSE
      OBVIOUS
    <3>2. PICK d \in Clients : Popen(d) /\ on[d] = p
      BY <2>3, <3>1, StepBorn
    <3>3. Launches(c, p)
      BY <2>2, <3>2 DEF Created, Absent
    <3>4. d = c
      BY <3>2, <3>3 DEF Launches, Launchers, Popen, LaunchPcs
    <3>5. pc'[c] = "lockPrune"
      BY <2>3, <3>2, <3>4 DEF Popen, TypeOK
    <3> QED
      BY <1>1, <3>5 DEF LaunchPcs
  <2>5. status'[p].pids = "none"
    <3>1. CASE status'[p] = status[p]
      BY <2>3, <3>1
    <3>2. CASE Age(p)
      BY <2>3, <3>2 DEF Age, TypeOK, Status
    <3>3. ~SupervisorWrites(p)
      BY <2>3 DEF SupervisorWrites, Finish, Fail, Publish, Heartbeat, SeeStop
    <3>4. ASSUME NEW d \in Clients, LaunchWrites(d, p)
          PROVE  status'[p].pids = "none"
      BY <2>3, <3>4 DEF LaunchWrites, WriteStatus, TypeOK
    <3>5. ASSUME NEW a \in Actors, Judges(a, p)
          PROVE  status'[p].pids = "none"
      <4>1. held[a].pids = "none"
        <5>1. CASE Launches(c, p)
          BY <2>3, <3>5, <5>1 DEF Judges, Observed, InLaunch
        <5>2. CASE Created(p)
          BY <2>3, <3>5, <5>2 DEF Judges, Observed, Created
        <5> QED
          BY <2>2, <5>1, <5>2
      <4>2. held[a] \in Status
        BY DEF TypeOK
      <4> QED
        BY <2>3, <3>5, <4>1, <4>2 DEF Judges, TypeOK, Status
    <3> QED
      BY <2>3, <3>1, <3>2, <3>3, <3>4, <3>5, StepStatus
  <2> QED
    BY <2>1, <2>3, <2>4, <2>5
<1>2. ASSUME NEW c \in Clients, NEW d \in Clients, pc'[c] \in LaunchPcs, pc'[d] \in LaunchPcs,
             on'[c] = on'[d]
      PROVE  c = d
  <2>1. PICK p : p = on'[c] /\ Launches(c, p)' /\ Launches(d, p)'
    BY <1>2 DEF Launches
  <2>2. /\ Launches(c, p) \/ (p \in Procs /\ Created(p) /\ Create(c))
        /\ Launches(d, p) \/ (p \in Procs /\ Created(p) /\ Create(d))
    BY <2>1, StepLaunches
  <2>3. p \in Procs /\ Created(p) => ~Launches(c, p) /\ ~Launches(d, p)
    BY DEF Created, Absent, Launches
  <2>4. Create(c) /\ Create(d) => c = d
    BY DEF Create, ScanDone
  <2>5. Launches(c, p) /\ Launches(d, p) => c = d
    BY DEF Launches, Launchers
  <2> QED
    BY <2>2, <2>3, <2>4, <2>5
<1> QED
  BY <1>1, <1>2 DEF Launchers

(* Nobody buries what is undertaken: no status it may hold is found to be   *)
(* abandoned, and its processes are there.                                 *)
LEMMA NotBuried ==
    ASSUME Sound, NEW p \in Procs, Undertaken(p), NEW a \in Actors
    PROVE  ~Judges(a, p)
<1> SUFFICES ASSUME Judges(a, p) PROVE FALSE
  OBVIOUS
<1>1. ~AbandonedLaunch(held[a]) /\ (InLaunch(p) => held[a].pids = "none")
  BY DEF Sound, Observed, Judges
<1>2. Disappeared(p, held[a])
  BY <1>1 DEF Judges
<1>3. held[a].pids = "both" /\ ~SupervisorLive(p)
  BY <1>2 DEF Disappeared, SupervisorRunning
<1> QED
  BY <1>1, <1>3 DEF Undertaken, Supervised

(* What is undertaken is neither removed nor declared unavailable.         *)
LEMMA StepActive ==
    ASSUME Sound, Undisturbed, [Next]_vars
    PROVE  Active'
<1> USE ActorsApart DEF Sound
<1>1. SUFFICES ASSUME NEW p \in Procs, Undertaken(p)'
               PROVE  /\ dir'[p] = "present" /\ status'[p].state \in Nonterminal
                      /\ status'[p].pids = "none" => status'[p].fresh
  BY DEF Active
<1>2. CASE Created(p)
  <2>1. status[p] = Blank /\ dir'[p] = "present" /\ UNCHANGED status
    BY <1>2 DEF Created, Absent, Create, TypeOK
  <2> QED
    BY <2>1 DEF Blank, Nonterminal
<1>3. CASE Undertaken(p)
  <2>1. /\ dir[p] = "present" /\ status[p].state \in Nonterminal
        /\ status[p].pids = "none" => status[p].fresh
    BY <1>3 DEF Active
  <2>2. dir'[p] = "present"
    BY <2>1, StepDir DEF Created, Nonterminal, Terminal
  <2>3. CASE status'[p] = status[p]
    BY <2>1, <2>2, <2>3
  <2>4. CASE Age(p)
    <3>1. Driven(p)
      BY <1>3 DEF Driven, Undertaken, InLaunch, Launches, LaunchPcs, Supervised
    <3>2. status[p].state \in MayLag
      BY <2>4, <3>1 DEF Age
    <3>3. status[p].pids = "both"
      BY <2>1, <3>2 DEF Undisturbed, TypeOK, Status, Nonterminal
    <3>4. status'[p] = [status[p] EXCEPT !.fresh = FALSE] /\ status[p] \in Status
      BY <2>4 DEF Age, TypeOK
    <3> QED
      BY <2>1, <2>2, <3>3, <3>4 DEF Status
  <2>5. CASE SupervisorWrites(p)
    <3>1. ~Fail(p) /\ ~(Finish(p) /\ p \in Present)
      BY <1>1, LastWrites
    <3>2. status'[p].state \in {"running", "stopping"} /\ status'[p].fresh
      BY <2>1, <2>5, <3>1 DEF SupervisorWrites, WriteStatus, Report, TypeOK, Present
    <3> QED
      BY <2>2, <3>2 DEF Nonterminal
  <2>6. ASSUME NEW c \in Clients, LaunchWrites(c, p)
        PROVE  status'[p].state \in Nonterminal /\ status'[p].fresh
    <3>1. ~(PopenFails(c) /\ on[c] = p)
      BY <1>1, LastWrites
    <3>2. WriteStatus(p, "starting", "none")
      BY <2>6, <3>1 DEF LaunchWrites
    <3> QED
      BY <3>2 DEF WriteStatus, TypeOK, Nonterminal
  <2> QED
    BY <1>3, <2>2, <2>3, <2>4, <2>5, <2>6, NotBuried, StepStatus
<1> QED
  BY <1>1, <1>2, <1>3, StepUndertaken

(* No status anyone holds lets an undertaken process look abandoned.       *)
LEMMA StepObserved ==
    ASSUME Sound, Undisturbed, [Next]_vars
    PROVE  Observed'
<1> USE DEF Sound
<1>1. SUFFICES ASSUME NEW a \in Actors, NEW p \in Procs, About(a, p)'
               PROVE  /\ dir'[p] # "absent"
                      /\ Undertaken(p)' => ~AbandonedLaunch(held'[a])
                      /\ InLaunch(p)' => held'[a].pids = "none"
  BY DEF Observed, AbandonedLaunch, Stale
<1>2. \/ About(a, p) /\ held'[a] = held[a]
      \/ held'[a] = status[p] /\ dir[p] # "absent"
  BY <1>1, StepAbout
<1>3. dir[p] # "absent" /\ dir'[p] # "absent"
  BY <1>2, StepDir DEF Observed, Created
<1>4. ~Created(p)
  BY <1>3 DEF Created
<1>5. ASSUME Undertaken(p)'
      PROVE  ~AbandonedLaunch(held'[a])
  <2>1. Undertaken(p)
    BY <1>4, <1>5, StepUndertaken
  <2>2. ~AbandonedLaunch(status[p])
    BY <2>1 DEF Active, AbandonedLaunch, Stale
  <2> QED
    BY <1>2, <2>1, <2>2 DEF Observed
<1>6. ASSUME InLaunch(p)'
      PROVE  held'[a].pids = "none"
  <2>1. InLaunch(p)
    BY <1>4, <1>6, StepUndertaken
  <2>2. status[p].pids = "none"
    BY <2>1 DEF InLaunch, Launches, Launchers
  <2> QED
    BY <1>2, <2>1, <2>2 DEF Observed
<1> QED
  BY <1>3, <1>5, <1>6

(* Who writes a status as a launcher or a supervisor undertakes the process.*)
LEMMA WritersUndertake ==
    ASSUME Sound, NEW p \in Procs
    PROVE  /\ SupervisorWrites(p) => Supervised(p)
           /\ ReadSpec(p) => Supervised(p)
           /\ \A c \in Clients : LaunchWrites(c, p) => InLaunch(p)
<1>1. pc[p] \in {"start", "publish", "loop", "final", "fail"} => Supervised(p)
  BY DEF Sound, Staged, ScanPcs, Supervised, SupervisorLive
<1>2. SupervisorWrites(p) \/ ReadSpec(p) => pc[p] \in {"start", "publish", "loop", "final",
   "fail"}
  BY DEF SupervisorWrites, Publish, Heartbeat, SeeStop, Finish, Fail, ReadSpec
<1>3. \A c \in Clients : LaunchWrites(c, p) => InLaunch(p)
  BY DEF LaunchWrites, WriteStarting, PopenFails, InLaunch, Launches, LaunchPcs
<1> QED
  BY <1>1, <1>2, <1>3

(* The last status is written when the command has ended.                  *)
LEMMA StepEnded ==
    ASSUME Sound, Undisturbed, [Next]_vars
    PROVE  Ended'
<1> USE DEF Sound
<1>1. SUFFICES ASSUME NEW p \in Procs, status'[p].state \in Terminal, status'[p].pids = "both",
                      child'[p] = "alive"
               PROVE  FALSE
  BY DEF Ended
<1>2. ~ReadSpec(p)
  <2>1. SUFFICES ASSUME ReadSpec(p) PROVE FALSE
    OBVIOUS
  <2>2. status[p].state \in Nonterminal /\ UNCHANGED status
    BY <2>1, WritersUndertake DEF Active, Undertaken, ReadSpec, files
  <2> QED
    BY <1>1, <2>2 DEF Nonterminal, Terminal
<1>3. child[p] = "alive"
  BY <1>1, <1>2, StepChild
<1>4. status'[p] # status[p]
  BY <1>1, <1>3 DEF Ended
<1>5. ~Age(p)
  <2>1. SUFFICES ASSUME Age(p) PROVE FALSE
    OBVIOUS
  <2>2. status[p].state \in Nonterminal /\ status'[p].state = status[p].state
    BY <2>1, MayLagAssumption DEF Age, TypeOK, Status
  <2> QED
    BY <1>1, <2>2 DEF Nonterminal, Terminal
<1>6. ~SupervisorWrites(p)
  <2>1. ~Finish(p)
    BY <1>3 DEF Finish, Staged
  <2>2. ~Fail(p)
    BY <1>1, <1>3 DEF Fail, Terminated, TypeOK
  <2>3. ~(WriteStatus(p, "running", "both") \/ WriteStatus(p, "stopping", "both"))
    BY <1>1 DEF WriteStatus, TypeOK, Terminal
  <2> QED
    BY <1>4, <2>1, <2>2, <2>3 DEF SupervisorWrites, Report
<1>7. \A c \in Clients : ~LaunchWrites(c, p)
  BY <1>1 DEF LaunchWrites, WriteStatus, TypeOK
<1>8. ASSUME NEW a \in Actors, Judges(a, p)
      PROVE  FALSE
  <2>1. held[a] \in Status /\ status'[p] = [held[a] EXCEPT !.state = "unavailable"]
    BY <1>8 DEF Judges, TypeOK
  <2>2. status'[p].pids = held[a].pids
    BY <2>1 DEF Status
  <2>3. ~Disappeared(p, held[a])
    BY <1>3 DEF Disappeared, ChildRunning
  <2>4. ~AbandonedLaunch(held[a])
    BY <1>1, <2>2 DEF AbandonedLaunch
  <2> QED
    BY <1>8, <2>3, <2>4 DEF Judges
<1> QED
  BY <1>4, <1>5, <1>6, <1>7, <1>8, StepStatus

(* Every step keeps all of it.                                             *)
LEMMA StepSound == Undisturbed /\ Sound /\ [Next]_vars => Sound'
<1> SUFFICES ASSUME Undisturbed, Sound, [Next]_vars PROVE Sound'
  OBVIOUS
<1>1. TypeOK'
  BY NextTypeOK DEF Sound
<1>2. Locked' /\ Staged'
  BY StepLocked, StepStaged DEF Sound
<1> QED
  BY <1>1, <1>2, StepAbsent, StepLaunchers, StepActive, StepObserved, StepEnded DEF Sound

(* The whole invariant.                                                    *)
LEMMA AlwaysSound ==
    ASSUME Undisturbed
    PROVE  Spec => []Sound
  BY InitSound, StepSound, PTL DEF Spec

-----------------------------------------------------------------------------
(* A record that has ended stays so, whichever of the launcher, the        *)
(* supervisor and the observers writes status.json, and however old the    *)
(* status an observer read before is: what is terminal is not undertaken any*)
(* more, so that only an observer still writes it, and it writes a tombstone.*)
THEOREM TerminalStaysAlways ==
    ASSUME Undisturbed
    PROVE  Spec => TerminalStays
<1>1. ASSUME Sound, [Next]_vars, NEW p \in Procs, status[p].state \in Terminal
      PROVE  status'[p].state \in Terminal
  <2> USE DEF Sound
  <2>1. ~Undertaken(p)
    BY <1>1 DEF Active, Nonterminal, Terminal
  <2>2. ~SupervisorWrites(p) /\ \A c \in Clients : ~LaunchWrites(c, p)
    BY <1>1, <2>1, WritersUndertake DEF Undertaken
  <2>3. ~Age(p)
    BY <1>1, MayLagAssumption DEF Age, Nonterminal, Terminal
  <2>4. ASSUME NEW a \in Actors, Judges(a, p)
        PROVE  status'[p].state \in Terminal
    <3>1. held[a] \in Status /\ status'[p] = [held[a] EXCEPT !.state = "unavailable"]
      BY <1>1, <2>4 DEF Judges, TypeOK
    <3> QED
      BY <3>1 DEF Status, Terminal
  <2> QED
    BY <1>1, <2>2, <2>3, <2>4, StepStatus
<1>2. Sound /\ [Next]_vars =>
        [\A p \in Procs : status[p].state \in Terminal => status'[p].state \in Terminal]_vars
  BY <1>1
<1> QED
  BY <1>2, AlwaysSound, PTL DEF Spec, TerminalStays

(* Retention cleanup removes no record whose command runs while its status *)
(* names the command's PID or its supervisor lives: the record says how the*)
(* command ended, and it is the supervisor that says so, when it has.      *)
THEOREM ActiveNotPrunedAlways ==
    ASSUME Undisturbed
    PROVE  Spec => ActiveNotPruned
<1>1. ASSUME Sound, [Next]_vars, NEW p \in Procs, dir[p] = "present", dir'[p] = "removed",
             status[p].pids = "both" \/ SupervisorLive(p)
      PROVE  child[p] # "alive"
  <2> USE DEF Sound
  <2>1. status[p].state \in Terminal
    BY <1>1, StepDir DEF Created
  <2>2. CASE status[p].pids = "both"
    BY <1>1, <2>1, <2>2 DEF Ended
  <2>3. CASE SupervisorLive(p)
    BY <1>1, <2>1, <2>3 DEF Active, Undertaken, Supervised, Staged, Nonterminal, Terminal
  <2> QED
    BY <1>1, <2>2, <2>3
<1>2. Sound /\ [Next]_vars =>
        [\A p \in Procs :
            /\ dir[p] = "present" /\ dir'[p] = "removed"
            /\ status[p].pids = "both" \/ SupervisorLive(p)
            => child[p] # "alive"]_vars
  BY <1>1
<1> QED
  BY <1>2, AlwaysSound, PTL DEF Spec, ActiveNotPruned

(* An abandoned launch that was read is still what the record says, or it   *)
(* was buried already.                                                     *)
Buried ==
    \A a \in Actors, p \in Procs : About(a, p) /\ AbandonedLaunch(held[a]) =>
        \/ status[p].pids = "none" /\ ~status[p].fresh
        \/ status[p].state = "unavailable"

(* What looks abandoned to one who read it has published no PID and has a  *)
(* stale heartbeat still, or was declared unavailable since.               *)
LEMMA StepBuried ==
    ASSUME Sound, Buried, Undisturbed, [Next]_vars
    PROVE  Buried'
<1> USE DEF Sound
<1>1. SUFFICES ASSUME NEW a \in Actors, NEW p \in Procs, About(a, p)', AbandonedLaunch(held'[a])
               PROVE  \/ status'[p].pids = "none" /\ ~status'[p].fresh
                      \/ status'[p].state = "unavailable"
  BY DEF Buried, AbandonedLaunch, Stale
<1>2. CASE held'[a] = status[p] /\ UNCHANGED status
  BY <1>1, <1>2 DEF AbandonedLaunch, Stale
<1>3. CASE About(a, p) /\ held'[a] = held[a]
  <2>1. /\ ~Undertaken(p)
        /\ \/ status[p].pids = "none" /\ ~status[p].fresh
           \/ status[p].state = "unavailable"
    BY <1>1, <1>3 DEF Observed, Buried
  <2>2. ~SupervisorWrites(p) /\ \A c \in Clients : ~LaunchWrites(c, p)
    BY <2>1, WritersUndertake DEF Undertaken
  <2>3. ~Age(p)
    BY <2>1, MayLagAssumption DEF Age, Nonterminal
  <2>4. ASSUME NEW b \in Actors, Judges(b, p)
        PROVE  status'[p].state = "unavailable"
    <3>1. held[b] \in Status /\ status'[p] = [held[b] EXCEPT !.state = "unavailable"]
      BY <2>4 DEF Judges, TypeOK
    <3> QED
      BY <3>1 DEF Status
  <2> QED
    BY <2>1, <2>2, <2>3, <2>4, StepStatus
<1> QED
  BY <1>1, <1>2, <1>3, StepAbout

(* An observer declares a record unavailable only once the supervisor and  *)
(* the command are both gone, or when its launch published no PID and is   *)
(* stale: what it read before need not be what the file says by now, and   *)
(* that does not matter (_persist_unavailable_status).                     *)
THEOREM TombstoneOnlyWhenGoneAlways ==
    ASSUME Undisturbed
    PROVE  Spec => TombstoneOnlyWhenGone
<1>1. ASSUME Sound, Buried, [Next]_vars, NEW p \in Procs,
             status[p].state # "unavailable", status'[p].state = "unavailable"
      PROVE  \/ pc[p] = "fail"
             \/ \E c \in Clients : on[c] = p /\ pc[c] = "popen"
             \/ ~SupervisorLive(p) /\ ~ChildRunning(p)
             \/ status[p].pids = "none" /\ ~status[p].fresh
  <2>1. ~Age(p)
    BY <1>1 DEF Age, Sound, TypeOK, Status
  <2>2. CASE SupervisorWrites(p)
    BY <1>1, <2>2 DEF SupervisorWrites, Report, WriteStatus, Fail, Sound, TypeOK
  <2>3. ASSUME NEW c \in Clients, LaunchWrites(c, p)
        PROVE  on[c] = p /\ pc[c] = "popen"
    BY <1>1, <2>3 DEF LaunchWrites, WriteStatus, PopenFails, Sound, TypeOK
  <2>4. ASSUME NEW a \in Actors, Judges(a, p)
        PROVE  \/ ~SupervisorLive(p) /\ ~ChildRunning(p)
               \/ status[p].pids = "none" /\ ~status[p].fresh
    BY <1>1, <2>4 DEF Judges, Disappeared, SupervisorRunning, Buried
  <2> QED
    BY <1>1, <2>1, <2>2, <2>3, <2>4, StepStatus DEF Sound
<1>2. Sound /\ Buried /\ [Next]_vars =>
        [\A p \in Procs :
            status[p].state # "unavailable" /\ status'[p].state = "unavailable" =>
                \/ pc[p] = "fail"
                \/ \E c \in Clients : on[c] = p /\ pc[c] = "popen"
                \/ ~SupervisorLive(p) /\ ~ChildRunning(p)
                \/ status[p].pids = "none" /\ ~status[p].fresh]_vars
  BY <1>1
<1>3. Init => Buried
  BY ActorsApart DEF Init, Buried, About
<1>4. Sound /\ Buried /\ [Next]_vars => Buried'
  BY StepBuried
<1> QED
  BY <1>2, <1>3, <1>4, AlwaysSound, PTL DEF Spec, TombstoneOnlyWhenGone

-----------------------------------------------------------------------------
(* How many commands run                                                   *)

(* What more the bound assumes: no heartbeat is late while its writer lives,*)
(* and no supervisor is killed with its command running.                   *)
Punctual == MayLag = {} /\ "relaunch" \notin Uses /\ "supervisor" \notin Faults

(* What is undertaken has a fresh heartbeat, whoever read it.              *)
Timely ==
    \A p \in Procs :
        /\ child[p] = "alive" => Undertaken(p)
        /\ Undertaken(p) => status[p].fresh
        /\ \A a \in Actors : About(a, p) /\ Undertaken(p) => CountsAsActive(held[a])

(* A count finds what is undertaken.                                       *)
Counted ==
    \A c \in Clients, p \in Procs :
        lock = c /\ pc[c] = "count" /\ Undertaken(p) => p \in todo \cup found \/ p = reading

(* At most max_active_processes are undertaken.                            *)
Bounded == Cardinality({p \in Procs : Undertaken(p)}) <= MaxActive

(* The stronger of the two assumptions is the stronger.                    *)
LEMMA PunctualUndisturbed == Punctual => Undisturbed
  BY DEF Punctual, Undisturbed

(* The command of a supervisor that is done does not run.                  *)
LEMMA StepQuits ==
    ASSUME Sound, Punctual, [Next]_vars, NEW p \in Procs, Supervised(p), ~Supervised(p)'
    PROVE  child'[p] # "alive"
<1> USE ActorsApart DEF Sound, TypeOK, Supervised, SupervisorLive
<1>1. CASE pc'[p] = pc[p] /\ back'[p] = back[p]
  BY <1>1
<1>2. ASSUME NEW a \in Actors, Scan(a)
      PROVE  Supervised(p)'
  <2>1. CASE a # p
    BY <1>2, <2>1 DEF Scan, StartPrune, TakeLock, ScanRead, ScanJudge, ChooseVictims, Remove,
       EndPrune, Goto
  <2>2. CASE a = p
    BY <1>2, <2>2 DEF Scan, StartPrune, TakeLock, ScanRead, ScanJudge, ChooseVictims, Remove,
       EndPrune, Goto
  <2> QED
    BY <2>1, <2>2
<1>3. ASSUME NEW c \in Clients, ClientStep(c) \/ ClientChoice(c) \/ ClientCrash(c)
      PROVE  Supervised(p)'
  <2>1. CASE Create(c) \/ EndDiscover(c) \/ LaunchRead(c) \/ Claim(c) \/ WriteStarting(c)
    BY <2>1 DEF Create, EndDiscover, LaunchRead, Claim, WriteStarting, GiveUp, Goto
  <2>2. CASE PopenFails(c) \/ GetRead(c) \/ GetJudge(c) \/ ClientCrash(c)
    BY <2>2 DEF PopenFails, GetRead, GetJudge, ClientCrash, GiveUp, Goto
  <2>3. CASE StartCreate(c) \/ StartDiscover(c) \/ StartGet(c) \/ Relaunch(c) \/ RequestStop(c)
    BY <2>3 DEF StartCreate, StartDiscover, TakeLock, StartGet, Relaunch, RequestStop, Goto
  <2>4. CASE Popen(c)
    BY <2>4 DEF Popen, Launchers, LaunchPcs
  <2> QED
    BY <1>2, <1>3, <2>1, <2>2, <2>3, <2>4 DEF ClientStep, ClientChoice
<1>4. ASSUME NEW q \in Procs, SupervisorStep(q) \/ SupervisorCrash(q) \/ System(q)
      PROVE  Supervised(p)' \/ child'[p] # "alive"
  <2>1. CASE ReadSpec(q)
    BY <2>1 DEF ReadSpec, Goto, Staged
  <2>2. CASE Publish(q) \/ PublishLate(q) \/ Heartbeat(q) \/ SeeStop(q) \/ Terminate(q)
    BY <2>2 DEF Publish, PublishLate, Heartbeat, SeeStop, Report, Terminate, Goto
  <2>3. CASE LoopEnds(q) \/ DrainFails(q)
    BY <2>3 DEF LoopEnds, DrainFails, Goto
  <2>4. CASE Finish(q)
    BY <2>4 DEF Finish, PrepareExit, Goto, Staged
  <2>5. CASE Fail(q)
    BY <2>5 DEF Fail, PrepareExit, Goto, Terminated
  <2>6. CASE ChildEnds(q) \/ KillTakesEffect(q) \/ Age(q) \/ Reap(q)
    BY <2>6 DEF ChildEnds, KillTakesEffect, Age, Reap, Goto
  <2>7. ~SupervisorCrash(q)
    BY DEF SupervisorCrash, Punctual
  <2> QED
    BY <1>2, <1>4, <2>1, <2>2, <2>3, <2>4, <2>5, <2>6, <2>7 DEF SupervisorStep, System
<1>5. CASE UNCHANGED vars
  BY <1>1, <1>5 DEF vars
<1> QED
  BY <1>3, <1>4, <1>5 DEF Next

(* What is undertaken is written often enough to count.                    *)
LEMMA StepTimely ==
    ASSUME Sound, Timely, Punctual, [Next]_vars
    PROVE  Timely'
<1> USE ActorsApart, PunctualUndisturbed DEF Sound
<1>1. ASSUME NEW p \in Procs, child'[p] = "alive"
      PROVE  Undertaken(p)'
  <2>1. CASE ReadSpec(p) /\ child'[p] # child[p]
    <3>1. back'[p] = "start" /\ pc'[p] = "publish"
      BY <1>1, <2>1 DEF ReadSpec, Goto, Staged, ScanPcs, TypeOK
    <3> QED
      BY <3>1 DEF Undertaken, Supervised, SupervisorLive
  <2>2. CASE child[p] = "alive"
    <3>1. Undertaken(p)
      BY <2>2 DEF Timely
    <3>2. ~InLaunch(p)
      BY <2>2 DEF InLaunch, Launches, Launchers, Staged
    <3>3. Supervised(p)
      BY <3>1, <3>2 DEF Undertaken
    <3> QED
      BY <1>1, <3>3, StepQuits DEF Undertaken
  <2> QED
    BY <1>1, <2>1, <2>2, StepChild
<1>2. ASSUME NEW p \in Procs, Undertaken(p)'
      PROVE  status'[p].fresh
  <2>1. CASE Created(p)
    BY <2>1 DEF Created, Create, Absent, Blank
  <2>2. CASE Undertaken(p)
    <3>1. status[p].fresh
      BY <2>2 DEF Timely
    <3>2. ~Age(p)
      <4>1. Driven(p)
        BY <2>2 DEF Driven, Undertaken, InLaunch, Launches, LaunchPcs, Supervised
      <4> QED
        BY <4>1 DEF Age, Punctual
    <3>3. ASSUME SupervisorWrites(p) \/ \E c \in Clients : LaunchWrites(c, p)
          PROVE  status'[p].fresh
      BY <3>1, <3>3 DEF SupervisorWrites, LaunchWrites, Report, WriteStatus, TypeOK
    <3> QED
      BY <2>2, <3>1, <3>2, <3>3, StepStatus, NotBuried
  <2> QED
    BY <1>2, <2>1, <2>2, StepUndertaken
<1>3. ASSUME NEW a \in Actors, NEW p \in Procs, About(a, p)', Undertaken(p)'
      PROVE  CountsAsActive(held'[a])
  <2>1. dir[p] # "absent"
    BY <1>3, StepAbout DEF Observed
  <2>2. Undertaken(p)
    BY <1>3, <2>1, StepUndertaken DEF Created
  <2>3. CASE About(a, p) /\ held'[a] = held[a]
    BY <2>2, <2>3 DEF Timely
  <2>4. CASE held'[a] = status[p]
    BY <2>2, <2>4 DEF Timely, Active, CountsAsActive, Stale
  <2> QED
    BY <1>3, <2>3, <2>4, StepAbout
<1> QED
  BY <1>1, <1>2, <1>3 DEF Timely, CountsAsActive, Stale

(* A count begins with what is there, and goes on.                         *)
LEMMA StepCount ==
    ASSUME Sound, [Next]_vars, NEW c \in Clients, lock' = c, pc'[c] = "count"
    PROVE  \/ todo' = Present
           \/ /\ lock = c /\ pc[c] = "count"
              /\ ScanRead(c) \/ ScanJudge(c) \/ UNCHANGED scan
<1> USE ActorsApart DEF Sound, TypeOK
<1>1. ASSUME NEW a \in Actors, NEW l, TakeLock(a, l)
      PROVE  todo' = Present
  BY <1>1 DEF TakeLock
<1>2. ASSUME UNCHANGED <<lock, scan>>, pc'[c] = pc[c]
      PROVE  lock = c /\ pc[c] = "count" /\ UNCHANGED scan
  BY <1>2
<1>3. ASSUME NEW a \in Actors, NEW to, Goto(a, to), to # "count", UNCHANGED <<lock, scan>>
      PROVE  lock = c /\ pc[c] = "count" /\ UNCHANGED scan
  BY <1>3 DEF Goto
<1>4. ASSUME NEW a \in Actors, lock = a, Unlock(a)
      PROVE  FALSE
  BY <1>4 DEF Unlock
<1>5. ASSUME NEW a \in Actors, Unlock(a), lock # a => UNCHANGED scan,
             Goto(a, "lockPrune") \/ Goto(a, "zombie")
      PROVE  lock = c /\ pc[c] = "count" /\ UNCHANGED scan
  BY <1>4, <1>5 DEF Unlock, Goto
<1>6. ASSUME NEW a \in Actors, Scan(a)
      PROVE  \/ todo' = Present
             \/ /\ lock = c /\ pc[c] = "count"
                /\ ScanRead(c) \/ ScanJudge(c) \/ UNCHANGED scan
  <2>1. CASE StartPrune(a)
    BY <1>1, <2>1 DEF StartPrune
  <2>2. CASE ScanRead(a) \/ ScanJudge(a)
    <3>1. lock = a /\ lock' = lock /\ pc' = pc
      BY <2>2 DEF ScanRead, ScanJudge
    <3> QED
      BY <2>2, <3>1
  <2>3. CASE ChooseVictims(a) \/ Remove(a)
    <3>1. lock = a /\ lock' = lock /\ pc'[a] = "remove"
      BY <2>3 DEF ChooseVictims, Remove, ScanDone, Goto
    <3> QED
      BY <3>1
  <2>4. CASE EndPrune(a)
    BY <1>4, <2>4 DEF EndPrune, ScanDone
  <2> QED
    BY <1>6, <2>1, <2>2, <2>3, <2>4 DEF Scan
<1>7. ASSUME NEW d \in Clients, ClientStep(d) \/ ClientChoice(d) \/ ClientCrash(d)
      PROVE  \/ todo' = Present
             \/ /\ lock = c /\ pc[c] = "count"
                /\ ScanRead(c) \/ ScanJudge(c) \/ UNCHANGED scan
  <2>1. CASE Create(d) \/ EndDiscover(d)
    BY <1>4, <2>1 DEF Create, EndDiscover, ScanDone
  <2>2. CASE LaunchRead(d) \/ Claim(d) \/ WriteStarting(d)
    BY <1>3, <2>2 DEF LaunchRead, Claim, WriteStarting, GiveUp
  <2>3. CASE Popen(d)
    <3>1. on[d] \in Procs /\ pc' = [pc EXCEPT ![d] = "lockPrune", ![on[d]] = "lockPrune"]
      BY <2>3 DEF Popen, Launchers, LaunchPcs
    <3>2. pc'[c] = pc[c]
      BY <3>1
    <3> QED
      BY <1>2, <2>3, <3>2 DEF Popen
  <2>4. CASE PopenFails(d) \/ GetRead(d) \/ GetJudge(d)
    BY <1>3, <2>4 DEF PopenFails, GetRead, GetJudge, GiveUp
  <2>5. CASE StartCreate(d) \/ StartDiscover(d)
    BY <1>1, <2>5 DEF StartCreate, StartDiscover
  <2>6. CASE Relaunch(d) \/ StartGet(d)
    BY <1>3, <2>6 DEF Relaunch, StartGet
  <2>7. CASE RequestStop(d)
    BY <1>2, <2>7 DEF RequestStop
  <2>8. CASE ClientCrash(d)
    BY <1>5, <2>8 DEF ClientCrash
  <2> QED
    BY <1>6, <1>7, <2>1, <2>2, <2>3, <2>4, <2>5, <2>6, <2>7, <2>8 DEF ClientStep, ClientChoice
<1>8. ASSUME NEW q \in Procs, SupervisorStep(q) \/ SupervisorCrash(q) \/ System(q)
      PROVE  \/ todo' = Present
             \/ /\ lock = c /\ pc[c] = "count"
                /\ ScanRead(c) \/ ScanJudge(c) \/ UNCHANGED scan
  <2>1. CASE ReadSpec(q) \/ Publish(q) \/ PublishLate(q) \/ Heartbeat(q) \/ SeeStop(q)
    BY <1>3, <2>1 DEF ReadSpec, Publish, PublishLate, Heartbeat, SeeStop, Report
  <2>2. CASE Terminate(q) \/ LoopEnds(q) \/ DrainFails(q) \/ Finish(q) \/ Fail(q) \/ Reap(q)
    BY <1>3, <2>2 DEF Terminate, LoopEnds, DrainFails, Finish, Fail, PrepareExit, Reap
  <2>3. CASE SupervisorCrash(q)
    BY <1>5, <2>3 DEF SupervisorCrash
  <2>4. CASE ChildEnds(q) \/ KillTakesEffect(q) \/ Age(q)
    BY <1>2, <2>4 DEF ChildEnds, KillTakesEffect, Age
  <2> QED
    BY <1>6, <1>8, <2>1, <2>2, <2>3, <2>4 DEF SupervisorStep, System
<1>9. CASE UNCHANGED vars
  BY <1>2, <1>9 DEF vars
<1> QED
  BY <1>7, <1>8, <1>9 DEF Next

(* A count passes over nothing that is undertaken.                         *)
LEMMA StepCounted ==
    ASSUME Sound, Timely, Counted, Punctual, [Next]_vars
    PROVE  Counted'
<1> USE ActorsApart, PunctualUndisturbed DEF Sound
<1>1. SUFFICES ASSUME NEW c \in Clients, NEW p \in Procs,
                      lock' = c, pc'[c] = "count", Undertaken(p)'
               PROVE  p \in todo' \cup found' \/ p = reading'
  BY DEF Counted
<1>2. ~Created(p)
  BY <1>1 DEF Created, Create, ScanDone, Unlock
<1>3. Undertaken(p) /\ p \in Present
  BY <1>1, <1>2, StepUndertaken DEF Active, Present
<1>4. ASSUME lock = c, pc[c] = "count"
      PROVE  p \in todo \cup found \/ p = reading
  BY <1>3, <1>4 DEF Counted
<1>5. CASE lock = c /\ pc[c] = "count" /\ ScanRead(c)
  BY <1>4, <1>5 DEF ScanRead
<1>6. CASE lock = c /\ pc[c] = "count" /\ ScanJudge(c)
  <2>1. CASE p = reading
    <3>1. CountsAsActive(held[c])
      BY <1>3, <1>6, <2>1 DEF About, Timely
    <3>2. ~Disappeared(p, held[c]) /\ ~AbandonedLaunch(held[c])
      <4>1. About(c, p)
        BY <1>6, <2>1 DEF About
      <4>2. ~AbandonedLaunch(held[c]) /\ (InLaunch(p) => held[c].pids = "none")
        BY <1>3, <4>1 DEF Observed
      <4>3. ~Disappeared(p, held[c])
        BY <1>3, <4>2 DEF Disappeared, SupervisorRunning, Undertaken, Supervised
      <4> QED
        BY <4>2, <4>3
    <3>3. Judged(p, held[c]) = held[c]
      BY <3>2 DEF Judged
    <3> QED
      BY <1>6, <2>1, <3>1, <3>3 DEF ScanJudge
  <2>2. CASE p # reading
    BY <1>4, <1>6, <2>2 DEF ScanJudge
  <2> QED
    BY <2>1, <2>2
<1>7. CASE lock = c /\ pc[c] = "count" /\ UNCHANGED scan
  BY <1>4, <1>7 DEF scan
<1> QED
  BY <1>1, <1>3, <1>5, <1>6, <1>7, StepCount

(* What is undertaken after a step was so before, or was created by it while*)
(* fewer than max_active_processes were.                                   *)
LEMMA StepBounded ==
    ASSUME Sound, Counted, Bounded, Punctual, [Next]_vars
    PROVE  Bounded'
<1> DEFINE Now == {p \in Procs : Undertaken(p)}
<1> DEFINE Then == {p \in Procs : Undertaken(p)'}
<1>1. IsFiniteSet(Now) /\ Cardinality(Now) \in Nat /\ MaxActive \in Nat
  BY LimitsAssumption, FS_Subset, FS_CardinalityType
<1>2. SUFFICES Cardinality(Then) <= MaxActive
  BY DEF Bounded
<1>3. CASE \A p \in Procs : ~Created(p)
  <2>1. Then \subseteq Now
    BY <1>3, StepUndertaken, PunctualUndisturbed DEF Sound
  <2>2. Cardinality(Then) <= Cardinality(Now) /\ Cardinality(Then) \in Nat
    BY <1>1, <2>1, FS_Subset, FS_CardinalityType
  <2>3. Cardinality(Now) <= MaxActive
    BY DEF Bounded
  <2> HIDE DEF Now, Then
  <2> QED
    BY <1>1, <2>2, <2>3
<1>4. ASSUME NEW q \in Procs, Created(q)
      PROVE  Cardinality(Then) <= MaxActive
  <2>1. PICK c \in Clients : Create(c) /\ dir' = [dir EXCEPT ![q] = "present"]
    BY <1>4 DEF Created
  <2>2. lock = c /\ pc[c] = "count" /\ reading = None /\ todo = {}
    BY <2>1 DEF Create, ScanDone
  <2>3. Cardinality(found) < MaxActive
    <3>1. dir' # dir
      BY <1>4, <2>1 DEF Created, Sound, TypeOK
    <3>2. ~(Cardinality(found) >= MaxActive)
      BY <2>1, <3>1 DEF Create
    <3>3. Cardinality(found) \in Nat
      BY LimitsAssumption, FS_Subset, FS_CardinalityType DEF Sound, TypeOK
    <3> QED
      BY <1>1, <3>2, <3>3
  <2>4. Now \subseteq found
    BY <2>2, ActorsAssumption DEF Counted
  <2>5. IsFiniteSet(found) /\ Cardinality(Now) <= Cardinality(found) /\ Cardinality(found) \in Nat
    BY <2>4, LimitsAssumption, FS_Subset, FS_CardinalityType DEF Sound, TypeOK
  <2>6. \A p \in Procs : Created(p) => p = q
    BY <1>4, <2>1 DEF Created, Sound, TypeOK
  <2>7. Then \subseteq Now \cup {q}
    BY <2>6, StepUndertaken, PunctualUndisturbed DEF Sound
  <2>8. /\ IsFiniteSet(Now \cup {q})
        /\ Cardinality(Now \cup {q}) \in {Cardinality(Now), Cardinality(Now) + 1}
    BY <1>1, FS_AddElement
  <2>9. Cardinality(Then) <= Cardinality(Now \cup {q}) /\ Cardinality(Then) \in Nat
    BY <2>7, <2>8, FS_Subset, FS_CardinalityType
  <2> HIDE DEF Now, Then
  <2> QED
    BY <1>1, <2>3, <2>5, <2>8, <2>9
<1> QED
  BY <1>3, <1>4

(* At most max_active_processes commands run at once, over all the clients *)
(* that share the store, whichever of them are killed: create() counts and *)
(* creates under one lock, and the count finds every process whose launch  *)
(* or whose supervisor is under way.                                       *)
THEOREM ActiveBoundedSafe ==
    ASSUME Punctual
    PROVE  Spec => []ActiveBounded
<1> USE PunctualUndisturbed
<1>1. Init => Timely /\ Counted /\ Bounded
  <2> SUFFICES ASSUME Init PROVE Timely /\ Counted /\ Bounded
    OBVIOUS
  <2>1. /\ \A p \in Procs : ~Undertaken(p) /\ child[p] # "alive"
        /\ lock = None
    BY ActorsApart DEF Init, Undertaken, InLaunch, Launches, LaunchPcs, Supervised, SupervisorLive
  <2>2. Timely /\ Counted
    BY <2>1, ActorsApart DEF Timely, Counted
  <2>3. {p \in Procs : Undertaken(p)} = {}
    BY <2>1
  <2>4. Cardinality({p \in Procs : Undertaken(p)}) = 0
    BY <2>3, FS_EmptySet
  <2> QED
    BY <2>2, <2>4, LimitsAssumption DEF Bounded
<1>2. Sound /\ Timely /\ Counted /\ Bounded /\ [Next]_vars => Timely' /\ Counted' /\ Bounded'
  BY StepTimely, StepCounted, StepBounded
<1>3. Timely /\ Bounded => ActiveBounded
  <2> SUFFICES ASSUME Timely, Bounded PROVE ActiveBounded
    OBVIOUS
  <2> DEFINE Running == {p \in Procs : child[p] = "alive"}
  <2> DEFINE Now == {p \in Procs : Undertaken(p)}
  <2>1. Running \subseteq Now
    BY DEF Timely
  <2>2. IsFiniteSet(Now)
    BY LimitsAssumption, FS_Subset
  <2>3. Cardinality(Running) <= Cardinality(Now)
    BY <2>1, <2>2, FS_Subset
  <2>4. Cardinality(Running) \in Nat /\ Cardinality(Now) \in Nat /\ MaxActive \in Nat
    BY <2>1, <2>2, LimitsAssumption, FS_Subset, FS_CardinalityType
  <2>5. Cardinality(Now) <= MaxActive
    BY DEF Bounded
  <2>6. Cardinality(Running) <= MaxActive
    <3> HIDE DEF Running, Now
    <3> QED
      BY <2>3, <2>4, <2>5
  <2> QED
    BY <2>6 DEF ActiveBounded
<1> QED
  BY <1>1, <1>2, <1>3, AlwaysSound, PTL DEF Spec

==============================================================================
