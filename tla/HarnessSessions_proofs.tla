----------------------- MODULE HarnessSessions_proofs -----------------------
(***************************************************************************)
(* Theorems about HarnessSessions, for every set of tasks and session IDs, *)
(* every bound, interruption and failure: type correctness, that a session *)
(* runs one operation at a time on an instance, a lease and a folder that  *)
(* are its own, that an instance is disposed once and a saved conversation *)
(* kept, and, unless an interruption loses instances, that closing is for  *)
(* good.                                                                   *)
(***************************************************************************)
EXTENDS HarnessSessions, FiniteSetTheorems, TLAPS

-----------------------------------------------------------------------------
(* What a task that is about to use a session, or an ID, has of it.        *)
Holding ==
    \A t \in Tasks :
        /\ pc[t] \in {"load", "begin", "op", "save", "end", "dispose"} => on[t] \in Records
        /\ pc[t] \in {"lookup", "create", "get", "delete", "makeInstance", "load", "undo"}
              => want[t] \in Ids

(* There is a record left for every creation in progress.                  *)
Bounded == made + Cardinality(Creating) <= MaxRecords

(* The tasks that create are finitely many.                                *)
LEMMA CreatingFinite == IsFiniteSet(Creating) /\ Cardinality(Creating) \in Nat
<1>1. Creating \in SUBSET Tasks
  BY DEF Creating
<1> QED
  BY <1>1, FS_Subset, FS_CardinalityType, TasksAssumption

(* An instance that is being made has a record to go to.                   *)
LEMMA RoomToMake ==
    ASSUME TypeOK, Bounded, NEW t \in Tasks, pc[t] = "makeInstance"
    PROVE  made < MaxRecords
<1>1. t \in Creating
  BY DEF Creating
<1>2. Cardinality(Creating) # 0
  BY <1>1, CreatingFinite, FS_EmptySet
<1> QED
  BY <1>2, CreatingFinite, MaxRecordsAssumption DEF TypeOK, Bounded

-----------------------------------------------------------------------------
(* Flags are raised and never lowered, and stay Booleans.                  *)
LEMMA StepFlags ==
    ASSUME TypeOK, [Next]_vars
    PROVE  closing' \in BOOLEAN /\ returned' \in BOOLEAN
<1> USE DEF TypeOK
<1> DEFINE Raised == closing' \in BOOLEAN /\ returned' \in BOOLEAN
<1>1. ASSUME NEW t \in Tasks, Proceed(t)
      PROVE  Raised
  <2>1. CASE Get(t)
    BY <2>1 DEF Get
  <2>2. CASE Lookup(t)
    BY <2>2 DEF Lookup
  <2>3. CASE Create(t)
    BY <2>3 DEF Create
  <2>4. CASE CreateRefused(t)
    BY <2>4 DEF CreateRefused
  <2>5. CASE MakeInstance(t)
    BY <2>5 DEF MakeInstance
  <2>6. CASE InstanceFails(t)
    BY <2>6 DEF InstanceFails
  <2>7. CASE Load(t)
    BY <2>7 DEF Load
  <2>8. CASE LoadFails(t)
    BY <2>8 DEF LoadFails
  <2>9. CASE Undo(t)
    BY <2>9 DEF Undo
  <2>10. CASE Begin(t)
    BY <2>10 DEF Begin
  <2>11. CASE Operate(t)
    BY <2>11 DEF Operate
  <2>12. CASE Save(t)
    BY <2>12 DEF Save
  <2>13. CASE End(t)
    BY <2>13 DEF End
  <2>14. CASE Delete(t)
    BY <2>14 DEF Delete
  <2>15. CASE Disposed(t)
    BY <2>15 DEF Disposed
  <2>16. CASE DisposeFails(t)
    BY <2>16 DEF DisposeFails
  <2>17. CASE Shut(t)
    BY <2>17 DEF Shut
  <2>18. CASE Drain(t)
    BY <2>18 DEF Drain
  <2>19. CASE CloseAll(t)
    BY <2>19 DEF CloseAll, DisposeOneOf
  <2>20. CASE DisposeNext(t)
    BY <2>20 DEF DisposeNext, DisposeOneOf
  <2> QED
    BY <1>1, <2>1, <2>2, <2>3, <2>4, <2>5, <2>6, <2>7, <2>8, <2>9, <2>10, <2>11,
       <2>12, <2>13, <2>14, <2>15, <2>16, <2>17, <2>18, <2>19, <2>20 DEF Proceed
<1>2. ASSUME NEW t \in Tasks, Call(t)
      PROVE  Raised
  BY <1>2 DEF Call, StartCreate, StartGet, StartOperation, StartDelete, StartClose
<1>3. ASSUME NEW t \in Tasks, Cancel(t)
      PROVE  Raised
  BY <1>3 DEF Cancel, CancelWaiting, CancelCreation, CancelOperation, CancelDelete,
     CancelClose
<1>4. ASSUME NEW i \in Ids, RivalTakes(i) \/ RivalLeaves(i)
      PROVE  Raised
  BY <1>4 DEF RivalTakes, RivalLeaves
<1>5. CASE UNCHANGED vars
  BY <1>5 DEF vars
<1> QED
  BY <1>1, <1>2, <1>3, <1>4, <1>5 DEF Next

(* dispose_instance counts one more disposal.                              *)
LEMMA DisposeType ==
    ASSUME TypeOK, NEW r \in Records, Dispose(r)
    PROVE  disposals' \in [Records -> Nat]
  BY DEF TypeOK, Dispose

(* What create_session_with_id and its pruning leave on the disk.          *)
LEMMA OpenSessionType ==
    ASSUME TypeOK, NEW i, OpenSession(i)
    PROVE  folder' \in [Ids -> {"none", "empty", "content"}]
<1>1. CASE UNCHANGED folder
  BY <1>1 DEF TypeOK
<1>2. CASE ~UNCHANGED folder
  BY <1>2 DEF OpenSession, TypeOK
<1> QED
  BY <1>1, <1>2

(* What an interrupted create_or_load leaves on the disk.                  *)
LEMMA UnloadType ==
    ASSUME TypeOK, NEW t \in Tasks, Unload(t)
    PROVE  owner' \in [Ids -> 0..Rival] /\ folder' \in [Ids -> {"none", "empty", "content"}]
<1>0. 0 \in 0..Rival
  BY MaxRecordsAssumption DEF Rival
<1>1. owner' \in [Ids -> 0..Rival]
  BY <1>0 DEF TypeOK, Unload
<1>2. ASSUME NEW i \in Ids
      PROVE  folder'[i] \in {"none", "empty", "content"}
  BY DEF TypeOK, Unload
<1>3. folder' = [i \in Ids |-> folder'[i]]
  BY DEF TypeOK, Unload
<1> QED
  BY <1>1, <1>2, <1>3

(* What _close_record leaves of its records.                               *)
LEMMA CloseRecordsType ==
    ASSUME TypeOK, NEW R \in SUBSET Records, CloseRecords(R)
    PROVE  /\ closed' \subseteq Records
           /\ owner' \in [Ids -> 0..Rival]
           /\ folder' \in [Ids -> {"none", "empty", "content"}]
  BY MaxRecordsAssumption DEF TypeOK, CloseRecords, Rival

(* Every action preserves the types.                                       *)
LEMMA StepTypes ==
    ASSUME TypeOK, Holding, Bounded, [Next]_vars
    PROVE  TypeOK'
<1> USE MaxRecordsAssumption, StepFlags DEF TypeOK
<1>0. CASE UNCHANGED vars
  BY <1>0 DEF vars, records, disk, tasks
<1>1. ASSUME NEW t \in Tasks, Get(t)
      PROVE  TypeOK'
  <2>1. want[t] \in Ids
    BY <1>1 DEF Get, Enters, Holding
  <2> QED
    BY <1>1, <2>1 DEF Get, Enters, Goto, Hold, records, disk, Awaits, LockPcs
<1>2. ASSUME NEW t \in Tasks, Lookup(t)
      PROVE  TypeOK'
  <2>1. want[t] \in Ids
    BY <1>2 DEF Lookup, Enters, Holding
  <2> QED
    BY <1>2, <2>1 DEF Lookup, Enters, Goto, Hold, Return, records, disk, Awaits,
       LockPcs
<1>3. ASSUME NEW t \in Tasks, Create(t)
      PROVE  TypeOK'
  BY <1>3 DEF Create, Enters, Goto, records, disk, Awaits, LockPcs
<1>4. ASSUME NEW t \in Tasks, CreateRefused(t)
      PROVE  TypeOK'
  BY <1>4 DEF CreateRefused, Enters, Goto, records, disk, Awaits, LockPcs
<1>5. ASSUME NEW t \in Tasks, MakeInstance(t)
      PROVE  TypeOK'
  <2>1. made < MaxRecords
    BY <1>5, RoomToMake DEF MakeInstance
  <2>2. made + 1 \in Records /\ made + 1 \in 0..MaxRecords /\ made + 1 \in 0..Rival
    BY <2>1 DEF Records, Rival
  <2> QED
    BY <1>5, <2>1, <2>2, DisposeType, OpenSessionType DEF MakeInstance, Goto, Hold, records, disk,
       Awaits, LockPcs
<1>6. ASSUME NEW t \in Tasks, InstanceFails(t)
      PROVE  TypeOK'
  BY <1>6 DEF InstanceFails, Goto, Hold, Return, records, disk, Awaits, LockPcs
<1>7. ASSUME NEW t \in Tasks, Load(t)
      PROVE  TypeOK'
  <2>1. on[t] \in Records
    BY <1>7 DEF Load, Holding
  <2>2. want[t] \in Ids
    BY <1>7 DEF Load, Holding
  <2> QED
    BY <1>7, <2>1, <2>2 DEF Load, Goto, records, disk, Awaits, LockPcs, Records
<1>8. ASSUME NEW t \in Tasks, LoadFails(t)
      PROVE  TypeOK'
  <2>1. on[t] \in Records
    BY <1>8 DEF LoadFails, Holding
  <2> QED
    BY <1>8, <2>1, DisposeType, UnloadType DEF LoadFails, Goto, records, disk,
       Awaits, LockPcs
<1>9. ASSUME NEW t \in Tasks, Undo(t)
      PROVE  TypeOK'
  BY <1>9 DEF Undo, Goto, Hold, records, disk, Awaits, LockPcs
<1>10. ASSUME NEW t \in Tasks, Begin(t)
      PROVE  TypeOK'
  <2>1. on[t] \in Records
    BY <1>10 DEF Begin, Enters, Holding
  <2> QED
    BY <1>10, <2>1 DEF Begin, Enters, Goto, MayBegin, records, disk, Awaits,
       LockPcs, Records
<1>11. ASSUME NEW t \in Tasks, Operate(t)
      PROVE  TypeOK'
  BY <1>11 DEF Operate, Goto, records, disk, Awaits, LockPcs
<1>12. ASSUME NEW t \in Tasks, Save(t)
      PROVE  TypeOK'
  BY <1>12 DEF Save, Goto, records, disk, Awaits, LockPcs, Rival
<1>13. ASSUME NEW t \in Tasks, End(t)
      PROVE  TypeOK'
  BY <1>13 DEF End, Enters, Goto, records, disk, Awaits, LockPcs
<1>14. ASSUME NEW t \in Tasks, Delete(t)
      PROVE  TypeOK'
  <2>1. want[t] \in Ids
    BY <1>14 DEF Delete, Enters, Holding
  <2>2. registry[want[t]] \in 0..MaxRecords
    BY <2>1
  <2>3. Deletable(registry[want[t]]) => registry[want[t]] \in Records
    BY <2>2 DEF Deletable, Records
  <2> QED
    BY <1>14, <2>1, <2>2, <2>3, DisposeType DEF Delete, Enters, Goto, Hold, Return,
       records, disk, Awaits, LockPcs
<1>15. ASSUME NEW t \in Tasks, Disposed(t)
      PROVE  TypeOK'
  <2>1. on[t] \in Records
    BY <1>15 DEF Disposed, Holding
  <2>2. /\ closed' \subseteq Records
        /\ handle' \subseteq Records
        /\ owner' \in [Ids -> 0..Rival]
        /\ folder' \in [Ids -> {"none", "empty", "content"}]
    <3>1. CASE CloseRecords({on[t]}) /\ UNCHANGED handle
      BY <2>1, <3>1, CloseRecordsType
    <3>2. CASE ~(CloseRecords({on[t]}) /\ UNCHANGED handle)
      BY <1>15, <3>2 DEF Disposed, Rival
    <3> QED
      BY <3>1, <3>2
  <2>3. on' \in [Tasks -> 0..MaxRecords] /\ pc' \in [Tasks -> Awaits \cup {"idle"}]
    BY <1>15 DEF Disposed, Goto, Hold, Return, Awaits, LockPcs
  <2> QED
    BY <1>15, <2>2, <2>3 DEF Disposed
<1>16. ASSUME NEW t \in Tasks, DisposeFails(t)
      PROVE  TypeOK'
  <2>1. on[t] \in Records
    BY <1>16 DEF DisposeFails, Holding
  <2> QED
    BY <1>16, <2>1, CloseRecordsType DEF DisposeFails, Goto, Hold, Return, records,
       disk, Awaits, LockPcs
<1>17. ASSUME NEW t \in Tasks, Shut(t)
      PROVE  TypeOK'
  BY <1>17 DEF Shut, Enters, Goto, records, disk, Awaits, LockPcs
<1>18. ASSUME NEW t \in Tasks, Drain(t)
      PROVE  TypeOK'
  BY <1>18 DEF Drain, Enters, Goto, records, disk, Awaits, LockPcs
<1>19. ASSUME NEW t \in Tasks, CloseAll(t)
      PROVE  TypeOK'
  <2>1. Registered \subseteq Records
    BY DEF Registered, Range, Records
  <2> QED
    BY <1>19, <2>1, DisposeType, CloseRecordsType DEF CloseAll, Enters, Goto,
       DisposeOneOf, records, disk, Awaits, LockPcs
<1>20. ASSUME NEW t \in Tasks, DisposeNext(t)
      PROVE  TypeOK'
  BY <1>20, DisposeType DEF DisposeNext, Goto, DisposeOneOf, records, disk, Awaits,
     LockPcs
<1>21. ASSUME NEW t \in Tasks, StartCreate(t)
      PROVE  TypeOK'
  BY <1>21 DEF StartCreate, Goto, Hold, records, disk, Awaits, LockPcs
<1>22. ASSUME NEW t \in Tasks, StartGet(t)
      PROVE  TypeOK'
  BY <1>22 DEF StartGet, Goto, Hold, records, disk, Awaits, LockPcs
<1>23. ASSUME NEW t \in Tasks, StartOperation(t)
      PROVE  TypeOK'
  BY <1>23 DEF StartOperation, Goto, records, disk, Awaits, LockPcs
<1>24. ASSUME NEW t \in Tasks, StartDelete(t)
      PROVE  TypeOK'
  BY <1>24 DEF StartDelete, Goto, Hold, records, disk, Awaits, LockPcs
<1>25. ASSUME NEW t \in Tasks, StartClose(t)
      PROVE  TypeOK'
  BY <1>25 DEF StartClose, Goto, Hold, records, disk, Awaits, LockPcs
<1>26. ASSUME NEW t \in Tasks, CancelWaiting(t)
      PROVE  TypeOK'
  BY <1>26 DEF CancelWaiting, Goto, Suspended, records, disk, Awaits, LockPcs
<1>27. ASSUME NEW t \in Tasks, CancelCreation(t)
      PROVE  TypeOK'
  BY <1>27, UnloadType DEF CancelCreation, Goto, Hold, Return, Suspended, records,
     disk, Awaits, LockPcs
<1>28. ASSUME NEW t \in Tasks, CancelOperation(t)
      PROVE  TypeOK'
  BY <1>28 DEF CancelOperation, Goto, Suspended, records, disk, Awaits, LockPcs
<1>29. ASSUME NEW t \in Tasks, CancelDelete(t)
      PROVE  TypeOK'
  <2>1. on[t] \in Records
    BY <1>29 DEF CancelDelete, Holding
  <2> QED
    BY <1>29, <2>1, CloseRecordsType DEF CancelDelete, Goto, Hold, Return,
       Suspended, records, disk, Awaits, LockPcs
<1>30. ASSUME NEW t \in Tasks, CancelClose(t)
      PROVE  TypeOK'
  BY <1>30 DEF CancelClose, Goto, Suspended, records, disk, Awaits, LockPcs
<1>31. ASSUME NEW i \in Ids, RivalTakes(i)
      PROVE  TypeOK'
  BY <1>31 DEF RivalTakes, records, tasks, Rival
<1>32. ASSUME NEW i \in Ids, RivalLeaves(i)
      PROVE  TypeOK'
  BY <1>32 DEF RivalLeaves, records, tasks, Rival
<1> QED
  BY <1>0, <1>1, <1>2, <1>3, <1>4, <1>5, <1>6, <1>7, <1>8, <1>9, <1>10, <1>11,
     <1>12, <1>13, <1>14, <1>15, <1>16, <1>17, <1>18, <1>19, <1>20, <1>21, <1>22,
     <1>23, <1>24, <1>25, <1>26, <1>27, <1>28, <1>29, <1>30, <1>31, <1>32 DEF Next,
     Proceed, Call, Cancel

(* Every action keeps what a task is about to use.                          *)
LEMMA StepHolding ==
    ASSUME TypeOK, Holding, Bounded, [Next]_vars
    PROVE  Holding'
<1> USE MaxRecordsAssumption DEF TypeOK, Holding
<1>0. CASE UNCHANGED vars
  BY <1>0 DEF vars, tasks
<1>1. ASSUME NEW t \in Tasks, Get(t)
      PROVE  Holding'
  BY <1>1 DEF Get, Enters, Goto, Hold
<1>2. ASSUME NEW t \in Tasks, Lookup(t)
      PROVE  Holding'
  BY <1>2 DEF Lookup, Enters, Goto, Hold, Return
<1>3. ASSUME NEW t \in Tasks, Create(t)
      PROVE  Holding'
  BY <1>3 DEF Create, Enters, Goto
<1>4. ASSUME NEW t \in Tasks, CreateRefused(t)
      PROVE  Holding'
  BY <1>4 DEF CreateRefused, Enters, Goto
<1>5. ASSUME NEW t \in Tasks, MakeInstance(t)
      PROVE  Holding'
  <2>1. made < MaxRecords
    BY <1>5, RoomToMake DEF MakeInstance
  <2> QED
    BY <1>5, <2>1 DEF MakeInstance, Goto, Hold, Records
<1>6. ASSUME NEW t \in Tasks, InstanceFails(t)
      PROVE  Holding'
  BY <1>6 DEF InstanceFails, Goto, Hold, Return
<1>7. ASSUME NEW t \in Tasks, Load(t)
      PROVE  Holding'
  BY <1>7 DEF Load, Goto
<1>8. ASSUME NEW t \in Tasks, LoadFails(t)
      PROVE  Holding'
  BY <1>8 DEF LoadFails, Goto
<1>9. ASSUME NEW t \in Tasks, Undo(t)
      PROVE  Holding'
  BY <1>9 DEF Undo, Goto, Hold
<1>10. ASSUME NEW t \in Tasks, Begin(t)
      PROVE  Holding'
  BY <1>10 DEF Begin, Enters, Goto
<1>11. ASSUME NEW t \in Tasks, Operate(t)
      PROVE  Holding'
  BY <1>11 DEF Operate, Goto
<1>12. ASSUME NEW t \in Tasks, Save(t)
      PROVE  Holding'
  BY <1>12 DEF Save, Goto
<1>13. ASSUME NEW t \in Tasks, End(t)
      PROVE  Holding'
  BY <1>13 DEF End, Enters, Goto
<1>14. ASSUME NEW t \in Tasks, Delete(t)
      PROVE  Holding'
  <2>1. registry[want[t]] \in 0..MaxRecords
    BY <1>14 DEF Delete, Enters
  <2>2. Deletable(registry[want[t]]) => registry[want[t]] \in Records
    BY <2>1 DEF Deletable, Records
  <2> QED
    BY <1>14, <2>1, <2>2 DEF Delete, Enters, Goto, Hold, Return
<1>15. ASSUME NEW t \in Tasks, Disposed(t)
      PROVE  Holding'
  BY <1>15 DEF Disposed, Goto, Hold, Return
<1>16. ASSUME NEW t \in Tasks, DisposeFails(t)
      PROVE  Holding'
  BY <1>16 DEF DisposeFails, Goto, Hold, Return
<1>17. ASSUME NEW t \in Tasks, Shut(t)
      PROVE  Holding'
  BY <1>17 DEF Shut, Enters, Goto
<1>18. ASSUME NEW t \in Tasks, Drain(t)
      PROVE  Holding'
  BY <1>18 DEF Drain, Enters, Goto
<1>19. ASSUME NEW t \in Tasks, CloseAll(t)
      PROVE  Holding'
  BY <1>19 DEF CloseAll, Enters, Goto, DisposeOneOf
<1>20. ASSUME NEW t \in Tasks, DisposeNext(t)
      PROVE  Holding'
  BY <1>20 DEF DisposeNext, Goto, DisposeOneOf
<1>21. ASSUME NEW t \in Tasks, StartCreate(t)
      PROVE  Holding'
  BY <1>21 DEF StartCreate, Goto, Hold
<1>22. ASSUME NEW t \in Tasks, StartGet(t)
      PROVE  Holding'
  BY <1>22 DEF StartGet, Goto, Hold
<1>23. ASSUME NEW t \in Tasks, StartOperation(t)
      PROVE  Holding'
  BY <1>23 DEF StartOperation, Goto, Records
<1>24. ASSUME NEW t \in Tasks, StartDelete(t)
      PROVE  Holding'
  BY <1>24 DEF StartDelete, Goto, Hold
<1>25. ASSUME NEW t \in Tasks, StartClose(t)
      PROVE  Holding'
  BY <1>25 DEF StartClose, Goto, Hold
<1>26. ASSUME NEW t \in Tasks, CancelWaiting(t)
      PROVE  Holding'
  BY <1>26 DEF CancelWaiting, Goto
<1>27. ASSUME NEW t \in Tasks, CancelCreation(t)
      PROVE  Holding'
  BY <1>27 DEF CancelCreation, Goto, Hold, Return
<1>28. ASSUME NEW t \in Tasks, CancelOperation(t)
      PROVE  Holding'
  BY <1>28 DEF CancelOperation, Goto
<1>29. ASSUME NEW t \in Tasks, CancelDelete(t)
      PROVE  Holding'
  BY <1>29 DEF CancelDelete, Goto, Hold, Return
<1>30. ASSUME NEW t \in Tasks, CancelClose(t)
      PROVE  Holding'
  BY <1>30 DEF CancelClose, Goto
<1>31. ASSUME NEW i \in Ids, RivalTakes(i)
      PROVE  Holding'
  BY <1>31 DEF RivalTakes, tasks
<1>32. ASSUME NEW i \in Ids, RivalLeaves(i)
      PROVE  Holding'
  BY <1>32 DEF RivalLeaves, tasks
<1> QED
  BY <1>0, <1>1, <1>2, <1>3, <1>4, <1>5, <1>6, <1>7, <1>8, <1>9, <1>10, <1>11,
     <1>12, <1>13, <1>14, <1>15, <1>16, <1>17, <1>18, <1>19, <1>20, <1>21, <1>22,
     <1>23, <1>24, <1>25, <1>26, <1>27, <1>28, <1>29, <1>30, <1>31, <1>32 DEF Next,
     Proceed, Call, Cancel

-----------------------------------------------------------------------------
(* Only a new creation adds to the tasks that may make an instance, and     *)
(* only one of them makes one.                                              *)
LEMMA StepCreating ==
    ASSUME TypeOK, Next
    PROVE  \/ made' = made /\ Creating' \subseteq Creating
           \/ \E t \in Tasks : StartCreate(t) \/ MakeInstance(t)
<1> USE DEF TypeOK, Creating
<1> DEFINE Calm == made' = made /\ Creating' \subseteq Creating
<1>1. ASSUME NEW t \in Tasks, Proceed(t)
      PROVE  Calm \/ MakeInstance(t)
  <2>1. CASE Get(t)
    BY <2>1 DEF Get, Enters, Goto, Hold, records
  <2>2. CASE Lookup(t)
    BY <2>2 DEF Lookup, Enters, Goto, Hold, Return, records
  <2>3. CASE Create(t)
    BY <2>3 DEF Create, Enters, Goto, records
  <2>4. CASE CreateRefused(t)
    BY <2>4 DEF CreateRefused, Enters, Goto, records
  <2>6. CASE InstanceFails(t)
    BY <2>6 DEF InstanceFails, Goto, Hold, Return, records
  <2>7. CASE Load(t)
    BY <2>7 DEF Load, Goto, records
  <2>8. CASE LoadFails(t)
    BY <2>8 DEF LoadFails, Goto, records
  <2>9. CASE Undo(t)
    BY <2>9 DEF Undo, Goto, Hold, records
  <2>10. CASE Begin(t)
    BY <2>10 DEF Begin, Enters, Goto, records
  <2>11. CASE Operate(t)
    BY <2>11 DEF Operate, Goto, records
  <2>12. CASE Save(t)
    BY <2>12 DEF Save, Goto, records
  <2>13. CASE End(t)
    BY <2>13 DEF End, Enters, Goto, records
  <2>14. CASE Delete(t)
    BY <2>14 DEF Delete, Enters, Goto, Hold, Return, records
  <2>15. CASE Disposed(t)
    BY <2>15 DEF Disposed, Goto, Hold, Return, records
  <2>16. CASE DisposeFails(t)
    BY <2>16 DEF DisposeFails, Goto, Hold, Return, records
  <2>17. CASE Shut(t)
    BY <2>17 DEF Shut, Enters, Goto, records
  <2>18. CASE Drain(t)
    BY <2>18 DEF Drain, Enters, Goto, records
  <2>19. CASE CloseAll(t)
    BY <2>19 DEF CloseAll, Enters, Goto, DisposeOneOf, records
  <2>20. CASE DisposeNext(t)
    BY <2>20 DEF DisposeNext, Goto, DisposeOneOf, records
  <2> QED
    BY <1>1, <2>1, <2>2, <2>3, <2>4, <2>6, <2>7, <2>8, <2>9, <2>10, <2>11, <2>12,
       <2>13, <2>14, <2>15, <2>16, <2>17, <2>18, <2>19, <2>20 DEF Proceed
<1>2. ASSUME NEW t \in Tasks, Call(t)
      PROVE  Calm \/ StartCreate(t)
  BY <1>2 DEF Call, StartGet, StartOperation, StartDelete, StartClose, Goto, records
<1>3. ASSUME NEW t \in Tasks, Cancel(t)
      PROVE  Calm
  <2>1. CASE CancelWaiting(t)
    BY <2>1 DEF CancelWaiting, Goto, records
  <2>2. CASE CancelCreation(t)
    BY <2>2 DEF CancelCreation, Goto, Hold, Return, records
  <2>3. CASE CancelOperation(t)
    BY <2>3 DEF CancelOperation, Goto, records
  <2>4. CASE CancelDelete(t)
    BY <2>4 DEF CancelDelete, Goto, Hold, Return, records
  <2>5. CASE CancelClose(t)
    BY <2>5 DEF CancelClose, Goto, records
  <2> QED
    BY <1>3, <2>1, <2>2, <2>3, <2>4, <2>5 DEF Cancel
<1>4. ASSUME NEW i \in Ids, RivalTakes(i) \/ RivalLeaves(i)
      PROVE  Calm
  BY <1>4 DEF RivalTakes, RivalLeaves, records, tasks
<1> QED
  BY <1>1, <1>2, <1>3, <1>4 DEF Next
(* Every step keeps a record for every creation in progress.               *)
LEMMA StepBounded == TypeOK /\ Bounded /\ [Next]_vars => Bounded'
<1> SUFFICES ASSUME TypeOK, Bounded, [Next]_vars
             PROVE  Bounded'
  OBVIOUS
<1> USE CreatingFinite, MaxRecordsAssumption
<1>1. CASE made' = made /\ Creating' \subseteq Creating
  <2>1. Cardinality(Creating') <= Cardinality(Creating) /\ Cardinality(Creating') \in Nat
    BY <1>1, FS_Subset, FS_CardinalityType
  <2>2. Cardinality(Creating)' = Cardinality(Creating')
    OBVIOUS
  <2> QED
    BY <1>1, <2>1, <2>2 DEF TypeOK, Bounded
<1>2. ASSUME NEW t \in Tasks, StartCreate(t)
      PROVE  Bounded'
  <2>1. made' = made /\ Creating' = Creating \cup {t}
    BY <1>2 DEF StartCreate, Goto, Creating, TypeOK, records
  <2>2. /\ IsFiniteSet(Creating \cup {t})
        /\ Cardinality(Creating \cup {t}) <= Cardinality(Creating) + 1
    BY FS_AddElement
  <2>3. Cardinality(Creating \cup {t}) \in Nat
    BY <2>2, FS_CardinalityType
  <2> QED
    BY <1>2, <2>1, <2>2, <2>3 DEF StartCreate, TypeOK, Bounded
<1>3. ASSUME NEW t \in Tasks, MakeInstance(t)
      PROVE  Bounded'
  <2>1. t \in Creating /\ made' = made + 1 /\ Creating' = Creating \ {t}
    BY <1>3 DEF MakeInstance, Goto, Creating, TypeOK
  <2>2. Cardinality(Creating') = Cardinality(Creating) - 1
    BY <2>1, FS_RemoveElement
  <2> QED
    BY <2>1, <2>2 DEF TypeOK, Bounded
<1>4. CASE UNCHANGED vars
  <2>1. made' = made /\ Creating' = Creating
    BY <1>4 DEF vars, records, tasks, Creating
  <2> QED
    BY <1>1, <2>1
<1> QED
  BY <1>1, <1>2, <1>3, <1>4, StepCreating

(* The initial state has all of it.                                        *)
LEMMA InitTypes == Init => TypeOK /\ Holding /\ Bounded
<1> SUFFICES ASSUME Init
             PROVE  TypeOK /\ Holding /\ Bounded
  OBVIOUS
<1>0. closing \in BOOLEAN /\ returned \in BOOLEAN
  BY DEF Init
<1>1. TypeOK /\ Holding
  BY <1>0, MaxRecordsAssumption DEF Init, TypeOK, Holding, Records, Awaits, LockPcs, Rival
<1>2. Creating = {}
  BY DEF Init, Creating
<1>3. Bounded
  BY <1>2, FS_EmptySet, MaxRecordsAssumption DEF Init, Bounded
<1> QED
  BY <1>1, <1>3

(* The types, the sessions tasks hold and the room for new records are     *)
(* invariant together.                                                     *)
LEMMA TypesInvariant == Spec => [](TypeOK /\ Holding /\ Bounded)
<1>1. TypeOK /\ Holding /\ Bounded /\ [Next]_vars => (TypeOK /\ Holding /\ Bounded)'
  BY StepTypes, StepHolding, StepBounded
<1> QED
  BY <1>1, InitTypes, PTL DEF Spec

(* The registry, the sessions, the leases and the tasks keep to their       *)
(* types: a record is never made beyond the bound, no step acts on a        *)
(* session that is not there.                                               *)
THEOREM TypeCorrect == Spec => []TypeOK
  BY TypesInvariant, PTL

-----------------------------------------------------------------------------
(* The strengthening of OneOperation: the operation a task is in, to its    *)
(* end, is on the record, and no other task is in one on that record.       *)
InOperation(t) == pc[t] \in {"op", "save", "end"}
Busy ==
    /\ \A t \in Tasks : InOperation(t) => on[t] \in active
    /\ \A t, u \in Tasks : InOperation(t) /\ InOperation(u) /\ on[t] = on[u] => t = u

(* A step of a task that neither begins nor ends an operation, nor touches  *)
(* active, keeps the operations as they are.                                *)
LEMMA OthersKeepBusy ==
    ASSUME TypeOK, Busy, active' = active,
           \A t \in Tasks : InOperation(t)' => InOperation(t) /\ on'[t] = on[t]
    PROVE  Busy'
  BY DEF Busy

(* Every step keeps operations apart (_begin_session_operation checks and   *)
(* sets active_operation under the lock; _end_operation resets it).         *)
LEMMA StepBusy ==
    ASSUME TypeOK, Busy, [Next]_vars
    PROVE  Busy'
<1> USE DEF TypeOK, InOperation
<1> DEFINE Kept == /\ active' = active
                   /\ \A u \in Tasks : InOperation(u)' => InOperation(u) /\ on'[u] = on[u]
<1>1. ASSUME NEW t \in Tasks, Begin(t)
      PROVE  Busy'
  <2>1. CASE MayBegin(on[t])
    <3>1. on[t] \notin active /\ on' = on /\ active' = active \cup {on[t]}
      BY <1>1, <2>1 DEF Begin, MayBegin
    <3>2. \A u \in Tasks \ {t} : pc'[u] = pc[u]
      BY <1>1, <2>1 DEF Begin, Goto
    <3> QED
      BY <3>1, <3>2 DEF Busy
  <2>2. CASE ~MayBegin(on[t])
    <3>1. Kept
      BY <1>1, <2>2 DEF Begin, Goto
    <3> QED
      BY <3>1, OthersKeepBusy
  <2> QED
    BY <2>1, <2>2
<1>2. ASSUME NEW t \in Tasks, End(t)
      PROVE  Busy'
  <2>1. on' = on /\ active' = active \ {on[t]} /\ ~InOperation(t)' /\ InOperation(t)
    BY <1>2 DEF End, Enters, Goto
  <2>2. \A u \in Tasks \ {t} : pc'[u] = pc[u]
    BY <1>2 DEF End, Goto
  <2> QED
    BY <2>1, <2>2 DEF Busy
<1>3. ASSUME NEW t \in Tasks, Proceed(t), ~Begin(t), ~End(t)
      PROVE  Kept
  <2>1. CASE Get(t)
    BY <2>1 DEF Get, Enters, Goto, Hold, records
  <2>2. CASE Lookup(t)
    BY <2>2 DEF Lookup, Enters, Goto, Hold, Return, records
  <2>3. CASE Create(t)
    BY <2>3 DEF Create, Enters, Goto, records
  <2>4. CASE CreateRefused(t)
    BY <2>4 DEF CreateRefused, Enters, Goto, records
  <2>5. CASE MakeInstance(t)
    BY <2>5 DEF MakeInstance, Goto, Hold, records
  <2>6. CASE InstanceFails(t)
    BY <2>6 DEF InstanceFails, Goto, Hold, Return, records
  <2>7. CASE Load(t)
    BY <2>7 DEF Load, Goto, records
  <2>8. CASE LoadFails(t)
    BY <2>8 DEF LoadFails, Goto, records
  <2>9. CASE Undo(t)
    BY <2>9 DEF Undo, Goto, Hold, records
  <2>10. CASE Operate(t)
    BY <2>10 DEF Operate, Goto, records
  <2>11. CASE Save(t)
    BY <2>11 DEF Save, Goto, records
  <2>12. CASE Delete(t)
    BY <2>12 DEF Delete, Enters, Goto, Hold, Return, records
  <2>13. CASE Disposed(t)
    BY <2>13 DEF Disposed, Goto, Hold, Return, records
  <2>14. CASE DisposeFails(t)
    BY <2>14 DEF DisposeFails, Goto, Hold, Return, records
  <2>15. CASE Shut(t)
    BY <2>15 DEF Shut, Enters, Goto, records
  <2>16. CASE Drain(t)
    BY <2>16 DEF Drain, Enters, Goto, records
  <2>17. CASE CloseAll(t)
    BY <2>17 DEF CloseAll, Enters, Goto, DisposeOneOf, records
  <2>18. CASE DisposeNext(t)
    BY <2>18 DEF DisposeNext, Goto, DisposeOneOf, records
  <2> QED
    BY <1>3, <2>1, <2>2, <2>3, <2>4, <2>5, <2>6, <2>7, <2>8, <2>9, <2>10, <2>11,
       <2>12, <2>13, <2>14, <2>15, <2>16, <2>17, <2>18 DEF Proceed
<1>4. ASSUME NEW t \in Tasks, Call(t)
      PROVE  Kept
  BY <1>4 DEF Call, StartCreate, StartGet, StartOperation, StartDelete, StartClose, Goto,
     Hold, records
<1>5. ASSUME NEW t \in Tasks, Cancel(t)
      PROVE  Kept
  <2>1. CASE CancelWaiting(t)
    BY <2>1 DEF CancelWaiting, Goto, records
  <2>2. CASE CancelCreation(t)
    BY <2>2 DEF CancelCreation, Goto, Hold, Return, records
  <2>3. CASE CancelOperation(t)
    BY <2>3 DEF CancelOperation, Goto, records
  <2>4. CASE CancelDelete(t)
    BY <2>4 DEF CancelDelete, Goto, Hold, Return, records
  <2>5. CASE CancelClose(t)
    BY <2>5 DEF CancelClose, Goto, records
  <2> QED
    BY <1>5, <2>1, <2>2, <2>3, <2>4, <2>5 DEF Cancel
<1>6. ASSUME NEW i \in Ids, RivalTakes(i) \/ RivalLeaves(i)
      PROVE  Kept
  BY <1>6 DEF RivalTakes, RivalLeaves, records, tasks
<1>7. ASSUME UNCHANGED vars
      PROVE  Kept
  BY <1>7 DEF vars, records, tasks
<1>8. Kept \/ \E t \in Tasks : Begin(t) \/ End(t)
  BY <1>3, <1>4, <1>5, <1>6, <1>7 DEF Next
<1> QED
  BY <1>1, <1>2, <1>8, OthersKeepBusy

(* A session runs one operation at a time, whatever tasks hold it, whoever  *)
(* is cancelled and whatever fails.                                         *)
THEOREM OneOperationSafe == Spec => []OneOperation
<1>1. Init => Busy
  BY DEF Init, Busy, InOperation
<1>2. TypeOK /\ Busy /\ [Next]_vars => Busy'
  BY StepBusy
<1>3. Busy => OneOperation
  BY DEF Busy, OneOperation, Operating, InOperation
<1> QED
  BY <1>1, <1>2, <1>3, TypeCorrect, PTL DEF Spec

-----------------------------------------------------------------------------
(* What the tasks and the records stand in. First: the lock is held through *)
(* a creation, and never again once the harness is closing.                 *)
LockHeld ==
    /\ closing => lock = None
    /\ \A t \in Tasks : pc[t] \in {"makeInstance", "load", "undo"} => lock = t
    /\ \A t \in Tasks : pc[t] \in {"makeInstance", "load"} => registry[want[t]] = 0

(* The records there are.                                                  *)
Made == 1..made
Numbered == closed \subseteq Made /\ \A r \in Made : id[r] \in Ids

(* The record that is being loaded has the persisted session of its ID.    *)
Loading ==
    \A t \in Tasks : pc[t] = "load" =>
        /\ on[t] \in Made \ closed
        /\ id[on[t]] = want[t]
        /\ owner[want[t]] = on[t]
        /\ folder[want[t]] # "none"

(* So has a record that is listed.                                         *)
Published ==
    \A i \in Ids : registry[i] # 0 =>
        /\ registry[i] \in Made \ closed
        /\ id[registry[i]] = i
        /\ owner[i] = registry[i]
        /\ folder[i] # "none"

(* A session somebody holds is listed or closed.                           *)
Held ==
    \A t \in Tasks : on[t] # 0 /\ pc[t] # "load" =>
        /\ on[t] \in Made
        /\ on[t] \in closed \/ registry[id[on[t]]] = on[t]

(* A record that is being deleted is closed, keeps its lease, and one task  *)
(* deletes it.                                                             *)
Deleting ==
    /\ \A t \in Tasks : pc[t] = "dispose" => on[t] \in closed /\ owner[id[on[t]]] = on[t]
    /\ \A t, u \in Tasks :
          pc[t] = "dispose" /\ pc[u] = "dispose" /\ on[t] = on[u] => t = u

(* Only closed records are disposed; those a close_all has yet to dispose   *)
(* are its own.                                                            *)
Disposals ==
    /\ \A r \in Records : disposals[r] <= 1 /\ (r \notin closed => disposals[r] = 0)
    /\ \A t \in Tasks : todo[t] \subseteq closed /\ \A r \in todo[t] : disposals[r] = 0
    /\ \A t, u \in Tasks : \A r \in todo[t] : r \in todo[u] => t = u

(* Sessions in use are not closed: close_all waits until none is.          *)
Draining ==
    /\ \A t \in Tasks : pc[t] \in {"drain", "closeAll", "disposeAll"} => closing
    /\ \A t \in Tasks : pc[t] = "closeAll" => \A i \in Ids : registry[i] \notin active
    /\ \A t \in Tasks : Operating(t) => on[t] \notin closed

Sound ==
    /\ LockHeld /\ Numbered /\ Loading /\ Published
    /\ Held /\ Deleting /\ Disposals /\ Draining

(* A step of one task.                                                     *)
OthersStay(t) ==
    \A u \in Tasks \ {t} : pc'[u] = pc[u] /\ on'[u] = on[u] /\ want'[u] = want[u]


(* The registry lists its records.                                         *)
LEMMA RegisteredAre ==
    ASSUME TypeOK
    PROVE  /\ Registered \subseteq Records
           /\ \A i \in Ids : registry[i] = 0 \/ registry[i] \in Registered
           /\ \A r \in Registered : \E i \in Ids : registry[i] = r
  BY DEF TypeOK, Registered, Range, Records


(* A step that only moves a task between places where it has nothing of its *)
(* own, and leaves it with no session, the same one or a listed one.        *)
Quiet(t) ==
    /\ UNCHANGED <<registry, made, id, active, closed, disposals, closing, disk, todo>>
    /\ OthersStay(t)
    /\ pc[t] \notin {"load", "disposeAll"}
    /\ pc'[t] \notin {"makeInstance", "load", "undo", "dispose", "drain", "closeAll",
                      "disposeAll"}
    /\ Operating(t)' => Operating(t) /\ on'[t] = on[t]
    /\ \/ on'[t] = 0
       \/ on'[t] = on[t]
       \/ \E i \in Ids : on'[t] = registry[i]
    /\ lock' = lock \/ (lock' = None /\ lock = t)

(* Such a step keeps all of it.                                            *)
LEMMA QuietSound ==
    ASSUME TypeOK, Sound, NEW t \in Tasks, Quiet(t)
    PROVE  Sound'
<1>1. LockHeld'
  BY DEF TypeOK, Sound, LockHeld, Quiet, OthersStay, disk
<1>2. Numbered'
  BY DEF TypeOK, Sound, Numbered, Made, Quiet, OthersStay, disk
<1>3. Loading'
  BY DEF TypeOK, Sound, Loading, Made, Quiet, OthersStay, disk
<1>4. Published'
  BY DEF TypeOK, Sound, Published, Made, Quiet, OthersStay, disk
<1>5. Held'
  BY DEF TypeOK, Sound, Held, Made, Published, Quiet, OthersStay, disk
<1>6. Deleting'
  BY DEF TypeOK, Sound, Deleting, Quiet, OthersStay, disk
<1>7. Disposals'
  BY DEF TypeOK, Sound, Disposals, Quiet, OthersStay, disk
<1>8. Draining'
  BY DEF TypeOK, Sound, Draining, Operating, Quiet, OthersStay, disk
<1> QED
  BY <1>1, <1>2, <1>3, <1>4, <1>5, <1>6, <1>7, <1>8 DEF Sound

(* The steps of that kind.                                               *)
IsQuiet(t) ==
    \/ Get(t)
    \/ Lookup(t)
    \/ CreateRefused(t)
    \/ InstanceFails(t)
    \/ Undo(t)
    \/ Operate(t)
    \/ StartGet(t)
    \/ StartCreate(t)
    \/ StartOperation(t)
    \/ StartDelete(t)
    \/ StartClose(t)
    \/ CancelWaiting(t)
    \/ CancelOperation(t)

(* The calls, the lookups and the refusals are such steps, and so are the  *)
(* ends of creations and the interruptions that leave nothing behind.      *)
LEMMA QuietSteps ==
    ASSUME TypeOK, Holding, Sound, NEW t \in Tasks, IsQuiet(t)
    PROVE  Quiet(t)
<1> USE DEF TypeOK, Holding, Sound, LockHeld, Quiet, OthersStay, Operating, records,
        disk
<1>1. CASE Get(t)
  BY <1>1 DEF Get, Enters, Goto, Hold
<1>2. CASE Lookup(t)
  BY <1>2 DEF Lookup, Enters, Goto, Hold, Return
<1>3. CASE CreateRefused(t)
  BY <1>3 DEF CreateRefused, Enters, Goto
<1>4. CASE InstanceFails(t)
  BY <1>4 DEF InstanceFails, Goto, Hold, Return
<1>5. CASE Undo(t)
  BY <1>5 DEF Undo, Goto, Hold
<1>6. CASE Operate(t)
  BY <1>6 DEF Operate, Goto
<1>7. CASE StartGet(t)
  BY <1>7 DEF StartGet, Goto, Hold
<1>8. CASE StartCreate(t)
  BY <1>8 DEF StartCreate, Goto, Hold
<1>9. CASE StartOperation(t)
  BY <1>9 DEF StartOperation, Goto
<1>10. CASE StartDelete(t)
  BY <1>10 DEF StartDelete, Goto, Hold
<1>11. CASE StartClose(t)
  BY <1>11 DEF StartClose, Goto, Hold
<1>12. CASE CancelWaiting(t)
  BY <1>12 DEF CancelWaiting, Goto, LockPcs
<1>13. CASE CancelOperation(t)
  BY <1>13 DEF CancelOperation, Goto
<1> QED
  BY <1>1, <1>2, <1>3, <1>4, <1>5, <1>6, <1>7, <1>8, <1>9, <1>10, <1>11, <1>12, <1>13
     DEF IsQuiet

(* A creation takes the lock for an ID that is not listed.                 *)
LEMMA CreateSound ==
    ASSUME TypeOK, Holding, Bounded, Sound, NEW t \in Tasks, Create(t)
    PROVE  Sound'
<1>1. LockHeld'
  BY TasksAssumption DEF TypeOK, Sound, LockHeld, Create, Enters, Goto, Holding,
     records, disk
<1>2. Numbered'
  BY DEF TypeOK, Sound, Numbered, Made, Create, Enters, Goto, Holding, records, disk
<1>3. Loading'
  BY DEF TypeOK, Sound, Loading, Made, Create, Enters, Goto, Holding, records, disk
<1>4. Published'
  BY DEF TypeOK, Sound, Published, Made, Create, Enters, Goto, Holding, records, disk
<1>5. Held'
  BY DEF TypeOK, Sound, Held, Made, Create, Enters, Goto, Holding, records, disk
<1>6. Deleting'
  BY DEF TypeOK, Sound, Deleting, Create, Enters, Goto, Holding, records, disk
<1>7. Disposals'
  BY DEF TypeOK, Sound, Disposals, Create, Enters, Goto, Holding, records, disk
<1>8. Draining'
  BY DEF TypeOK, Sound, Draining, Operating, Create, Enters, Goto, Holding, records,
     disk
<1> QED
  BY <1>1, <1>2, <1>3, <1>4, <1>5, <1>6, <1>7, <1>8 DEF Sound

(* A session is published with the lease its creation took.                *)
LEMMA LoadSound ==
    ASSUME TypeOK, Holding, Bounded, Sound, NEW t \in Tasks, Load(t)
    PROVE  Sound'
<1>1. LockHeld'
  BY DEF TypeOK, Sound, LockHeld, Load, Goto, Holding, disk, Records
<1>2. Numbered'
  BY DEF TypeOK, Sound, Numbered, Made, Load, Goto, Holding, disk, Records
<1>3. Loading'
  BY DEF TypeOK, Sound, Loading, Made, Load, Goto, Holding, disk, Records
<1>4. Published'
  BY DEF TypeOK, Sound, Published, Made, Loading, LockHeld, Load, Goto, Holding, disk,
     Records
<1>5. Held'
  BY DEF TypeOK, Sound, Held, Made, Loading, LockHeld, Load, Goto, Holding, disk,
     Records
<1>6. Deleting'
  BY DEF TypeOK, Sound, Deleting, Load, Goto, Holding, disk, Records
<1>7. Disposals'
  BY DEF TypeOK, Sound, Disposals, Load, Goto, Holding, disk, Records
<1>8. Draining'
  BY TasksAssumption DEF TypeOK, Sound, Draining, Operating, Loading, LockHeld, Load,
     Goto, Holding, disk, Records
<1> QED
  BY <1>1, <1>2, <1>3, <1>4, <1>5, <1>6, <1>7, <1>8 DEF Sound

(* A creation that fails closes and disposes what it made.                 *)
LEMMA LoadFailsSound ==
    ASSUME TypeOK, Holding, Bounded, Sound, NEW t \in Tasks, LoadFails(t)
    PROVE  Sound'
<1> USE MaxRecordsAssumption, TasksAssumption DEF TypeOK, Sound, LockHeld, Numbered,
        Made, Loading, Published, Held, Deleting, Disposals, Draining, Operating
<1>1. LockHeld'
  BY DEF LoadFails, Unload, Dispose, Goto, Holding, Records
<1>2. Numbered'
  <2>1. on[t] \in Made /\ closed' = closed \cup {on[t]} /\ made' = made /\ id' = id
    BY DEF LoadFails
  <2>2. ASSUME NEW r \in closed'
        PROVE  r \in Made'
    <3>1. r \in closed \/ r = on[t]
      BY <2>1
    <3>2. r \in Made
      BY <2>1, <3>1
    <3> QED
      BY <2>1, <3>2
  <2> QED
    BY <2>1, <2>2
<1>3. Loading'
  BY DEF LoadFails, Unload, Dispose, Goto, Holding, Records
<1>4. Published'
  BY DEF LoadFails, Unload, Dispose, Goto, Holding, Records
<1>5. Held'
  BY DEF LoadFails, Unload, Dispose, Goto, Holding, Records
<1>6. Deleting'
  BY DEF LoadFails, Unload, Dispose, Goto, Holding, Records
<1>7. Disposals'
  <2>1. on[t] \in Records \ closed /\ disposals[on[t]] = 0 /\ closed' = closed \cup {on[t]}
    BY DEF LoadFails, Holding
  <2>2. disposals'[on[t]] = 1 /\ \A r \in Records \ {on[t]} : disposals'[r] = disposals[r]
    BY <2>1 DEF LoadFails, Dispose
  <2>3. todo' = todo /\ \A u \in Tasks : on[t] \notin todo[u]
    BY <2>1 DEF LoadFails
  <2> QED
    BY <2>1, <2>2, <2>3
<1>8. Draining'
  <2>1. /\ closed' = closed \cup {on[t]}
        /\ UNCHANGED <<registry, active, closing, on>>
    BY DEF LoadFails
  <2>2. pc' = [pc EXCEPT ![t] = "undo"]
    BY DEF LoadFails, Goto
  <2>3. ASSUME NEW u \in Tasks, Operating(u)
        PROVE  on[u] # on[t]
    <3>1. on[u] # 0 /\ registry[id[on[u]]] = on[u]
      BY <2>3 DEF Holding, Records
    <3>2. on[t] # 0 /\ registry[id[on[t]]] = 0
      BY DEF LoadFails
    <3> QED
      BY <3>1, <3>2
  <2> QED
    BY <2>1, <2>2, <2>3
<1> QED
  BY <1>1, <1>2, <1>3, <1>4, <1>5, <1>6, <1>7, <1>8

(* An interrupted creation gives the lease of its own record back.         *)
LEMMA CancelLoadSound ==
    ASSUME TypeOK, Holding, Bounded, Sound, NEW t \in Tasks, CancelCreation(t)
    PROVE  Sound'
<1>1. LockHeld'
  BY DEF TypeOK, Sound, LockHeld, CancelCreation, Unload, Goto, Return, Hold, Holding,
     records, disk
<1>2. Numbered'
  BY DEF TypeOK, Sound, Numbered, Made, CancelCreation, Unload, Goto, Return, Hold,
     Holding, records, disk
<1>3. Loading'
  BY DEF TypeOK, Sound, Loading, Made, LockHeld, CancelCreation, Unload, Goto, Return,
     Hold, Holding, records, disk
<1>4. Published'
  BY DEF TypeOK, Sound, Published, Made, LockHeld, Loading, CancelCreation, Unload,
     Goto, Return, Hold, Holding, records, disk
<1>5. Held'
  BY DEF TypeOK, Sound, Held, Made, CancelCreation, Unload, Goto, Return, Hold,
     Holding, records, disk
<1>6. Deleting'
  BY DEF TypeOK, Sound, Deleting, Loading, Made, Numbered, CancelCreation, Unload,
     Goto, Return, Hold, Holding, records, disk
<1>7. Disposals'
  BY DEF TypeOK, Sound, Disposals, CancelCreation, Unload, Goto, Return, Hold,
     Holding, records, disk
<1>8. Draining'
  BY DEF TypeOK, Sound, Draining, Operating, CancelCreation, Unload, Goto, Return,
     Hold, Holding, records, disk
<1> QED
  BY <1>1, <1>2, <1>3, <1>4, <1>5, <1>6, <1>7, <1>8 DEF Sound

(* An operation begins on a session that is not closed, before closing.    *)
LEMMA BeginSound ==
    ASSUME TypeOK, Holding, Bounded, Sound, NEW t \in Tasks, Begin(t)
    PROVE  Sound'
<1>1. LockHeld'
  BY DEF TypeOK, Sound, LockHeld, Begin, MayBegin, Enters, Goto, Holding, disk
<1>2. Numbered'
  BY DEF TypeOK, Sound, Numbered, Made, Begin, MayBegin, Enters, Goto, Holding, disk
<1>3. Loading'
  BY DEF TypeOK, Sound, Loading, Made, Begin, MayBegin, Enters, Goto, Holding, disk
<1>4. Published'
  BY DEF TypeOK, Sound, Published, Made, Begin, MayBegin, Enters, Goto, Holding, disk
<1>5. Held'
  BY DEF TypeOK, Sound, Held, Made, Begin, MayBegin, Enters, Goto, Holding, disk
<1>6. Deleting'
  BY DEF TypeOK, Sound, Deleting, Begin, MayBegin, Enters, Goto, Holding, disk
<1>7. Disposals'
  BY DEF TypeOK, Sound, Disposals, Begin, MayBegin, Enters, Goto, Holding, disk
<1>8. Draining'
  BY DEF TypeOK, Sound, Draining, Operating, Begin, MayBegin, Enters, Goto, Holding,
     disk
<1> QED
  BY <1>1, <1>2, <1>3, <1>4, <1>5, <1>6, <1>7, <1>8 DEF Sound

(* A save writes to the lease its session has.                             *)
LEMMA SaveSound ==
    ASSUME TypeOK, Holding, Bounded, Sound, NEW t \in Tasks, Save(t)
    PROVE  Sound'
<1>1. LockHeld'
  BY DEF TypeOK, Sound, LockHeld, Save, Goto, Holding, records, disk
<1>2. Numbered'
  BY DEF TypeOK, Sound, Numbered, Made, Save, Goto, Holding, records, disk
<1>3. Loading'
  BY DEF TypeOK, Sound, Loading, Made, Save, Goto, Holding, records, disk
<1>4. Published'
  BY DEF TypeOK, Sound, Published, Made, Save, Goto, Holding, records, disk
<1>5. Held'
  BY DEF TypeOK, Sound, Held, Made, Save, Goto, Holding, records, disk
<1>6. Deleting'
  BY DEF TypeOK, Sound, Deleting, Numbered, Made, Held, Published, Draining,
     Operating, Save, Goto, Holding, records, disk
<1>7. Disposals'
  BY DEF TypeOK, Sound, Disposals, Save, Goto, Holding, records, disk
<1>8. Draining'
  BY DEF TypeOK, Sound, Draining, Operating, Save, Goto, Holding, records, disk
<1> QED
  BY <1>1, <1>2, <1>3, <1>4, <1>5, <1>6, <1>7, <1>8 DEF Sound

(* The end of an operation touches neither the registry nor the disk.      *)
LEMMA EndSound ==
    ASSUME TypeOK, Holding, Bounded, Sound, NEW t \in Tasks, End(t)
    PROVE  Sound'
<1>1. LockHeld'
  BY DEF TypeOK, Sound, LockHeld, End, Enters, Goto, Holding, disk
<1>2. Numbered'
  BY DEF TypeOK, Sound, Numbered, Made, End, Enters, Goto, Holding, disk
<1>3. Loading'
  BY DEF TypeOK, Sound, Loading, Made, End, Enters, Goto, Holding, disk
<1>4. Published'
  BY DEF TypeOK, Sound, Published, Made, End, Enters, Goto, Holding, disk
<1>5. Held'
  BY DEF TypeOK, Sound, Held, Made, End, Enters, Goto, Holding, disk
<1>6. Deleting'
  BY DEF TypeOK, Sound, Deleting, End, Enters, Goto, Holding, disk
<1>7. Disposals'
  BY DEF TypeOK, Sound, Disposals, End, Enters, Goto, Holding, disk
<1>8. Draining'
  BY DEF TypeOK, Sound, Draining, Operating, End, Enters, Goto, Holding, disk
<1> QED
  BY <1>1, <1>2, <1>3, <1>4, <1>5, <1>6, <1>7, <1>8 DEF Sound

(* A deletion takes a listed record that nobody operates, and only one     *)
(* deletion can.                                                           *)
LEMMA DeleteSound ==
    ASSUME TypeOK, Holding, Busy, Sound, NEW t \in Tasks, Delete(t)
    PROVE  Sound'
<1> USE TasksAssumption DEF TypeOK, Sound, LockHeld, Numbered, Made, Loading,
        Published,
        Held, Deleting, Disposals, Draining, Operating
<1> DEFINE r == registry[want[t]]
<1>1. CASE ~Deletable(r)
  <2>1. Quiet(t)
    BY <1>1 DEF Delete, Enters, Return, Goto, Hold, Quiet, OthersStay, disk
  <2> QED
    BY <2>1, QuietSound
<1>2. CASE Deletable(r)
  <2>1. /\ want[t] \in Ids /\ r \in Records /\ r \in Made \ closed /\ id[r] = want[t]
        /\ owner[want[t]] = r /\ lock = None /\ pc[t] = "delete" /\ r \notin active
    BY <1>2 DEF Delete, Deletable, Enters, Holding, Records
  <2>2. /\ registry' = [registry EXCEPT ![want[t]] = 0] /\ closed' = closed \cup {r}
        /\ disposals' = [disposals EXCEPT ![r] = @ + 1]
        /\ UNCHANGED <<made, id, active, closing, lock, owner, folder, want, todo>>
    BY <1>2 DEF Delete, Dispose, disk
  <2>3. /\ pc' = [pc EXCEPT ![t] = "dispose"]
        /\ on' = [on EXCEPT ![t] = r]
    BY <1>2 DEF Delete, Goto, Hold
  <2> HIDE DEF r
  <2>4. \A i \in Ids \ {want[t]} : registry[i] # r
    BY <2>1
  <2>5. LockHeld'
    BY <2>1, <2>2, <2>3
  <2>6. Numbered'
    BY <2>1, <2>2
  <2>7. Loading'
    BY <2>1, <2>2, <2>3
  <2>8. Published'
    BY <2>1, <2>2, <2>4
  <2>9. Held'
    BY <2>1, <2>2, <2>3
  <2>10. Deleting'
    BY <2>1, <2>2, <2>3
  <2>11. Disposals'
    <3>1. disposals'[r] = 1 /\ disposals[r] = 0
          /\ \A s \in Records \ {r} : disposals'[s] = disposals[s]
      BY <2>1, <2>2
    <3>2. \A u \in Tasks : r \notin todo[u]
      BY <2>1
    <3> QED
      BY <2>2, <3>1, <3>2
  <2>12. Draining'
    <3>1. \A u \in Tasks : Operating(u) => on[u] # r
      BY <2>1 DEF Busy, InOperation
    <3>2. \A u \in Tasks : Operating(u)' => Operating(u) /\ on'[u] = on[u]
      BY <2>3
    <3>3. \A i \in Ids : registry'[i] = registry[i] \/ registry'[i] = 0
      BY <2>2
    <3>4. 0 \notin active
      BY DEF Records
    <3> QED
      BY <2>2, <2>3, <3>1, <3>2, <3>3, <3>4
  <2> QED
    BY <2>5, <2>6, <2>7, <2>8, <2>9, <2>10, <2>11, <2>12
<1> QED
  BY <1>1, <1>2

(* The harness closes while nobody holds the lock.                         *)
LEMMA ShutSound ==
    ASSUME TypeOK, Holding, Bounded, Sound, NEW t \in Tasks, Shut(t)
    PROVE  Sound'
<1>1. LockHeld'
  BY DEF TypeOK, Sound, LockHeld, Shut, Enters, Goto, records, disk
<1>2. Numbered'
  BY DEF TypeOK, Sound, Numbered, Made, Shut, Enters, Goto, records, disk
<1>3. Loading'
  BY DEF TypeOK, Sound, Loading, Made, Shut, Enters, Goto, records, disk
<1>4. Published'
  BY DEF TypeOK, Sound, Published, Made, Shut, Enters, Goto, records, disk
<1>5. Held'
  BY DEF TypeOK, Sound, Held, Made, Shut, Enters, Goto, records, disk
<1>6. Deleting'
  BY DEF TypeOK, Sound, Deleting, Shut, Enters, Goto, records, disk
<1>7. Disposals'
  BY DEF TypeOK, Sound, Disposals, Shut, Enters, Goto, records, disk
<1>8. Draining'
  BY DEF TypeOK, Sound, Draining, Operating, Shut, Enters, Goto, records, disk
<1> QED
  BY <1>1, <1>2, <1>3, <1>4, <1>5, <1>6, <1>7, <1>8 DEF Sound

(* The drain loop leaves when no listed session is in use.                 *)
LEMMA DrainSound ==
    ASSUME TypeOK, Holding, Bounded, Sound, NEW t \in Tasks, Drain(t)
    PROVE  Sound'
<1> USE MaxRecordsAssumption, TasksAssumption DEF TypeOK, Sound, LockHeld, Numbered,
        Made, Loading, Published, Held, Deleting, Disposals, Draining, Operating
<1>1. LockHeld'
  BY DEF Drain, Enters, Goto, records, disk, Registered, Range
<1>2. Numbered'
  BY DEF Drain, Enters, Goto, records, disk, Registered, Range
<1>3. Loading'
  BY DEF Drain, Enters, Goto, records, disk, Registered, Range
<1>4. Published'
  BY DEF Drain, Enters, Goto, records, disk, Registered, Range
<1>5. Held'
  BY DEF Drain, Enters, Goto, records, disk, Registered, Range
<1>6. Deleting'
  BY DEF Drain, Enters, Goto, records, disk, Registered, Range
<1>7. Disposals'
  BY DEF Drain, Enters, Goto, records, disk, Registered, Range
<1>8. Draining'
  <2>1. \A i \in Ids : registry[i] \notin active
    <3>1. Registered \cap active = {}
      BY DEF Drain
    <3>2. 0 \notin active
      BY DEF Records
    <3> QED
      BY <3>1, <3>2, RegisteredAre
  <2>2. closing /\ UNCHANGED <<registry, active, closing, on, closed>>
    BY DEF Drain, Enters, records
  <2>3. pc' = [pc EXCEPT ![t] = "closeAll"]
    BY DEF Drain, Goto
  <2> QED
    BY <2>1, <2>2, <2>3
<1> QED
  BY <1>1, <1>2, <1>3, <1>4, <1>5, <1>6, <1>7, <1>8

(* close_all closes what is listed and disposes the first of it.           *)
LEMMA CloseAllSound ==
    ASSUME TypeOK, Holding, Busy, Sound, NEW t \in Tasks, CloseAll(t)
    PROVE  Sound'
<1> USE TasksAssumption DEF TypeOK, Sound, LockHeld, Numbered, Made, Loading,
        Published,
        Held, Deleting, Disposals, Draining, Operating
<1>1. /\ pc[t] = "closeAll" /\ lock = None /\ closing
      /\ UNCHANGED <<made, id, active, closing, lock, on, want>>
      /\ registry' = [i \in Ids |-> 0] /\ closed' = closed \cup Registered
  BY DEF CloseAll, Enters, CloseRecords
<1>2. Registered \subseteq Records /\ Registered \subseteq Made \ closed
  <2>1. ASSUME NEW r \in Registered
        PROVE  r \in Made \ closed
    <3>1. PICK i \in Ids : registry[i] = r
      BY RegisteredAre
    <3>2. r # 0
      BY DEF Registered
    <3> QED
      BY <3>1, <3>2
  <2> QED
    BY <2>1, RegisteredAre
<1>3. \A r \in Registered : r \notin active
  BY <1>1, RegisteredAre
<1>4. \A i \in Ids : owner'[i] = IF owner[i] \in Registered THEN 0 ELSE owner[i]
  BY DEF CloseAll, CloseRecords
<1>5. \/ pc' = [pc EXCEPT ![t] = "idle"]
      \/ pc' = [pc EXCEPT ![t] = "disposeAll"]
  BY DEF CloseAll, DisposeOneOf, Goto
<1>6. \A i \in Ids : registry[i] = 0 \/ registry[i] \in Registered
  BY RegisteredAre
<1>7. LockHeld' /\ Numbered' /\ Published'
  BY <1>1, <1>2, <1>5
<1>8. Loading'
  BY <1>1, <1>5
<1>9. Held'
  <2>1. \A r \in Made : registry[id[r]] = r => r = 0 \/ r \in Registered
    BY <1>6
  <2> QED
    BY <1>1, <1>5, <2>1
<1>10. Deleting'
  <2>1. \A u \in Tasks : pc'[u] = "dispose" => pc[u] = "dispose"
    BY <1>5
  <2>2. \A u \in Tasks : pc[u] = "dispose" => id[on[u]] \in Ids /\ on[u] \notin Registered
    BY <1>2 DEF Holding
  <2> QED
    BY <1>1, <1>4, <2>1, <2>2
<1>11. Disposals'
  <2>1. ASSUME Registered = {}, todo' = [todo EXCEPT ![t] = {}], disposals' = disposals
        PROVE  Disposals'
    <3>1. closed' = closed
      BY <1>1, <2>1
    <3> QED
      BY <2>1, <3>1
  <2>2. ASSUME NEW r \in Registered, Dispose(r), todo' = [todo EXCEPT ![t] = Registered \ {r}]
        PROVE  Disposals'
    <3>1. disposals'[r] = 1 /\ \A s \in Records \ {r} : disposals'[s] = disposals[s]
      BY <1>2, <2>2 DEF Dispose
    <3>2. \A s \in Registered : s \notin closed /\ disposals[s] = 0
      BY <1>2
    <3>3. /\ todo'[t] = Registered \ {r}
          /\ \A u \in Tasks \ {t} : todo'[u] = todo[u]
      BY <2>2
    <3>4. \A u \in Tasks : \A s \in todo[u] : s \notin Registered /\ s \in closed
      BY <3>2
    <3>5. \A s \in Records : disposals'[s] <= 1 /\ (s \notin closed' => disposals'[s] = 0)
      BY <1>1, <3>1
    <3>6. ASSUME NEW u \in Tasks
          PROVE  todo'[u] \subseteq closed' /\ \A s \in todo'[u] : disposals'[s] = 0
      <4>1. CASE u = t
        BY <1>1, <1>2, <3>1, <3>2, <3>3, <4>1
      <4>2. CASE u # t
        <5>1. todo'[u] = todo[u] /\ r \notin todo[u] /\ todo[u] \subseteq Records
          BY <2>2, <3>3, <3>4, <4>2
        <5>2. \A s \in todo[u] : s \in closed'
          BY <1>1
        <5>3. \A s \in todo[u] : disposals'[s] = 0
          BY <3>1, <5>1
        <5> QED
          BY <5>1, <5>2, <5>3
      <4> QED
        BY <4>1, <4>2
    <3>7. \A u, v \in Tasks : \A s \in todo'[u] : s \in todo'[v] => u = v
      <4>1. \A u, v \in Tasks : \A s \in todo[u] : s \in todo[v] => u = v
        OBVIOUS
      <4>2. \A u \in Tasks \ {t} : \A s \in todo'[u] : s \in todo[u] /\ s \notin todo'[t]
        BY <3>3, <3>4
      <4>3. \A u, v \in Tasks \ {t} : \A s \in todo'[u] : s \in todo'[v] => u = v
        BY <4>1, <4>2
      <4> QED
        BY <4>2, <4>3
    <3> QED
      BY <3>5, <3>6, <3>7
  <2> QED
    BY <2>1, <2>2 DEF CloseAll, DisposeOneOf
<1>12. Draining'
  <2>1. \A u \in Tasks : Operating(u) => on[u] \in active
    BY DEF Busy, InOperation
  <2>2. 0 \notin active
    BY DEF Records
  <2>3. \A u \in Tasks : Operating(u)' => Operating(u)
    BY <1>5
  <2> QED
    BY <1>1, <1>3, <1>5, <2>1, <2>2, <2>3
<1> QED
  BY <1>7, <1>8, <1>9, <1>10, <1>11, <1>12

(* It disposes each of the others once.                                    *)
LEMMA DisposeNextSound ==
    ASSUME TypeOK, Holding, Bounded, Sound, NEW t \in Tasks, DisposeNext(t)
    PROVE  Sound'
<1> USE MaxRecordsAssumption, TasksAssumption DEF TypeOK, Sound, LockHeld, Numbered,
        Made, Loading, Published, Held, Deleting, Disposals, Draining, Operating
<1>1. LockHeld'
  BY DEF DisposeNext, DisposeOneOf, Dispose, Goto, disk
<1>2. Numbered'
  BY DEF DisposeNext, DisposeOneOf, Dispose, Goto, disk
<1>3. Loading'
  BY DEF DisposeNext, DisposeOneOf, Dispose, Goto, disk
<1>4. Published'
  BY DEF DisposeNext, DisposeOneOf, Dispose, Goto, disk
<1>5. Held'
  BY DEF DisposeNext, DisposeOneOf, Dispose, Goto, disk
<1>6. Deleting'
  BY DEF DisposeNext, DisposeOneOf, Dispose, Goto, disk
<1>7. Disposals'
  <2>1. ASSUME todo[t] = {}, todo' = [todo EXCEPT ![t] = {}], disposals' = disposals
        PROVE  Disposals'
    <3>1. closed' = closed
      BY DEF DisposeNext
    <3> QED
      BY <2>1, <3>1
  <2>2. ASSUME NEW r \in todo[t], Dispose(r), todo' = [todo EXCEPT ![t] = todo[t] \ {r}]
        PROVE  Disposals'
    <3>1. disposals'[r] = 1 /\ \A s \in Records \ {r} : disposals'[s] = disposals[s]
      BY <2>2 DEF Dispose
    <3>2. \A u \in Tasks \ {t} : todo'[u] = todo[u] /\ r \notin todo[u]
      BY <2>2
    <3>3. todo'[t] = todo[t] \ {r} /\ closed' = closed
      BY <2>2 DEF DisposeNext
    <3> QED
      BY <2>2, <3>1, <3>2, <3>3
  <2> QED
    BY <2>1, <2>2 DEF DisposeNext, DisposeOneOf
<1>8. Draining'
  BY DEF DisposeNext, DisposeOneOf, Dispose, Goto, disk
<1> QED
  BY <1>1, <1>2, <1>3, <1>4, <1>5, <1>6, <1>7, <1>8

(* An interrupted close_all forgets the rest.                              *)
LEMMA CancelCloseSound ==
    ASSUME TypeOK, Holding, Bounded, Sound, NEW t \in Tasks, CancelClose(t)
    PROVE  Sound'
<1>1. LockHeld'
  BY DEF TypeOK, Sound, LockHeld, CancelClose, Goto, records, disk
<1>2. Numbered'
  BY DEF TypeOK, Sound, Numbered, Made, CancelClose, Goto, records, disk
<1>3. Loading'
  BY DEF TypeOK, Sound, Loading, Made, CancelClose, Goto, records, disk
<1>4. Published'
  BY DEF TypeOK, Sound, Published, Made, CancelClose, Goto, records, disk
<1>5. Held'
  BY DEF TypeOK, Sound, Held, Made, CancelClose, Goto, records, disk
<1>6. Deleting'
  BY DEF TypeOK, Sound, Deleting, CancelClose, Goto, records, disk
<1>7. Disposals'
  BY DEF TypeOK, Sound, Disposals, CancelClose, Goto, records, disk
<1>8. Draining'
  BY DEF TypeOK, Sound, Draining, Operating, CancelClose, Goto, records, disk
<1> QED
  BY <1>1, <1>2, <1>3, <1>4, <1>5, <1>6, <1>7, <1>8 DEF Sound

(* Another process takes what nobody owns,                                 *)
LEMMA RivalTakesSound ==
    ASSUME TypeOK, Holding, Bounded, Sound, NEW i \in Ids, RivalTakes(i)
    PROVE  Sound'
<1>1. LockHeld'
  BY DEF TypeOK, Sound, LockHeld, RivalTakes, records, tasks, Rival
<1>2. Numbered'
  BY DEF TypeOK, Sound, Numbered, Made, RivalTakes, records, tasks, Rival
<1>3. Loading'
  BY DEF TypeOK, Sound, Loading, Made, RivalTakes, records, tasks, Rival
<1>4. Published'
  BY DEF TypeOK, Sound, Published, Made, RivalTakes, records, tasks, Rival
<1>5. Held'
  BY DEF TypeOK, Sound, Held, Made, RivalTakes, records, tasks, Rival
<1>6. Deleting'
  BY MaxRecordsAssumption DEF TypeOK, Sound, Deleting, Numbered, Made, Records,
     RivalTakes, records, tasks, Rival
<1>7. Disposals'
  BY DEF TypeOK, Sound, Disposals, RivalTakes, records, tasks, Rival
<1>8. Draining'
  BY DEF TypeOK, Sound, Draining, Operating, RivalTakes, records, tasks, Rival
<1> QED
  BY <1>1, <1>2, <1>3, <1>4, <1>5, <1>6, <1>7, <1>8 DEF Sound

(* and leaves what it owns.                                                *)
LEMMA RivalLeavesSound ==
    ASSUME TypeOK, Holding, Bounded, Sound, NEW i \in Ids, RivalLeaves(i)
    PROVE  Sound'
<1>1. LockHeld'
  BY DEF TypeOK, Sound, LockHeld, RivalLeaves, records, tasks, Rival
<1>2. Numbered'
  BY DEF TypeOK, Sound, Numbered, Made, RivalLeaves, records, tasks, Rival
<1>3. Loading'
  BY MaxRecordsAssumption DEF TypeOK, Sound, Loading, Made, Records, RivalLeaves,
     records, tasks, Rival
<1>4. Published'
  BY MaxRecordsAssumption DEF TypeOK, Sound, Published, Made, Records, RivalLeaves,
     records, tasks, Rival
<1>5. Held'
  BY DEF TypeOK, Sound, Held, Made, RivalLeaves, records, tasks, Rival
<1>6. Deleting'
  BY MaxRecordsAssumption DEF TypeOK, Sound, Deleting, Numbered, Made, Records,
     RivalLeaves, records, tasks, Rival
<1>7. Disposals'
  BY DEF TypeOK, Sound, Disposals, RivalLeaves, records, tasks, Rival
<1>8. Draining'
  BY DEF TypeOK, Sound, Draining, Operating, RivalLeaves, records, tasks, Rival
<1> QED
  BY <1>1, <1>2, <1>3, <1>4, <1>5, <1>6, <1>7, <1>8 DEF Sound

(* A deletion ends with the lease and the folder of its own record, done,  *)
(* failed or interrupted.                                                  *)
LEMMA DisposedSound ==
    ASSUME TypeOK, Holding, Sound, NEW t \in Tasks,
           Disposed(t) \/ DisposeFails(t) \/ CancelDelete(t)
    PROVE  Sound'
<1> USE TasksAssumption DEF TypeOK, Sound, LockHeld, Numbered, Made, Loading,
        Published,
        Held, Deleting, Disposals, Draining, Operating
<1>1. /\ pc[t] = "dispose" /\ on[t] \in closed /\ on[t] \in Made
      /\ id[on[t]] \in Ids /\ owner[id[on[t]]] = on[t]
  BY DEF Holding, Disposed, DisposeFails, CancelDelete
<1>0. closed \cup {on[t]} = closed
  BY <1>1
<1>2. /\ UNCHANGED <<registry, made, id, active, disposals, closing, lock, want, todo>>
      /\ closed' = closed
  BY <1>0 DEF Disposed, DisposeFails, CancelDelete, CloseRecords
<1>3. pc' = [pc EXCEPT ![t] = "idle"] /\ on' = [on EXCEPT ![t] = 0]
  BY DEF Disposed, DisposeFails, CancelDelete, Return, Goto, Hold
<1>4. \A i \in Ids : owner[i] # on[t] => owner'[i] = owner[i]
                                        /\ (folder'[i] = folder[i] \/ owner[i] = 0)
  BY <1>1 DEF Disposed, DisposeFails, CancelDelete, CloseRecords
<1>5. LockHeld' /\ Numbered'
  BY <1>2, <1>3
<1>6. Loading'
  <2>1. \A u \in Tasks : pc[u] = "load" => want[u] \in Ids /\ on[u] # on[t] /\ on[u] # 0
    BY <1>1 DEF Holding, Records
  <2> QED
    BY <1>2, <1>3, <1>4, <2>1
<1>7. Published'
  BY <1>1, <1>2, <1>4
<1>8. Held'
  BY <1>1, <1>2, <1>3
<1>9. Deleting'
  <2>1. \A u \in Tasks \ {t} : pc[u] = "dispose" => on[u] # on[t] /\ on[u] \in Made
    BY <1>1
  <2> QED
    BY <1>2, <1>3, <1>4, <2>1
<1>10. Disposals'
  BY <1>2
<1>11. Draining'
  BY <1>2, <1>3
<1> QED
  BY <1>5, <1>6, <1>7, <1>8, <1>9, <1>10, <1>11

(* A new instance has a record, the lease of its ID if that was free, and is*)
(* disposed at once otherwise.                                             *)
LEMMA MakeInstanceSound ==
    ASSUME TypeOK, Holding, Bounded, Sound, NEW t \in Tasks, MakeInstance(t)
    PROVE  Sound'
<1> USE TasksAssumption, MaxRecordsAssumption DEF TypeOK, Sound, LockHeld, Numbered,
        Made,
        Loading, Published, Held, Deleting, Disposals, Draining, Operating
<1> DEFINE n == made + 1
<1>1. pc[t] = "makeInstance" /\ lock = t /\ want[t] \in Ids /\ registry[want[t]] = 0
  BY DEF MakeInstance, Holding
<1>2. n \in Records /\ n \notin Made /\ n # 0 /\ n \notin closed /\ disposals[n] = 0
  <2>1. made < MaxRecords
    BY <1>1, RoomToMake
  <2> QED
    BY <2>1 DEF Records
<1>3. /\ made' = n /\ id' = [id EXCEPT ![n] = want[t]] /\ on' = [on EXCEPT ![t] = n]
      /\ UNCHANGED <<registry, active, closing, lock, want, todo>>
  BY DEF MakeInstance, Hold
<1>4. Made' = Made \cup {n}
  BY <1>3
<1>5. \A i \in Ids : owner[i] # 0 => owner'[i] = owner[i]
                                   /\ (folder[i] # "none" => folder'[i] # "none")
  BY <1>1 DEF MakeInstance, OpenSession, disk
<1>6. CASE /\ owner' = [owner EXCEPT ![want[t]] = n]
           /\ OpenSession(want[t])
           /\ Goto(t, "load")
           /\ UNCHANGED <<closed, disposals>>
  <2>1. pc' = [pc EXCEPT ![t] = "load"]
    BY <1>6 DEF Goto
  <2>2. folder'[want[t]] # "none"
    BY <1>1, <1>6 DEF OpenSession
  <2>3. owner'[want[t]] = n /\ closed' = closed /\ disposals' = disposals
    BY <1>1, <1>6
  <2> HIDE DEF n
  <2>4. LockHeld'
    BY <1>1, <1>3, <2>1
  <2>11. Numbered'
    <3>1. \A r \in Made' : r \in Records /\ id'[r] \in Ids
      <4>1. Made \subseteq Records
        BY DEF Records
      <4>2. \A r \in Made : id'[r] = id[r]
        BY <1>2, <1>3, <4>1
      <4>3. id'[n] = want[t]
        BY <1>2, <1>3
      <4> QED
        BY <1>1, <1>2, <1>4, <4>1, <4>2, <4>3
    <3> QED
      BY <1>4, <3>1, <2>3
  <2>5. Loading'
    BY <1>1, <1>2, <1>3, <1>4, <2>1, <2>2, <2>3
  <2>6. Published'
    BY <1>1, <1>2, <1>3, <1>4, <1>5, <2>3
  <2>7. Held'
    BY <1>1, <1>2, <1>3, <1>4, <2>1, <2>3
  <2>8. Deleting'
    BY <1>1, <1>2, <1>3, <1>5, <2>1, <2>3
  <2>9. Disposals'
    BY <1>3, <2>3
  <2>10. Draining'
    BY <1>3, <2>1, <2>3
  <2> QED
    BY <2>4, <2>5, <2>6, <2>7, <2>8, <2>9, <2>10, <2>11
<1>7. CASE /\ closed' = closed \cup {n}
           /\ Dispose(n)
           /\ Goto(t, "undo")
           /\ UNCHANGED disk
  <2>1. pc' = [pc EXCEPT ![t] = "undo"]
    BY <1>7 DEF Goto
  <2>2. closed' = closed \cup {n} /\ UNCHANGED <<owner, folder>>
    BY <1>7 DEF disk
  <2>3. disposals'[n] = 1 /\ \A r \in Records \ {n} : disposals'[r] = disposals[r]
    BY <1>2, <1>7 DEF Dispose
  <2> HIDE DEF n
  <2>4. LockHeld'
    BY <1>1, <1>3, <2>1
  <2>11. Numbered'
    <3>1. \A r \in Made' : r \in Records /\ id'[r] \in Ids
      <4>1. Made \subseteq Records
        BY DEF Records
      <4>2. \A r \in Made : id'[r] = id[r]
        BY <1>2, <1>3, <4>1
      <4>3. id'[n] = want[t]
        BY <1>2, <1>3
      <4> QED
        BY <1>1, <1>2, <1>4, <4>1, <4>2, <4>3
    <3> QED
      BY <1>4, <3>1, <2>2
  <2>5. Loading'
    BY <1>1, <1>2, <1>3, <1>4, <2>1, <2>2
  <2>6. Published'
    BY <1>1, <1>2, <1>3, <1>4, <2>2
  <2>7. Held'
    BY <1>1, <1>2, <1>3, <1>4, <2>1, <2>2
  <2>8. Deleting'
    BY <1>1, <1>2, <1>3, <2>1, <2>2
  <2>9. Disposals'
    BY <1>2, <1>3, <2>2, <2>3
  <2>10. Draining'
    <3>1. \A u \in Tasks : Operating(u) => on[u] \in Made
      BY DEF Holding, Records
    <3> QED
      BY <1>2, <1>3, <2>1, <2>2
  <2> QED
    BY <2>4, <2>5, <2>6, <2>7, <2>8, <2>9, <2>10, <2>11
<1> QED
  BY <1>6, <1>7 DEF MakeInstance

(* Every step keeps the sessions and their tasks so.                        *)
LEMMA StepSound ==
    ASSUME TypeOK, Holding, Bounded, Busy, Sound, [Next]_vars
    PROVE  Sound'
<1>1. ASSUME NEW t \in Tasks, IsQuiet(t)
      PROVE  Sound'
  BY <1>1, QuietSteps, QuietSound
<1>2. ASSUME NEW t \in Tasks, Proceed(t), ~IsQuiet(t)
      PROVE  Sound'
  BY <1>2, CreateSound, MakeInstanceSound, LoadSound, LoadFailsSound, BeginSound,
     SaveSound,
     EndSound, DeleteSound, DisposedSound, ShutSound, DrainSound, CloseAllSound,
     DisposeNextSound DEF Proceed, IsQuiet
<1>3. ASSUME NEW t \in Tasks, Call(t)
      PROVE  IsQuiet(t)
  BY <1>3 DEF Call, IsQuiet
<1>4. ASSUME NEW t \in Tasks, Cancel(t), ~IsQuiet(t)
      PROVE  Sound'
  BY <1>4, CancelLoadSound, DisposedSound, CancelCloseSound DEF Cancel, IsQuiet
<1>5. ASSUME NEW i \in Ids, RivalTakes(i) \/ RivalLeaves(i)
      PROVE  Sound'
  BY <1>5, RivalTakesSound, RivalLeavesSound
<1>6. CASE UNCHANGED vars
  BY <1>6 DEF vars, records, disk, tasks, Sound, LockHeld, Numbered, Made, Loading,
     Published,
     Held, Deleting, Disposals, Draining, Operating
<1> QED
  BY <1>1, <1>2, <1>3, <1>4, <1>5, <1>6 DEF Next

(* The initial state has none of it.                                       *)
LEMMA InitSound == Init => Busy /\ Sound
  BY MaxRecordsAssumption DEF Init, Busy, InOperation, Sound, LockHeld, Numbered,
     Made, Loading,
     Published, Held, Deleting, Disposals, Draining, Operating, Records

(* The sessions and their tasks are so in every state.                     *)
LEMMA SoundInvariant == Spec => [](TypeOK /\ Holding /\ Bounded /\ Busy /\ Sound)
<1>1. Init => TypeOK /\ Holding /\ Bounded /\ Busy /\ Sound
  BY InitTypes, InitSound
<1>2. TypeOK /\ Holding /\ Bounded /\ Busy /\ Sound /\ [Next]_vars
         => (TypeOK /\ Holding /\ Bounded /\ Busy /\ Sound)'
  BY StepTypes, StepHolding, StepBounded, StepBusy, StepSound
<1> QED
  BY <1>1, <1>2, PTL DEF Spec

(* dispose_instance is called at most once for an instance, whatever deletes,*)
(* closes and failing creations overlap, whoever is cancelled, wherever    *)
(* (InMemoryLiveSessionRegistry.delete, close_all and create).             *)
THEOREM DisposedOnceSafe == Spec => []DisposedOnce
<1>1. Sound => DisposedOnce
  BY DEF Sound, Disposals, DisposedOnce
<1> QED
  BY <1>1, SoundInvariant, PTL

(* An operation runs on a listed session with a live instance, and its saves*)
(* go to a folder that is there and that its manager has leased: no deletion,*)
(* close_all, pruning or other process takes it from under the operation.  *)
THEOREM OperationSafeAlways == Spec => []OperationSafe
<1>1. TypeOK /\ Holding /\ Sound => OperationSafe
  <2> SUFFICES ASSUME TypeOK, Holding, Sound, NEW t \in Tasks, Operating(t)
               PROVE  /\ Live(on[t])
                      /\ registry[id[on[t]]] = on[t]
                      /\ owner[id[on[t]]] = on[t]
                      /\ folder[id[on[t]]] # "none"
    BY DEF OperationSafe
  <2>1. on[t] \in Records /\ on[t] # 0 /\ pc[t] # "load"
    BY DEF Holding, Operating, Records
  <2>2. on[t] \in Made /\ on[t] \notin closed /\ registry[id[on[t]]] = on[t]
    BY <2>1 DEF Sound, Held, Draining
  <2>3. id[on[t]] \in Ids /\ disposals[on[t]] = 0
    BY <2>1, <2>2 DEF Sound, Numbered, Disposals
  <2>4. owner[id[on[t]]] = on[t] /\ folder[id[on[t]]] # "none"
    BY <2>1, <2>2, <2>3 DEF Sound, Published
  <2> QED
    BY <2>2, <2>3, <2>4 DEF Live, Made, TypeOK
<1> QED
  BY <1>1, SoundInvariant, PTL

-----------------------------------------------------------------------------

(* What a folder with a saved conversation may be lost by.                  *)
MayGo(i) ==
    \/ owner[i] = Rival
    \/ \E t \in Tasks : pc[t] = "dispose" /\ id[on[t]] = i /\ owner[i] = on[t]
    \/ owner[i] = 0 /\ Window > 0 /\ Cardinality(Listed') >= Window
Lost(i) == folder[i] = "content" /\ folder'[i] # "content"

(* _close_record only takes an empty folder.                               *)
LEMMA CloseKeepsContent ==
    ASSUME NEW R, CloseRecords(R), NEW i \in Ids
    PROVE  ~Lost(i)
  BY DEF CloseRecords, Lost

(* The rolling window takes a session nobody owns, and leaves as many as it *)
(* keeps.                                                                  *)
LEMMA PruningKeepsWindow ==
    ASSUME TypeOK, NEW w \in Ids, OpenSession(w), NEW i \in Ids, Lost(i)
    PROVE  owner[i] = 0 /\ Window > 0 /\ Cardinality(Listed') >= Window
<1>1. folder[w] = "none"
  BY DEF OpenSession, Lost
<1>2. PICK D \in SUBSET Listed :
         /\ D # {} => Window > 0 /\ Cardinality(D) + Window <= Cardinality(Listed) + 1
         /\ folder' = [j \in Ids |-> IF j = w THEN "empty"
                                     ELSE IF j \in D /\ owner[j] = 0 THEN "none"
                                     ELSE folder[j]]
  BY <1>1 DEF OpenSession
<1>3. i \in D /\ owner[i] = 0
  BY <1>1, <1>2 DEF Lost
<1>4. Listed \in SUBSET Ids /\ w \notin Listed
  BY <1>1 DEF Listed
<1>5. (Listed \ D) \cup {w} \subseteq Listed' /\ Listed' \subseteq Ids
  BY <1>2, <1>4 DEF Listed
<1>6. IsFiniteSet(Listed) /\ IsFiniteSet(D) /\ IsFiniteSet(Listed \ D) /\ IsFiniteSet(Listed')
  BY <1>4, <1>5, FS_Subset, IdsAssumption
<1>7. Cardinality(Listed \ D) = Cardinality(Listed) - Cardinality(D)
  <2>1. Listed \cap D = D
    BY <1>2
  <2> QED
    BY <1>6, <2>1, FS_Difference
<1>8. Cardinality((Listed \ D) \cup {w}) = Cardinality(Listed \ D) + 1
  BY <1>4, <1>6, FS_AddElement
<1>9. Cardinality((Listed \ D) \cup {w}) <= Cardinality(Listed')
  BY <1>5, <1>6, FS_Subset
<1>10. /\ Cardinality(Listed) \in Nat /\ Cardinality(D) \in Nat
       /\ Cardinality(Listed \ D) \in Nat /\ Cardinality(Listed') \in Nat
  BY <1>6, FS_CardinalityType
<1> QED
  BY <1>2, <1>3, <1>7, <1>8, <1>9, <1>10, WindowAssumption

(* A saved conversation goes in the ways ContentKept names.                *)
LEMMA StepContent ==
    ASSUME TypeOK, Holding, Sound, [Next]_vars, NEW i \in Ids, Lost(i)
    PROVE  MayGo(i)
<1>1. folder' # folder
  BY DEF Lost
<1>2. ASSUME NEW t \in Tasks, Proceed(t)
      PROVE  MayGo(i)
  <2>1. CASE MakeInstance(t)
    <3>1. want[t] \in Ids
      BY <2>1 DEF MakeInstance, Holding
    <3>2. OpenSession(want[t])
      BY <1>1, <2>1 DEF MakeInstance, disk
    <3> QED
      BY <3>1, <3>2, PruningKeepsWindow DEF MayGo
  <2>2. CASE LoadFails(t)
    BY <2>2 DEF LoadFails, Unload, Lost, TypeOK
  <2>3. CASE Save(t)
    BY <1>1, <2>3 DEF Save, Lost, TypeOK, disk
  <2>4. CASE Disposed(t)
    <3>1. pc[t] = "dispose" /\ owner[id[on[t]]] = on[t]
      BY <2>4 DEF Disposed, Sound, Deleting
    <3>2. CASE folder' = [folder EXCEPT ![id[on[t]]] = "none"]
      <4>1. i = id[on[t]]
        BY <3>2 DEF Lost, TypeOK
      <4> QED
        BY <3>1, <4>1 DEF MayGo
    <3>3. CASE CloseRecords({on[t]})
      BY <3>3, CloseKeepsContent
    <3> QED
      BY <2>4, <3>2, <3>3 DEF Disposed
  <2>5. CASE DisposeFails(t)
    BY <2>5, CloseKeepsContent DEF DisposeFails
  <2>6. CASE CloseAll(t)
    BY <2>6, CloseKeepsContent DEF CloseAll
  <2> QED
    BY <1>1, <1>2, <2>1, <2>2, <2>3, <2>4, <2>5, <2>6 DEF Proceed, Get, Lookup,
       Create,
       CreateRefused, InstanceFails, Load, Undo, Begin, Operate, End, Delete, Shut, Drain,
       DisposeNext, disk
<1>3. ASSUME NEW t \in Tasks, Call(t)
      PROVE  FALSE
  BY <1>1, <1>3 DEF Call, StartCreate, StartGet, StartOperation, StartDelete,
     StartClose, disk
<1>4. ASSUME NEW t \in Tasks, Cancel(t)
      PROVE  MayGo(i)
  <2>1. CASE CancelCreation(t)
    BY <1>1, <2>1 DEF CancelCreation, Unload, Lost, TypeOK, disk
  <2>2. CASE CancelDelete(t)
    BY <2>2, CloseKeepsContent DEF CancelDelete
  <2> QED
    BY <1>1, <1>4, <2>1, <2>2 DEF Cancel, CancelWaiting, CancelOperation, CancelClose,
       disk
<1>5. ASSUME NEW j \in Ids, RivalTakes(j) \/ RivalLeaves(j)
      PROVE  MayGo(i)
  BY <1>1, <1>5 DEF RivalTakes, RivalLeaves, Lost, TypeOK, MayGo
<1>6. CASE UNCHANGED vars
  BY <1>1, <1>6 DEF vars, disk
<1> QED
  BY <1>2, <1>3, <1>4, <1>5, <1>6 DEF Next

(* A saved conversation only goes with the deletion of the session that owns*)
(* it, with a process that owns it, or out of the rolling window while nobody*)
(* does: the action property, for every interruption and failure.          *)
THEOREM ContentKeptAlways == Spec => ContentKept
<1>1. TypeOK /\ Holding /\ Sound /\ [Next]_vars
         => \A i \in Ids : Lost(i) => MayGo(i)
  BY StepContent
<1>2. TypeOK /\ Holding /\ Sound /\ [Next]_vars =>
        [\A i \in Ids : folder[i] = "content" /\ folder'[i] # "content" =>
          \/ owner[i] = Rival
          \/ \E t \in Tasks : pc[t] = "dispose" /\ id[on[t]] = i /\ owner[i] = on[t]
          \/ owner[i] = 0 /\ Window > 0 /\ Cardinality(Listed') >= Window]_vars
  BY <1>1 DEF Lost, MayGo
<1> QED
  BY <1>2, SoundInvariant, PTL DEF Spec, ContentKept

-----------------------------------------------------------------------------
(* No instance is lost on its way: not by a creation cut short while its    *)
(* history is loaded, nor by a close_all that stops with instances left.    *)
NothingLeft == Interruptible \cap {"load", "disposeAll"} = {}

(* A record that is open is listed, or its history is being loaded.        *)
Traced ==
    \A r \in Made \ closed : \/ \E i \in Ids : registry[i] = r
                            \/ \E t \in Tasks : pc[t] = "load" /\ on[t] = r

(* A record that is closed is disposed, or a close_all has it to dispose.   *)
Swept == \A r \in closed : disposals[r] = 0 => \E t \in Tasks : r \in todo[t]

(* Only a close_all that disposes has records left.                        *)
Tidy == \A t \in Tasks : pc[t] # "disposeAll" => todo[t] = {}

Owned == Traced /\ Swept /\ Tidy

(* Once a close_all has emptied the registry it stays empty.               *)
Emptied ==
    /\ \A t \in Tasks : pc[t] = "disposeAll" => \A i \in Ids : registry[i] = 0
    /\ returned => closing /\ \A i \in Ids : registry[i] = 0


(* A quiet step keeps every instance somebody's.                           *)
LEMMA QuietOwned ==
    ASSUME TypeOK, Owned, NEW t \in Tasks, Quiet(t)
    PROVE  Owned'
<1>1. Traced'
  BY DEF TypeOK, Owned, Traced, Made, Quiet, OthersStay, disk
<1>2. Swept'
  BY DEF TypeOK, Owned, Swept, Quiet, OthersStay, disk
<1>3. Tidy'
  BY DEF TypeOK, Owned, Tidy, Quiet, OthersStay, disk
<1> QED
  BY <1>1, <1>2, <1>3 DEF Owned

(* So does the start of a creation,                                        *)
LEMMA CreateOwned ==
    ASSUME TypeOK, Holding, Sound, Owned, NothingLeft, NEW t \in Tasks, Create(t)
    PROVE  Owned'
<1>1. Traced'
  BY DEF TypeOK, Owned, Traced, Made, Create, Enters, Goto, records
<1>2. Swept'
  BY DEF TypeOK, Owned, Swept, Create, Enters, Goto, records
<1>3. Tidy'
  BY DEF TypeOK, Owned, Tidy, Create, Enters, Goto, records
<1> QED
  BY <1>1, <1>2, <1>3 DEF Owned

(* the begin of an operation,                                              *)
LEMMA BeginOwned ==
    ASSUME TypeOK, Holding, Sound, Owned, NothingLeft, NEW t \in Tasks, Begin(t)
    PROVE  Owned'
<1>1. Traced'
  BY DEF TypeOK, Owned, Traced, Made, Begin, Enters, Goto
<1>2. Swept'
  BY DEF TypeOK, Owned, Swept, Begin, Enters, Goto
<1>3. Tidy'
  BY DEF TypeOK, Owned, Tidy, Begin, Enters, Goto
<1> QED
  BY <1>1, <1>2, <1>3 DEF Owned

(* its save,                                                               *)
LEMMA SaveOwned ==
    ASSUME TypeOK, Holding, Sound, Owned, NothingLeft, NEW t \in Tasks, Save(t)
    PROVE  Owned'
<1>1. Traced'
  BY DEF TypeOK, Owned, Traced, Made, Save, Goto, records
<1>2. Swept'
  BY DEF TypeOK, Owned, Swept, Save, Goto, records
<1>3. Tidy'
  BY DEF TypeOK, Owned, Tidy, Save, Goto, records
<1> QED
  BY <1>1, <1>2, <1>3 DEF Owned

(* and its end.                                                            *)
LEMMA EndOwned ==
    ASSUME TypeOK, Holding, Sound, Owned, NothingLeft, NEW t \in Tasks, End(t)
    PROVE  Owned'
<1>1. Traced'
  BY DEF TypeOK, Owned, Traced, Made, End, Enters, Goto
<1>2. Swept'
  BY DEF TypeOK, Owned, Swept, End, Enters, Goto
<1>3. Tidy'
  BY DEF TypeOK, Owned, Tidy, End, Enters, Goto
<1> QED
  BY <1>1, <1>2, <1>3 DEF Owned

(* Closing begins,                                                         *)
LEMMA ShutOwned ==
    ASSUME TypeOK, Holding, Sound, Owned, NothingLeft, NEW t \in Tasks, Shut(t)
    PROVE  Owned'
<1>1. Traced'
  BY DEF TypeOK, Owned, Traced, Made, Shut, Enters, Goto, records
<1>2. Swept'
  BY DEF TypeOK, Owned, Swept, Shut, Enters, Goto, records
<1>3. Tidy'
  BY DEF TypeOK, Owned, Tidy, Shut, Enters, Goto, records
<1> QED
  BY <1>1, <1>2, <1>3 DEF Owned

(* and drains.                                                             *)
LEMMA DrainOwned ==
    ASSUME TypeOK, Holding, Sound, Owned, NothingLeft, NEW t \in Tasks, Drain(t)
    PROVE  Owned'
<1>1. Traced'
  BY DEF TypeOK, Owned, Traced, Made, Drain, Enters, Goto, records
<1>2. Swept'
  BY DEF TypeOK, Owned, Swept, Drain, Enters, Goto, records
<1>3. Tidy'
  BY DEF TypeOK, Owned, Tidy, Drain, Enters, Goto, records
<1> QED
  BY <1>1, <1>2, <1>3 DEF Owned

(* A creation that is interrupted before or after its load has no instance *)
(* that is left.                                                           *)
LEMMA CancelCreationOwned ==
    ASSUME TypeOK, Holding, Sound, Owned, NothingLeft, NEW t \in Tasks, CancelCreation(t)
    PROVE  Owned'
<1>1. Traced'
  BY DEF TypeOK, Owned, Traced, Made, CancelCreation, Suspended, NothingLeft, Goto,
     Return, Hold, records
<1>2. Swept'
  BY DEF TypeOK, Owned, Swept, CancelCreation, Suspended, NothingLeft, Goto, Return,
     Hold, records
<1>3. Tidy'
  BY DEF TypeOK, Owned, Tidy, CancelCreation, Suspended, NothingLeft, Goto, Return,
     Hold, records
<1> QED
  BY <1>1, <1>2, <1>3 DEF Owned

(* A close_all is not interrupted while it disposes.                       *)
LEMMA CancelCloseOwned ==
    ASSUME TypeOK, Holding, Sound, Owned, NothingLeft, NEW t \in Tasks, CancelClose(t)
    PROVE  Owned'
<1>1. Traced'
  BY DEF TypeOK, Owned, Traced, Made, CancelClose, Suspended, NothingLeft
<1>2. Swept'
  BY DEF TypeOK, Owned, Swept, CancelClose, Suspended, NothingLeft
<1>3. Tidy'
  BY DEF TypeOK, Owned, Tidy, CancelClose, Suspended, NothingLeft
<1> QED
  BY <1>1, <1>2, <1>3 DEF Owned

(* A record that was loaded is listed.                                     *)
LEMMA LoadOwned ==
    ASSUME TypeOK, Holding, Sound, Owned, NothingLeft, NEW t \in Tasks, Load(t)
    PROVE  Owned'
<1>1. Traced'
  BY DEF TypeOK, Owned, Traced, Made, Load, Goto, Holding, Sound, Loading, LockHeld
<1>2. Swept'
  BY DEF TypeOK, Owned, Swept, Load, Goto, Holding, Sound, Loading, LockHeld
<1>3. Tidy'
  BY DEF TypeOK, Owned, Tidy, Load, Goto, Holding, Sound, Loading, LockHeld
<1> QED
  BY <1>1, <1>2, <1>3 DEF Owned

(* One that was not is closed and disposed.                                *)
LEMMA LoadFailsOwned ==
    ASSUME TypeOK, Holding, Sound, Owned, NothingLeft, NEW t \in Tasks, LoadFails(t)
    PROVE  Owned'
<1>1. Traced'
  BY DEF TypeOK, Owned, Traced, Made, LoadFails, Goto, Dispose, Holding, Sound,
     Disposals
<1>2. Swept'
  BY DEF TypeOK, Owned, Swept, LoadFails, Goto, Dispose, Holding, Sound, Disposals
<1>3. Tidy'
  BY DEF TypeOK, Owned, Tidy, LoadFails, Goto, Dispose, Holding, Sound, Disposals
<1> QED
  BY <1>1, <1>2, <1>3 DEF Owned

(* A deletion that ends leaves a record it disposed before.                *)
LEMMA DisposedOwned ==
    ASSUME TypeOK, Holding, Sound, Owned, NothingLeft, NEW t \in Tasks,
           Disposed(t) \/ DisposeFails(t) \/ CancelDelete(t)
    PROVE  Owned'
<1>1. Traced'
  BY DEF TypeOK, Owned, Traced, Made, Disposed, DisposeFails, CancelDelete,
     CloseRecords, Goto, Hold, Return, Holding,
     Sound, Deleting
<1>2. Swept'
  BY DEF TypeOK, Owned, Swept, Disposed, DisposeFails, CancelDelete, CloseRecords,
     Goto, Hold, Return, Holding,
     Sound, Deleting
<1>3. Tidy'
  BY DEF TypeOK, Owned, Tidy, Disposed, DisposeFails, CancelDelete, CloseRecords,
     Goto, Hold, Return, Holding,
     Sound, Deleting
<1> QED
  BY <1>1, <1>2, <1>3 DEF Owned

(* What close_all disposes it need not have any more.                      *)
LEMMA DisposeNextOwned ==
    ASSUME TypeOK, Holding, Sound, Owned, NothingLeft, NEW t \in Tasks, DisposeNext(t)
    PROVE  Owned'
<1>1. Traced'
  BY DEF TypeOK, Owned, Traced, Made, DisposeNext, Goto, DisposeOneOf, Dispose
<1>2. Swept'
  BY DEF TypeOK, Owned, Swept, DisposeNext, Goto, DisposeOneOf, Dispose
<1>3. Tidy'
  BY DEF TypeOK, Owned, Tidy, DisposeNext, Goto, DisposeOneOf, Dispose
<1> QED
  BY <1>1, <1>2, <1>3 DEF Owned

(* Other processes touch the disk only.                                    *)
LEMMA RivalOwned ==
    ASSUME TypeOK, Holding, Sound, Owned, NothingLeft, NEW i \in Ids,
           RivalTakes(i) \/ RivalLeaves(i)
    PROVE  Owned'
<1>1. Traced'
  BY DEF TypeOK, Owned, Traced, Made, RivalTakes, RivalLeaves, records, tasks
<1>2. Swept'
  BY DEF TypeOK, Owned, Swept, RivalTakes, RivalLeaves, records, tasks
<1>3. Tidy'
  BY DEF TypeOK, Owned, Tidy, RivalTakes, RivalLeaves, records, tasks
<1> QED
  BY <1>1, <1>2, <1>3 DEF Owned

(* A new record is being loaded, or is closed and disposed.                *)
LEMMA MakeInstanceOwned ==
    ASSUME TypeOK, Holding, Sound, Owned, NothingLeft, Bounded,
           NEW t \in Tasks, MakeInstance(t)
    PROVE  Owned'
<1> USE DEF TypeOK, Owned, Traced, Swept, Tidy, Made
<1> DEFINE n == made + 1
<1>a. n \in Records /\ n \notin closed /\ pc[t] = "makeInstance"
  <2>1. pc[t] = "makeInstance" /\ made < MaxRecords
    BY RoomToMake DEF MakeInstance
  <2> QED
    BY <2>1, MaxRecordsAssumption DEF Records, Sound, Numbered
<1>b. /\ made' = n /\ on' = [on EXCEPT ![t] = n] /\ UNCHANGED <<registry, todo>>
      /\ \/ pc' = [pc EXCEPT ![t] = "load"] /\ UNCHANGED <<closed, disposals>>
         \/ /\ pc' = [pc EXCEPT ![t] = "undo"] /\ closed' = closed \cup {n}
            /\ disposals' = [disposals EXCEPT ![n] = @ + 1]
  BY DEF MakeInstance, Goto, Hold, Dispose
<1>c. Made' = Made \cup {n}
  <2>1. made \in Nat /\ made' = made + 1
    BY <1>b, MaxRecordsAssumption
  <2>2. \A r : r \in 1..(made + 1) <=> r \in 1..made \/ r = made + 1
    BY <2>1
  <2> QED
    BY <2>1, <2>2
<1>1. Traced'
  <2>1. ASSUME NEW r \in Made \ closed
        PROVE  \/ \E i \in Ids : registry'[i] = r
               \/ \E u \in Tasks : pc'[u] = "load" /\ on'[u] = r
    BY <1>a, <1>b
  <2>2. n \notin closed' => pc'[t] = "load" /\ on'[t] = n
    BY <1>b
  <2>3. closed \subseteq closed'
    BY <1>b
  <2> QED
    BY <1>c, <2>1, <2>2, <2>3
<1>2. Swept'
  <2>1. disposals'[n] # 0 \/ n \notin closed'
    BY <1>a, <1>b
  <2>2. \A r \in Records \ {n} : disposals'[r] = disposals[r]
    BY <1>a, <1>b
  <2> QED
    BY <1>b, <2>1, <2>2
<1>3. Tidy'
  BY <1>a, <1>b
<1> QED
  BY <1>1, <1>2, <1>3

(* A deletion closes and disposes what it takes off the list.              *)
LEMMA DeleteOwned ==
    ASSUME TypeOK, Holding, Sound, Owned, NEW t \in Tasks, Delete(t)
    PROVE  Owned'
<1> USE DEF TypeOK, Owned, Traced, Swept, Tidy, Made
<1> DEFINE r == registry[want[t]]
<1>1. pc[t] = "delete" /\ want[t] \in Ids
  BY DEF Delete, Enters, Holding
<1>2. CASE ~Deletable(r)
  BY <1>1, <1>2 DEF Delete, Return, Goto, Hold
<1>3. CASE Deletable(r)
  <2>1. /\ registry' = [registry EXCEPT ![want[t]] = 0] /\ closed' = closed \cup {r}
        /\ disposals' = [disposals EXCEPT ![r] = @ + 1]
        /\ pc' = [pc EXCEPT ![t] = "dispose"] /\ on' = [on EXCEPT ![t] = r]
        /\ UNCHANGED <<made, todo>>
    BY <1>3 DEF Delete, Dispose, Goto, Hold
  <2>2. r \in Records
    BY <1>1, <1>3 DEF Deletable, Records
  <2> HIDE DEF r
  <2>3. disposals'[r] # 0 /\ \A s \in Records \ {r} : disposals'[s] = disposals[s]
    BY <2>1, <2>2
  <2>4. \A i \in Ids : registry'[i] = registry[i] \/ registry[i] = r
    BY <2>1 DEF r
  <2>5. \A u \in Tasks : pc[u] = "load" => pc'[u] = "load" /\ on'[u] = on[u]
    BY <1>1, <2>1
  <2>6. Traced'
    BY <2>1, <2>4, <2>5
  <2>7. Swept'
    BY <2>1, <2>3
  <2>8. Tidy'
    BY <1>1, <2>1
  <2> QED
    BY <2>6, <2>7, <2>8
<1> QED
  BY <1>2, <1>3

(* close_all takes over all that is listed.                                *)
LEMMA CloseAllOwned ==
    ASSUME TypeOK, Sound, Owned, NEW t \in Tasks, CloseAll(t)
    PROVE  Owned'
<1> USE DEF TypeOK, Owned, Traced, Swept, Tidy, Made
<1>1. /\ pc[t] = "closeAll" /\ lock = None /\ todo[t] = {}
      /\ UNCHANGED <<made, on>> /\ closed' = closed \cup Registered
  BY DEF CloseAll, Enters, CloseRecords
<1>2. Traced'
  <2>1. \A u \in Tasks : pc[u] # "load"
    BY <1>1, TasksAssumption DEF Sound, LockHeld
  <2>2. \A r \in Made \ closed : r \in Registered
    BY <2>1, RegisteredAre
  <2> QED
    BY <1>1, <2>2
<1>3. CASE Registered = {} /\ pc' = [pc EXCEPT ![t] = "idle"] /\ UNCHANGED disposals
           /\ todo' = [todo EXCEPT ![t] = {}]
  <2>1. todo' = todo /\ closed' = closed
    BY <1>1, <1>3
  <2> QED
    BY <1>2, <1>3, <2>1
<1>4. ASSUME NEW r \in Registered, Dispose(r), todo' = [todo EXCEPT ![t] = Registered \ {r}],
             pc' = [pc EXCEPT ![t] = "disposeAll"]
      PROVE  Owned'
  <2>1. /\ r \in Records /\ disposals'[r] # 0
        /\ \A s \in Records \ {r} : disposals'[s] = disposals[s]
    BY <1>4, RegisteredAre DEF Dispose
  <2>2. todo'[t] = Registered \ {r} /\ \A u \in Tasks \ {t} : todo'[u] = todo[u]
    BY <1>4
  <2>3. Swept'
    <3>1. ASSUME NEW s \in closed', disposals'[s] = 0
          PROVE  \E u \in Tasks : s \in todo'[u]
      <4>1. s # r
        BY <2>1, <3>1
      <4>2. CASE s \in Registered
        BY <2>2, <4>1, <4>2
      <4>3. CASE s \notin Registered
        <5>1. s \in closed /\ disposals[s] = 0
          BY <1>1, <2>1, <3>1, <4>1, <4>3
        <5>2. PICK u \in Tasks : s \in todo[u]
          BY <5>1
        <5> QED
          BY <1>1, <2>2, <5>2
      <4> QED
        BY <4>2, <4>3
    <3> QED
      BY <3>1
  <2>4. Tidy'
    BY <1>4, <2>2
  <2> QED
    BY <1>2, <2>3, <2>4
<1> QED
  BY <1>3, <1>4 DEF CloseAll, DisposeOneOf, Goto

(* Every step keeps the instances somebody's.                              *)
LEMMA StepOwned ==
    ASSUME TypeOK, Holding, Bounded, Sound, Owned, NothingLeft, [Next]_vars
    PROVE  Owned'
<1>1. ASSUME NEW t \in Tasks, IsQuiet(t)
      PROVE  Owned'
  BY <1>1, QuietSteps, QuietOwned
<1>2. ASSUME NEW t \in Tasks, Proceed(t), ~IsQuiet(t)
      PROVE  Owned'
  BY <1>2, CreateOwned, MakeInstanceOwned, LoadOwned, LoadFailsOwned, BeginOwned,
     SaveOwned,
     EndOwned, DeleteOwned, DisposedOwned, ShutOwned, DrainOwned, CloseAllOwned,
     DisposeNextOwned DEF Proceed, IsQuiet
<1>3. ASSUME NEW t \in Tasks, Call(t)
      PROVE  IsQuiet(t)
  BY <1>3 DEF Call, IsQuiet
<1>4. ASSUME NEW t \in Tasks, Cancel(t), ~IsQuiet(t)
      PROVE  Owned'
  BY <1>4, CancelCreationOwned, DisposedOwned, CancelCloseOwned DEF Cancel, IsQuiet
<1>5. ASSUME NEW i \in Ids, RivalTakes(i) \/ RivalLeaves(i)
      PROVE  Owned'
  BY <1>5, RivalOwned
<1>6. CASE UNCHANGED vars
  BY <1>6 DEF vars, records, tasks, Owned, Traced, Swept, Tidy, Made
<1> QED
  BY <1>1, <1>2, <1>3, <1>4, <1>5, <1>6 DEF Next

(* A step of a task changes what is listed only by publishing a session,    *)
(* deleting one or closing all; only a close_all returns.                  *)
LEMMA StepEmptied ==
    ASSUME TypeOK, Holding, Sound, Emptied, [Next]_vars
    PROVE  Emptied'
<1> USE DEF TypeOK, Emptied, Sound, LockHeld, Draining
<1>1. ASSUME NEW t \in Tasks, IsQuiet(t)
      PROVE  Emptied'
  <2>1. Quiet(t) /\ returned' = returned
    BY <1>1, QuietSteps DEF IsQuiet, Get, Lookup, CreateRefused, InstanceFails, Undo,
       Operate,
       StartGet, StartCreate, StartOperation, StartDelete, StartClose, CancelWaiting,
       CancelOperation
  <2> QED
    BY <2>1 DEF Quiet, OthersStay
<1>2. ASSUME NEW t \in Tasks, Proceed(t), ~IsQuiet(t)
      PROVE  Emptied'
  <2>1. CASE Create(t)
    BY <2>1 DEF Create, Enters, Goto, records
  <2>2. CASE MakeInstance(t)
    BY <2>2 DEF MakeInstance, Goto
  <2>3. CASE Load(t)
    BY <2>3, TasksAssumption DEF Load, Goto
  <2>4. CASE LoadFails(t)
    BY <2>4 DEF LoadFails, Goto
  <2>5. CASE Begin(t)
    BY <2>5 DEF Begin, Goto
  <2>6. CASE Save(t)
    BY <2>6 DEF Save, Goto, records
  <2>7. CASE End(t)
    BY <2>7 DEF End, Goto
  <2>8. CASE Delete(t)
    BY <2>8 DEF Delete, Return, Goto
  <2>9. CASE Disposed(t) \/ DisposeFails(t)
    BY <2>9 DEF Disposed, DisposeFails, Return, Goto
  <2>10. CASE Shut(t)
    BY <2>10 DEF Shut, Goto, records
  <2>11. CASE Drain(t)
    BY <2>11 DEF Drain, Goto, records
  <2>12. CASE CloseAll(t)
    BY <2>12 DEF CloseAll, Enters, DisposeOneOf, Goto
  <2>13. CASE DisposeNext(t)
    BY <2>13 DEF DisposeNext, DisposeOneOf, Goto
  <2> QED
    BY <1>2, <2>1, <2>2, <2>3, <2>4, <2>5, <2>6, <2>7, <2>8, <2>9, <2>10, <2>11,
       <2>12,
       <2>13 DEF Proceed, IsQuiet
<1>3. ASSUME NEW t \in Tasks, Call(t)
      PROVE  IsQuiet(t)
  BY <1>3 DEF Call, IsQuiet
<1>4. ASSUME NEW t \in Tasks, Cancel(t), ~IsQuiet(t)
      PROVE  Emptied'
  BY <1>4 DEF Cancel, IsQuiet, CancelCreation, CancelDelete, CancelClose, Return,
     Goto, records
<1>5. ASSUME NEW i \in Ids, RivalTakes(i) \/ RivalLeaves(i)
      PROVE  Emptied'
  BY <1>5 DEF RivalTakes, RivalLeaves, records, tasks
<1>6. CASE UNCHANGED vars
  BY <1>6 DEF vars, records, tasks
<1> QED
  BY <1>1, <1>2, <1>3, <1>4, <1>5, <1>6 DEF Next

(* Nothing is lost in any state.                                           *)
LEMMA OwnedInvariant ==
    ASSUME NothingLeft
    PROVE  Spec => [](TypeOK /\ Sound /\ Owned /\ Emptied)
<1>1. Init => Owned /\ Emptied
  BY MaxRecordsAssumption DEF Init, Owned, Traced, Swept, Tidy, Made, Emptied
<1>2. TypeOK /\ Holding /\ Bounded /\ Sound /\ Owned /\ Emptied /\ [Next]_vars
         => (Owned /\ Emptied)'
  BY NothingLeft, StepOwned, StepEmptied
<1> QED
  BY <1>1, <1>2, SoundInvariant, PTL DEF Spec

(* Where a creation is not interrupted while it loads and a close_all not while*)
(* it disposes, an instance that is not disposed is listed, being loaded, or*)
(* about to be disposed (HarnessSessions_cancelled_creation shows why).    *)
THEOREM AccountedAlways == ASSUME NothingLeft PROVE Spec => []Accounted
<1>1. TypeOK /\ Sound /\ Owned => Accounted
  <2> SUFFICES ASSUME TypeOK, Sound, Owned, NEW r \in Records, Live(r)
               PROVE  \/ r \in Registered
                      \/ \E t \in Tasks : lock = t /\ pc[t] = "load" /\ on[t] = r
                      \/ \E t \in Tasks : r \in todo[t]
    BY DEF Accounted
  <2>1. r \in Made
    BY DEF Made, Records, Live, TypeOK
  <2>2. CASE r \in closed
    BY <2>2 DEF Owned, Swept, Live
  <2>3. CASE r \notin closed
    <3>1. r # 0
      BY DEF Records
    <3> QED
      BY <2>1, <2>3, <3>1, RegisteredAre DEF Owned, Traced, Sound, LockHeld
  <2> QED
    BY <2>2, <2>3
<1> QED
  BY <1>1, OwnedInvariant, PTL

(* Under the same condition, when close_all has returned no session is listed*)
(* or being created and every instance is disposed, or another close_all has it.*)
THEOREM ClosedForGoodAlways == ASSUME NothingLeft PROVE Spec => []ClosedForGood
<1>1. TypeOK /\ Sound /\ Owned /\ Emptied => ClosedForGood
  <2> SUFFICES ASSUME TypeOK, Sound, Owned, Emptied, returned
               PROVE  /\ Registered = {}
                      /\ lock = None
                      /\ \A r \in Records : Live(r) => \E t \in Tasks : r \in todo[t]
    BY DEF ClosedForGood
  <2>1. lock = None
    BY DEF Emptied, Sound, LockHeld
  <2>2. Registered = {}
    BY RegisteredAre DEF Emptied, Registered
  <2>3. ASSUME NEW r \in Records, Live(r)
        PROVE  \E t \in Tasks : r \in todo[t]
    <3>1. r \in Made /\ r # 0
      BY <2>3 DEF Made, Records, Live, TypeOK
    <3>2. r \in closed
      BY <2>1, <3>1, TasksAssumption DEF Owned, Traced, Emptied, Sound, LockHeld
    <3> QED
      BY <2>3, <3>2 DEF Owned, Swept, Live
  <2> QED
    BY <2>1, <2>2, <2>3
<1> QED
  BY <1>1, OwnedInvariant, PTL

==============================================================================
