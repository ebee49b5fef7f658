------------------------ MODULE EngineReloadProofs ------------------------
(***************************************************************************)
(* Proofs about EngineReload for any devices, points, tasks and edits.     *)
(***************************************************************************)
EXTENDS EngineReload, FiniteSetTheorems, TLAPS

(* Type correctness needs the lock to be held wherever it is released. *)
LockHeld == \A r \in Reloads : Rebuilding(r) => Holds(r)

TypeInv == TypeOK /\ LockHeld

(* The records of idle tasks are well typed.                               *)
LEMMA IdleRecords ==
  /\ IdleReload \in ReloadTask
  /\ IdleWrite \in WriteCall
  /\ IdleTick \in TickRun
<1>1. (CHOOSE p \in Points : TRUE) \in Points
  BY PointsAssumption
<1>2. QED
  BY <1>1 DEF IdleReload, IdleWrite, IdleTick, ReloadTask, WriteCall, TickRun, ReloadPC

(* A reload task is replaced by another. *)
LEMMA ReloadStepType ==
  ASSUME TypeOK, NEW r \in Reloads, NEW task \in ReloadTask,
         reload' = [reload EXCEPT ![r] = task]
  PROVE  reload' \in [Reloads -> ReloadTask]
BY DEF TypeOK

(* What a teardown leaves. *)
LEMMA TeardownType ==
  ASSUME TypeOK, NEW r \in Reloads, NEW owed \in SUBSET Points, Teardown(r, owed)
  PROVE  /\ reload' \in [Reloads -> ReloadTask]
         /\ objects' \in [Points -> {"none", "current", "stale"}]
         /\ present' \in [Points -> {"none", "seed", "live"}]
         /\ prevValues' \subseteq Owned
         /\ write' \in [Writes -> WriteCall]
         /\ straddled' \in BOOLEAN
<1>1. reload' \in [Reloads -> ReloadTask]
  <2>1. reload' = [reload EXCEPT ![r] =
                     [@ EXCEPT !.pc = IF up THEN "closing" ELSE "starting", !.owed = owed]]
    BY DEF Teardown
  <2>2. reload \in [Reloads -> ReloadTask]
    BY DEF TypeOK
  <2>3. QED
    BY <2>1, <2>2 DEF ReloadTask, ReloadPC
<1>2. CASE up
  <2>1. /\ objects' = ClearedTable
        /\ present' = [p \in Points |-> "none"]
        /\ prevValues' = {}
        /\ write' = [w \in Writes |->
             IF write[w].object = "current" THEN [write[w] EXCEPT !.object = "stale"]
                                            ELSE write[w]]
    BY <1>2 DEF Teardown
  <2>2. straddled' \in BOOLEAN
    BY <1>2, Zenon DEF Teardown, TypeOK
  <2>3. write \in [Writes -> WriteCall]
    BY DEF TypeOK
  <2>4. QED
    BY <1>1, <2>1, <2>2, <2>3 DEF ClearedTable, WriteCall
<1>3. CASE ~up
  <2>1. UNCHANGED <<objects, present, prevValues, write, straddled>>
    BY <1>3 DEF Teardown
  <2>2. QED
    BY <1>1, <2>1 DEF TypeOK
<1>4. QED BY <1>2, <1>3

(* What registering objects leaves. *)
LEMMA RegisterType ==
  ASSUME TypeOK, NEW rows \in SUBSET Points, NEW rawRows, Register(rows, rawRows)
  PROVE  /\ objects' \in [Points -> {"none", "current", "stale"}]
         /\ present' \in [Points -> {"none", "seed", "live"}]
BY DEF Register, SeedValue, TypeOK

(* Types, and the lock: the reload that tears down or rebuilds the application is
   the task at the head of the lock's queue. *)
THEOREM TypeInvariant == Spec => []TypeInv
<1>1. Init => TypeInv
  <2> SUFFICES ASSUME Init PROVE TypeInv
    OBVIOUS
  <2>1. up \in BOOLEAN /\ contended \in BOOLEAN /\ straddled \in BOOLEAN
    BY DEF Init
  <2>2. lock \in Seq(Reloads \cup Points)
    BY DEF Init
  <2>3. TypeOK
    BY <2>1, <2>2, IdleRecords, PointsAssumption, EditsAssumption DEF Init, TypeOK
  <2>4. LockHeld
    BY DEF Init, LockHeld, Rebuilding, IdleReload
  <2>5. QED BY <2>3, <2>4 DEF TypeInv
<1>2. TypeInv /\ [Next]_vars => TypeInv'
  <2> SUFFICES ASSUME TypeInv, [Next]_vars PROVE TypeInv'
    OBVIOUS
  <2> USE DEF TypeInv
  <2>1. ASSUME NEW p \in Points, CreateRow(p) PROVE TypeInv'
    BY <2>1 DEF CreateRow, TypeOK, LockHeld, Rebuilding, Holds
  <2>2. ASSUME NEW r \in Reloads, AskReload(r), db' \subseteq Points, raw' \subseteq Owned,
               enabled' \subseteq Devices
        PROVE  TypeInv'
    <3>1. edits' \in 0..MaxEdits
      BY <2>2, EditsAssumption DEF AskReload, TypeOK
    <3>2. reload' \in [Reloads -> ReloadTask]
      <4> DEFINE task == [reload[r] EXCEPT !.pc = "started"]
      <4>1. task \in ReloadTask
        BY DEF TypeOK, ReloadTask, ReloadPC
      <4>2. reload' = [reload EXCEPT ![r] = task]
        BY <2>2 DEF AskReload
      <4>3. QED BY <4>1, <4>2, ReloadStepType
    <3>3. contended' \in BOOLEAN
      BY <2>2, Zenon DEF AskReload, TypeOK
    <3>4. TypeOK'
      BY <2>2, <3>1, <3>2, <3>3 DEF AskReload, TypeOK
    <3>5. LockHeld'
      BY <2>2 DEF AskReload, TypeOK, LockHeld, Rebuilding, Holds, ReloadTask
    <3>6. QED BY <3>4, <3>5
  <2>3. ASSUME NEW r \in Reloads, StartReload(r) PROVE TypeInv'
    <3> DEFINE owed == raw \cap prevValues
    <3>1. owed \in SUBSET Points
      BY PointsAssumption DEF TypeOK
    <3>2. lock' = Append(lock, r) /\ lock' \in Seq(Reloads \cup Points)
      BY <2>3 DEF StartReload, TypeOK
    <3>3. preserved' \subseteq Owned /\ UNCHANGED <<dbVars, up, hot, tick>>
      BY <2>3 DEF StartReload, TypeOK
    <3>4. contended' \in BOOLEAN
      BY <2>3, Zenon DEF StartReload, TypeOK
    <3>5. CASE LockFree
      <4>1. Teardown(r, owed)
        BY <2>3, <3>5 DEF StartReload
      <4>2. TypeOK'
        BY <4>1, <3>1, <3>2, <3>3, <3>4, TeardownType DEF TypeOK, dbVars
      <4>3. \A s \in Reloads : ~Rebuilding(s)
        BY <3>5 DEF LockFree, LockHeld, Holds
      <4>4. lock' # <<>> /\ Head(lock') = r
        BY <3>2, <3>5 DEF LockFree
      <4>5. \A s \in Reloads \ {r} : ~Rebuilding(s)'
        BY <4>1, <4>3 DEF Teardown, Rebuilding, TypeOK
      <4>6. QED
        BY <4>2, <4>4, <4>5 DEF LockHeld, Holds
    <3>6. CASE ~LockFree
      <4>1. /\ reload' = [reload EXCEPT ![r] = [@ EXCEPT !.pc = "waiting", !.owed = owed]]
            /\ UNCHANGED <<objects, present, prevValues, write, straddled>>
        BY <2>3, <3>6 DEF StartReload
      <4>2. TypeOK'
        <5>1. reload' \in [Reloads -> ReloadTask]
          <6> DEFINE task == [reload[r] EXCEPT !.pc = "waiting", !.owed = owed]
          <6>1. task \in ReloadTask
            BY <3>1 DEF TypeOK, ReloadTask, ReloadPC
          <6>2. QED BY <4>1, <6>1, ReloadStepType
        <5>2. QED
          BY <4>1, <5>1, <3>2, <3>3, <3>4 DEF TypeOK, dbVars
      <4>3. lock' # <<>> /\ Head(lock') = Head(lock)
        BY <3>2, <3>6 DEF LockFree, TypeOK
      <4>4. QED
        BY <4>1, <4>2, <4>3 DEF LockHeld, Holds, Rebuilding, TypeOK
    <3>7. QED BY <3>5, <3>6
  <2>4. ASSUME NEW r \in Reloads, AcquireReload(r) PROVE TypeInv'
    <3>1. reload[r].owed \in SUBSET Points /\ Teardown(r, reload[r].owed) /\ Holds(r)
      BY <2>4 DEF AcquireReload, TypeOK, ReloadTask
    <3>2. UNCHANGED <<dbVars, up, preserved, lock, hot, tick, contended>>
      BY <2>4 DEF AcquireReload
    <3>3. TypeOK'
      BY <3>1, <3>2, TeardownType DEF TypeOK, dbVars
    <3>4. \A s \in Reloads \ {r} : Rebuilding(s)' => Rebuilding(s)
      BY <3>1 DEF Teardown, Rebuilding, TypeOK
    <3>5. QED
      BY <3>1, <3>2, <3>3, <3>4 DEF LockHeld, Holds
  <2>5. ASSUME NEW r \in Reloads, CloseApp(r) PROVE TypeInv'
    <3>1. reload' \in [Reloads -> ReloadTask]
      BY <2>5 DEF CloseApp, TypeOK, ReloadTask, ReloadPC
    <3>2. TypeOK'
      BY <2>5, <3>1 DEF CloseApp, TypeOK, dbVars
    <3>3. LockHeld'
      BY <2>5 DEF CloseApp, TypeOK, LockHeld, Rebuilding, Holds, ReloadTask
    <3>4. QED BY <3>2, <3>3
  <2>6. ASSUME NEW r \in Reloads, Finish(r), Rebuilding(r),
               UNCHANGED <<dbVars, objects, present, prevValues, hot, write, tick,
                           contended, straddled>>,
               up' \in BOOLEAN
        PROVE  TypeInv'
    <3>1. Holds(r)
      BY <2>6 DEF LockHeld
    <3>2. lock' \in Seq(Reloads \cup Points)
      BY <2>6, <3>1 DEF Finish, Holds, TypeOK
    <3>3. TypeOK'
      BY <2>6, <3>2, IdleRecords DEF Finish, TypeOK, dbVars
    <3>4. \A s \in Reloads : ~Rebuilding(s)'
      <4> TAKE s \in Reloads
      <4>1. CASE s = r
        BY <4>1, <2>6 DEF Finish, Rebuilding, IdleReload, TypeOK
      <4>2. CASE s # r
        <5>1. ~Rebuilding(s)
          BY <4>2, <3>1 DEF LockHeld, Holds
        <5>2. QED
          BY <5>1, <4>2, <2>6 DEF Finish, Rebuilding, TypeOK
      <4>3. QED BY <4>1, <4>2
    <3>5. QED
      BY <3>3, <3>4 DEF LockHeld
  <2>7. ASSUME NEW r \in Reloads, MakeApp(r) PROVE TypeInv'
    <3>1. Rebuilding(r)
      BY <2>7 DEF MakeApp, Rebuilding
    <3>2. CASE enabled = {}
      BY <2>6, <2>7, <3>1, <3>2 DEF MakeApp
    <3>3. CASE enabled # {}
      <4>1. reload' \in [Reloads -> ReloadTask]
        <5> DEFINE task == [reload[r] EXCEPT !.pc = "building", !.todo = enabled]
        <5>1. task \in ReloadTask
          BY DEF TypeOK, ReloadTask, ReloadPC
        <5>2. reload' = [reload EXCEPT ![r] = task]
          BY <2>7, <3>3 DEF MakeApp
        <5>3. QED BY <5>1, <5>2, ReloadStepType
      <4>2. TypeOK'
        BY <2>7, <3>3, <4>1 DEF MakeApp, TypeOK, dbVars
      <4>3. LockHeld'
        BY <2>7, <3>1, <3>3 DEF MakeApp, TypeOK, LockHeld, Rebuilding, Holds
      <4>4. QED BY <4>2, <4>3
    <3>4. QED BY <3>2, <3>3
  <2>8. ASSUME NEW r \in Reloads, NEW d \in Devices, ReadRows(r, d) PROVE TypeInv'
    <3>1. RowsOf(d) \subseteq Points
      BY DEF RowsOf, TypeOK
    <3>2. reload' \in [Reloads -> ReloadTask]
      <4> DEFINE task == [reload[r] EXCEPT !.pc = "creating", !.todo = reload[r].todo \ {d},
                                           !.rows = RowsOf(d), !.raw = RowsOf(d) \cap raw]
      <4>1. task \in ReloadTask
        BY <3>1 DEF TypeOK, ReloadTask, ReloadPC
      <4>2. reload' = [reload EXCEPT ![r] = task]
        BY <2>8 DEF ReadRows
      <4>3. QED BY <4>1, <4>2, ReloadStepType
    <3>3. TypeOK'
      BY <2>8, <3>2 DEF ReadRows, TypeOK, dbVars
    <3>4. LockHeld'
      BY <2>8 DEF ReadRows, TypeOK, LockHeld, Rebuilding, Holds, ReloadTask
    <3>5. QED BY <3>3, <3>4
  <2>9. ASSUME NEW r \in Reloads, CreateObjects(r) PROVE TypeInv'
    <3>1. reload[r].rows \in SUBSET Points /\ Register(reload[r].rows, reload[r].raw)
      BY <2>9 DEF CreateObjects, TypeOK, ReloadTask
    <3>2. reload' \in [Reloads -> ReloadTask]
      <4> DEFINE task == [reload[r] EXCEPT !.pc = "building", !.rows = {}, !.raw = {}]
      <4>1. task \in ReloadTask
        BY DEF TypeOK, ReloadTask, ReloadPC
      <4>2. reload' = [reload EXCEPT ![r] = task]
        BY <2>9 DEF CreateObjects
      <4>3. QED BY <4>1, <4>2, ReloadStepType
    <3>3. TypeOK'
      BY <2>9, <3>1, <3>2, RegisterType DEF CreateObjects, TypeOK, dbVars
    <3>4. LockHeld'
      BY <2>9 DEF CreateObjects, TypeOK, LockHeld, Rebuilding, Holds, ReloadTask
    <3>5. QED BY <3>3, <3>4
  <2>10. ASSUME NEW r \in Reloads, FinishReload(r) PROVE TypeInv'
    <3>1. Rebuilding(r) /\ up' \in BOOLEAN
      BY <2>10 DEF FinishReload, Rebuilding, TypeOK
    <3>2. QED
      BY <2>6, <2>10, <3>1 DEF FinishReload
  <2>11. ASSUME NEW p \in Points, AddObject(p)
         PROVE  /\ objects' \in [Points -> {"none", "current", "stale"}]
                /\ present' \in [Points -> {"none", "seed", "live"}]
    BY <2>11, RegisterType DEF AddObject, TypeOK
  <2>12. ASSUME NEW p \in Points, StartHotAdd(p) PROVE TypeInv'
    <3>1. UNCHANGED <<dbVars, up, prevValues, preserved, reload, write, tick,
                      contended, straddled>>
      BY <2>12 DEF StartHotAdd
    <3>2. CASE up /\ ~LockFree
      <4>1. lock' \in Seq(Reloads \cup Points) /\ lock' # <<>> /\ Head(lock') = Head(lock)
        <5>1. lock' = Append(lock, p) /\ lock # <<>>
          BY <2>12, <3>2 DEF StartHotAdd, LockFree
        <5>2. QED BY <5>1 DEF TypeOK
      <4>2. TypeOK'
        BY <2>12, <3>1, <3>2, <4>1 DEF StartHotAdd, TypeOK, dbVars
      <4>3. LockHeld'
        BY <3>1, <4>1 DEF LockHeld, Rebuilding, Holds
      <4>4. QED BY <4>2, <4>3
    <3>3. CASE ~(up /\ ~LockFree)
      BY <2>11, <2>12, <3>1, <3>3
      DEF StartHotAdd, TypeOK, LockHeld, Rebuilding, Holds, dbVars
    <3>4. QED BY <3>2, <3>3
  <2>13. ASSUME NEW p \in Points, AcquireHotAdd(p) PROVE TypeInv'
    <3>1. lock' \in Seq(Reloads \cup Points)
      BY <2>13 DEF AcquireHotAdd, Holds, TypeOK
    <3>2. TypeOK'
      BY <2>11, <2>13, <3>1 DEF AcquireHotAdd, TypeOK, dbVars
    <3>3. \A r \in Reloads : ~Rebuilding(r)
      BY <2>13, PointsAssumption DEF AcquireHotAdd, LockHeld, Holds
    <3>4. QED
      BY <2>13, <3>2, <3>3 DEF AcquireHotAdd, LockHeld, Rebuilding
  <2>14. ASSUME NEW w \in Writes, NEW p \in Points, NEW label \in {"storing", "resolving"},
                TakeObject(w, p, label)
         PROVE  TypeInv'
    <3> DEFINE call == [pc |-> label, point |-> p, object |-> objects[p]]
    <3>1. call \in WriteCall
      BY DEF TypeOK, WriteCall
    <3>2. write' \in [Writes -> WriteCall]
      BY <2>14, <3>1 DEF TakeObject, TypeOK
    <3>3. QED
      BY <2>14, <3>2 DEF TakeObject, TypeOK, LockHeld, Rebuilding, Holds, dbVars
  <2>25. ASSUME NEW w \in Writes, StoreWrite(w) PROVE TypeInv'
    <3> DEFINE call == [write[w] EXCEPT !.pc = "stored"]
    <3>1. call \in WriteCall
      BY DEF TypeOK, WriteCall
    <3>2. write' = [write EXCEPT ![w] = call] \/ write' = [write EXCEPT ![w] = IdleWrite]
      BY <2>25 DEF StoreWrite
    <3>3. write' \in [Writes -> WriteCall]
      BY <3>1, <3>2, IdleRecords DEF TypeOK
    <3>4. raw' \subseteq Owned
      BY <2>25 DEF StoreWrite, TypeOK
    <3>5. QED
      BY <2>25, <3>3, <3>4 DEF StoreWrite, TypeOK, LockHeld, Rebuilding, Holds
  <2>26. ASSUME NEW w \in Writes, EndPriorityWrite(w) PROVE TypeInv'
    <3>1. write[w].point \in Points
      BY DEF TypeOK, WriteCall
    <3>2. write' \in [Writes -> WriteCall]
      BY <2>26, IdleRecords DEF EndPriorityWrite, TypeOK
    <3>3. prevValues' \subseteq Owned
      BY <2>26 DEF EndPriorityWrite, TypeOK
    <3>4. present' \in [Points -> {"none", "seed", "live"}]
      BY <2>26, <3>1 DEF EndPriorityWrite, TypeOK
    <3>5. QED
      BY <2>26, <3>2, <3>3, <3>4
      DEF EndPriorityWrite, TypeOK, LockHeld, Rebuilding, Holds, dbVars
  <2>27. ASSUME NEW p \in Points, SetManualValue(p) PROVE TypeInv'
    BY <2>27 DEF SetManualValue, TypeOK, LockHeld, Rebuilding, Holds, dbVars
  <2>15. ASSUME NEW w \in Writes, InstallWrite(w) PROVE TypeInv'
    <3> DEFINE call == [write[w] EXCEPT !.pc = "updating"]
    <3>1. call \in WriteCall /\ write[w].object \in {"none", "current", "stale"}
      BY DEF TypeOK, WriteCall
    <3>2. write' \in [Writes -> WriteCall]
      BY <2>15, <3>1 DEF InstallWrite, TypeOK
    <3>3. objects' \in [Points -> {"none", "current", "stale"}]
      BY <2>15, <3>1 DEF InstallWrite, TypeOK
    <3>4. QED
      BY <2>15, <3>2, <3>3 DEF InstallWrite, TypeOK, LockHeld, Rebuilding, Holds, dbVars
  <2>16. ASSUME NEW w \in Writes, UpdateWrite(w) PROVE TypeInv'
    BY <2>16, IdleRecords DEF UpdateWrite, TypeOK, LockHeld, Rebuilding, Holds, dbVars
  <2>17. CASE StartTick
    <3>1. Keys \cap db \subseteq Points
      BY DEF Keys
    <3>2. tick' \in TickRun
      BY <2>17, <3>1 DEF StartTick, IdleTick, TickRun
    <3>3. QED
      BY <2>17, <3>2 DEF StartTick, TypeOK, LockHeld, Rebuilding, Holds, dbVars
  <2>18. CASE BeginLoop
    <3>1. Cardinality(Keys) \in Nat
      <4>1. Keys \in SUBSET Points
        BY DEF Keys
      <4>2. QED BY <4>1, PointsAssumption, FS_Subset, FS_CardinalityType
    <3>2. tick' \in TickRun
      <4> DEFINE run == [tick EXCEPT !.pc = "looping", !.size = Cardinality(Keys)]
      <4>1. run \in TickRun
        BY <3>1 DEF TypeOK, TickRun
      <4>2. QED BY <2>18, <4>1 DEF BeginLoop
    <3>3. QED
      BY <2>18, <3>2 DEF BeginLoop, TypeOK, LockHeld, Rebuilding, Holds, dbVars
  <2>19. ASSUME NEW p \in Points, TickObject(p) PROVE TypeInv'
    <3>1. tick' \in TickRun
      <4> DEFINE run == [tick EXCEPT !.cursor = @ + 1, !.storing = {p} \cap tick.rows]
      <4>1. tick.cursor + 1 \in Nat /\ {p} \cap tick.rows \in SUBSET Points
        BY DEF TypeOK, TickRun
      <4>2. run \in TickRun
        BY <4>1 DEF TypeOK, TickRun
      <4>3. QED BY <2>19, <4>2 DEF TickObject
    <3>2. present' \in [Points -> {"none", "seed", "live"}]
      BY <2>19 DEF TickObject, TypeOK
    <3>3. TypeOK'
      BY <2>19, <3>1, <3>2 DEF TickObject, TypeOK, dbVars
    <3>4. LockHeld'
      BY <2>19 DEF TickObject, LockHeld, Rebuilding, Holds
    <3>5. QED BY <3>3, <3>4
  <2>20. CASE TickStore
    <3> DEFINE run == [tick EXCEPT !.storing = {}]
    <3>1. run \in TickRun /\ tick.storing \subseteq Points
      BY DEF TypeOK, TickRun
    <3>2. QED
      BY <2>20, <3>1 DEF TickStore, TypeOK, LockHeld, Rebuilding, Holds, dbVars
  <2>21. CASE EndTick
    BY <2>21, IdleRecords DEF EndTick, TypeOK, LockHeld, Rebuilding, Holds, dbVars
  <2>22. CASE UNCHANGED vars
    BY <2>22 DEF vars, TypeOK, LockHeld, Rebuilding, Holds
  <2>23. ASSUME Edit PROVE TypeInv'
    <3>1. ASSUME NEW r \in Reloads, NEW p \in Points, DeleteRow(r, p) PROVE TypeInv'
      BY <2>2, <3>1 DEF DeleteRow, TypeOK
    <3>2. ASSUME NEW r \in Reloads, NEW d \in Devices, ToggleDevice(r, d) PROVE TypeInv'
      BY <2>2, <3>2 DEF ToggleDevice, TypeOK
    <3>3. ASSUME NEW r \in Reloads, NEW p \in Points, ChangeBehavior(r, p) PROVE TypeInv'
      BY <2>2, <3>3 DEF ChangeBehavior, TypeOK
    <3>4. ASSUME NEW r \in Reloads, OtherEdit(r) PROVE TypeInv'
      BY <2>2, <3>4 DEF OtherEdit, TypeOK
    <3>5. QED BY <2>1, <2>23, <3>1, <3>2, <3>3, <3>4 DEF Edit
  <2>24. QED
    BY <2>3, <2>4, <2>5, <2>7, <2>8, <2>9, <2>10, <2>12, <2>13, <2>14, <2>15, <2>16,
       <2>17, <2>18, <2>19, <2>20, <2>21, <2>22, <2>23, <2>25, <2>26, <2>27
    DEF Next, ReloadStep, HotStep, WriteStep, StartWrite, StartPriorityWrite, TickStep
<1>3. QED
  BY <1>1, <1>2, PTL DEF Spec

(* Type correctness, whatever interleaves with the rebuilds. *)
THEOREM TypeCorrect == Spec => []TypeOK
<1>1. TypeInv => TypeOK
  BY DEF TypeInv
<1>2. QED
  BY <1>1, TypeInvariant, PTL

(* The lock's promise: two reloads never tear down or rebuild at once. *)
THEOREM RebuildsExclude == Spec => []OneRebuild
<1>1. TypeInv => OneRebuild
  BY DEF TypeInv, LockHeld, Holds, OneRebuild
<1>2. QED
  BY <1>1, TypeInvariant, PTL

---------------------------------------------------------------------------
(* No object of a closed application is in the table, or in a write_object call
   that will put it there, until a teardown happens inside such a call. *)
StaleInv ==
  ~straddled =>
    /\ \A p \in Points : objects[p] # "stale"
    /\ \A w \in Writes : write[w].pc \in {"storing", "stored"} => write[w].object # "stale"

(* It is kept by every step. *)
LEMMA StaleInvariant == Spec => []StaleInv
<1>1. Init => StaleInv
  BY DEF Init, StaleInv, IdleWrite
<1>2. TypeInv /\ StaleInv /\ [Next]_vars => StaleInv'
  <2> SUFFICES ASSUME TypeInv, StaleInv, [Next]_vars PROVE StaleInv'
    OBVIOUS
  <2> USE DEF TypeInv
  <2>1. ASSUME UNCHANGED <<objects, write, straddled>> PROVE StaleInv'
    BY <2>1 DEF StaleInv
  <2>2. ASSUME NEW r \in Reloads, NEW owed, Teardown(r, owed) PROVE StaleInv'
    <3>1. CASE up
      <4>1. /\ objects' = [p \in Points |-> "none"]
            /\ write' = [w \in Writes |->
                 IF write[w].object = "current" THEN [write[w] EXCEPT !.object = "stale"]
                                                ELSE write[w]]
        BY <2>2, <3>1 DEF Teardown, ClearedTable
      <4>2. straddled' <=> straddled \/ \E w \in Writes : Reinstalls(w)
        BY <2>2, <3>1, Zenon DEF Teardown
      <4>3. CASE straddled'
        BY <4>3 DEF StaleInv
      <4>4. CASE ~straddled'
        <5>1. \A w \in Writes : write'[w].pc = write[w].pc
          BY <4>1 DEF TypeOK, WriteCall
        <5>2. \A w \in Writes : write[w].pc \in {"storing", "stored"} =>
                                  write'[w] = write[w] /\ write[w].object # "stale"
          BY <4>1, <4>2, <4>4 DEF StaleInv, Reinstalls
        <5>3. QED BY <4>1, <5>1, <5>2 DEF StaleInv
      <4>5. QED BY <4>3, <4>4
    <3>2. CASE ~up
      BY <2>1, <2>2, <3>2 DEF Teardown
    <3>3. QED BY <3>1, <3>2
  <2>3. ASSUME NEW r \in Reloads, StartReload(r) PROVE StaleInv'
    <3>1. CASE LockFree
      BY <2>2, <2>3, <3>1 DEF StartReload
    <3>2. CASE ~LockFree
      BY <2>1, <2>3, <3>2 DEF StartReload
    <3>3. QED BY <3>1, <3>2
  <2>4. ASSUME NEW r \in Reloads, AcquireReload(r) PROVE StaleInv'
    BY <2>2, <2>4 DEF AcquireReload
  <2>5. ASSUME NEW rows, NEW rawRows, Register(rows, rawRows), UNCHANGED <<write, straddled>>
        PROVE  StaleInv'
    BY <2>5 DEF Register, StaleInv
  <2>6. ASSUME NEW r \in Reloads, CreateObjects(r) PROVE StaleInv'
    BY <2>5, <2>6 DEF CreateObjects
  <2>7. ASSUME NEW p \in Points, HotStep(p) PROVE StaleInv'
    <3>1. UNCHANGED <<write, straddled>>
      BY <2>7 DEF HotStep, StartHotAdd, AcquireHotAdd
    <3>2. AddObject(p) \/ UNCHANGED objects
      BY <2>7 DEF HotStep, StartHotAdd, AcquireHotAdd
    <3>3. Register({p}, {}) \/ UNCHANGED objects
      BY <3>2 DEF AddObject
    <3>4. QED BY <2>1, <2>5, <3>1, <3>3
  <2>8. ASSUME NEW w \in Writes, NEW p \in Points, NEW label, TakeObject(w, p, label)
        PROVE  StaleInv'
    <3>1. /\ write' = [write EXCEPT ![w] =
                         [pc |-> label, point |-> p, object |-> objects[p]]]
          /\ UNCHANGED <<objects, straddled>>
      BY <2>8 DEF TakeObject
    <3>2. \A v \in Writes : write'[v] = write[v] \/ write'[v].object = objects[p]
      BY <3>1 DEF TypeOK
    <3>3. QED BY <3>1, <3>2 DEF StaleInv
  <2>9. ASSUME NEW w \in Writes, InstallWrite(w) PROVE StaleInv'
    <3>1. /\ objects' = [objects EXCEPT ![write[w].point] = write[w].object]
          /\ write' = [write EXCEPT ![w].pc = "updating"]
          /\ write[w].pc = "stored"
          /\ UNCHANGED straddled
      BY <2>9 DEF InstallWrite
    <3>2. \A v \in Writes : write'[v] = write[v] \/ write'[v].pc = "updating"
      BY <3>1 DEF TypeOK, WriteCall
    <3>3. QED BY <3>1, <3>2 DEF StaleInv, TypeOK
  <2>10. ASSUME NEW w \in Writes, NEW call \in {IdleWrite, [write[w] EXCEPT !.pc = "stored"]},
                write' = [write EXCEPT ![w] = call], UNCHANGED <<objects, straddled>>,
                write[w].pc = "storing" \/ call = IdleWrite
         PROVE  StaleInv'
    <3>1. \A v \in Writes \ {w} : write'[v] = write[v]
      BY <2>10 DEF TypeOK
    <3>2. write'[w] = call
      BY <2>10 DEF TypeOK
    <3>3. CASE call = IdleWrite
      BY <2>10, <3>1, <3>2, <3>3 DEF StaleInv, IdleWrite
    <3>4. CASE write[w].pc = "storing" /\ call = [write[w] EXCEPT !.pc = "stored"]
      <4>1. call.object = write[w].object
        BY <3>4 DEF TypeOK, WriteCall
      <4>2. QED BY <2>10, <3>1, <3>2, <3>4, <4>1 DEF StaleInv
    <3>5. QED BY <2>10, <3>3, <3>4
  <2>16. ASSUME NEW w \in Writes, StoreWrite(w) \/ UpdateWrite(w) \/ EndPriorityWrite(w)
         PROVE  StaleInv'
    BY <2>10, <2>16 DEF StoreWrite, UpdateWrite, EndPriorityWrite
  <2>17. ASSUME NEW p \in Points, SetManualValue(p) PROVE StaleInv'
    BY <2>1, <2>17 DEF SetManualValue
  <2>11. ASSUME Edit PROVE StaleInv'
    BY <2>1, <2>11 DEF Edit, CreateRow, DeleteRow, ToggleDevice, ChangeBehavior, OtherEdit, AskReload
  <2>12. ASSUME NEW r \in Reloads,
                \/ CloseApp(r) \/ MakeApp(r) \/ FinishReload(r)
                \/ \E d \in Devices : ReadRows(r, d)
         PROVE  StaleInv'
    BY <2>1, <2>12 DEF CloseApp, MakeApp, FinishReload, ReadRows
  <2>13. ASSUME TickStep PROVE StaleInv'
    BY <2>1, <2>13 DEF TickStep, StartTick, BeginLoop, TickObject, TickStore, EndTick
  <2>14. CASE UNCHANGED vars
    BY <2>1, <2>14 DEF vars
  <2>15. QED
    BY <2>3, <2>4, <2>6, <2>7, <2>8, <2>9, <2>11, <2>12, <2>13, <2>14, <2>16, <2>17
    DEF Next, ReloadStep, WriteStep, StartWrite, StartPriorityWrite
<1>3. QED
  BY <1>1, <1>2, TypeInvariant, PTL DEF Spec

(* The table holds only objects of the running application unless a teardown
   happened inside a write_object call. *)
THEOREM NoStaleObjects == Spec => []NoStaleUnlessStraddled
<1>1. StaleInv => NoStaleUnlessStraddled
  BY DEF StaleInv, NoStaleUnlessStraddled, NoStaleObject
<1>2. QED
  BY <1>1, StaleInvariant, PTL

---------------------------------------------------------------------------
(* A task between the lock's grant and the drop of the snapshot. *)
Snapshotting(r) == reload[r].pc \notin {"idle", "started"}

(* With no running application nothing is registered, and a registered object
   has a value; both also hold of the object a write_object call has taken. *)
DownEmpty == ~up => \A p \in Points : present[p] = "none"
CurrentPresent == \A p \in Points : objects[p] = "current" => present[p] # "none"
WritePresent ==
  \A w \in Writes : write[w].object = "current" => present[write[w].point] # "none"
ClosingEmpty ==
  \A r \in Reloads : reload[r].pc \in {"closing", "starting"} =>
    \A p \in Points : present[p] = "none"
BuildingUp == \A r \in Reloads : reload[r].pc \in {"building", "creating"} => up

RegisteredInv ==
  DownEmpty /\ CurrentPresent /\ WritePresent /\ ClosingEmpty /\ BuildingUp

(* What a reload that is alone relies on: the points it owes are in the
   snapshot, the rows it has read are still raw as far as they are now, and from
   the teardown on no owed point shows a seed value. *)
AloneInv ==
  ~contended =>
    /\ \A r, s \in Reloads : reload[r].pc # "idle" /\ reload[s].pc # "idle" => r = s
    /\ \A r \in Reloads : Snapshotting(r) => reload[r].owed \subseteq preserved
    /\ \A r \in Reloads : reload[r].pc = "creating" =>
         reload[r].rows \cap raw \subseteq reload[r].raw
    /\ \A r \in Reloads : Rebuilding(r) =>
         \A p \in reload[r].owed \cap raw : present[p] # "seed"

RestoreInv == RegisteredInv /\ AloneInv

(* A teardown leaves nothing registered. *)
LEMMA TeardownEmpties ==
  ASSUME TypeInv, RegisteredInv, NEW r \in Reloads, NEW owed \in SUBSET Points,
         Teardown(r, owed), UNCHANGED up, ~\E s \in Reloads : Rebuilding(s) /\ s # r
  PROVE  RegisteredInv' /\ \A p \in Points : present'[p] = "none"
<1> USE DEF RegisteredInv
<1>1. \A p \in Points : present'[p] = "none"
  BY DEF Teardown, DownEmpty
<1>2. \A s \in Reloads : reload'[s].pc = IF s # r THEN reload[s].pc
                                        ELSE IF up THEN "closing" ELSE "starting"
  BY DEF Teardown, TypeInv, TypeOK, ReloadTask
<1>3. (CurrentPresent /\ WritePresent)'
  <2>1. CASE up
    <3>1. \A p \in Points : objects'[p] = "none"
      BY <2>1 DEF Teardown, ClearedTable
    <3>2. \A w \in Writes : write'[w].object # "current"
      <4>1. write' = [w \in Writes |->
               IF write[w].object = "current" THEN [write[w] EXCEPT !.object = "stale"]
                                              ELSE write[w]]
        BY <2>1 DEF Teardown
      <4>2. QED BY <4>1 DEF TypeInv, TypeOK, WriteCall
    <3>3. QED BY <3>1, <3>2 DEF CurrentPresent, WritePresent
  <2>2. CASE ~up
    BY <2>2 DEF Teardown, CurrentPresent, WritePresent
  <2>3. QED BY <2>1, <2>2
<1>4. DownEmpty'
  BY <1>1 DEF DownEmpty
<1>5. ClosingEmpty'
  BY <1>1 DEF ClosingEmpty
<1>6. BuildingUp'
  BY <1>2 DEF BuildingUp, Rebuilding
<1>7. QED BY <1>1, <1>3, <1>4, <1>5, <1>6

(* A registered object has a value, and registering takes no value away. *)
LEMMA RegisterGrows ==
  ASSUME TypeInv, NEW rows, NEW rawRows, Register(rows, rawRows),
         CurrentPresent, WritePresent, UNCHANGED write
  PROVE  CurrentPresent' /\ WritePresent'
<1>1. \A p \in Points : present'[p] = present[p] \/ present'[p] \in {"seed", "live"}
  BY DEF Register, SeedValue
<1>2. \A p \in Points : objects'[p] = objects[p] \/ present'[p] \in {"seed", "live"}
  BY DEF Register, SeedValue
<1>3. CurrentPresent'
  BY <1>1, <1>2 DEF CurrentPresent
<1>4. \A w \in Writes : write[w].point \in Points
  BY DEF TypeInv, TypeOK, WriteCall
<1>5. QED
  BY <1>1, <1>3, <1>4 DEF WritePresent

(* Both are kept by every step. *)
LEMMA RestoreInvariant == Spec => []RestoreInv
<1>1. Init => RestoreInv
  BY DEF Init, RestoreInv, RegisteredInv, DownEmpty, CurrentPresent, WritePresent,
         ClosingEmpty, BuildingUp, AloneInv, Snapshotting, Rebuilding, IdleReload, IdleWrite
<1>2. TypeInv /\ RestoreInv /\ [Next]_vars => RestoreInv'
  <2> SUFFICES ASSUME TypeInv, RestoreInv, [Next]_vars PROVE RestoreInv'
    OBVIOUS
  <2> USE DEF TypeInv, RestoreInv, RegisteredInv
  <2>1. ASSUME UNCHANGED <<raw, up, objects, present, preserved, reload, write, contended>>
        PROVE  RestoreInv'
    BY <2>1 DEF DownEmpty, CurrentPresent, WritePresent, ClosingEmpty, BuildingUp,
                AloneInv, Snapshotting, Rebuilding
  <2>2. ASSUME NEW r \in Reloads, AskReload(r) PROVE RestoreInv'
    <3>1. UNCHANGED <<up, objects, present, preserved, write>>
      BY <2>2 DEF AskReload
    <3>2. contended' <=> contended \/ \E s \in Reloads \ {r} : reload[s].pc # "idle"
      BY <2>2, Zenon DEF AskReload
    <3>3. reload'[r].pc = "started" /\ \A s \in Reloads \ {r} : reload'[s] = reload[s]
      BY <2>2 DEF AskReload, TypeOK, ReloadTask
    <3>4. RegisteredInv'
      BY <3>1, <3>3 DEF DownEmpty, CurrentPresent, WritePresent, ClosingEmpty, BuildingUp
    <3>5. AloneInv'
      <4> SUFFICES ASSUME ~contended' PROVE AloneInv'
        BY DEF AloneInv
      <4>1. \A s \in Reloads \ {r} : reload'[s].pc = "idle"
        BY <3>2, <3>3
      <4>2. QED
        BY <3>3, <4>1 DEF AloneInv, Snapshotting, Rebuilding
    <3>6. QED BY <3>4, <3>5
  <2>3. ASSUME NEW r \in Reloads, StartReload(r) PROVE RestoreInv'
    <3> DEFINE owed == raw \cap prevValues
    <3>1. owed \in SUBSET Points
      BY PointsAssumption DEF TypeOK
    <3>2. /\ preserved' = prevValues
          /\ UNCHANGED <<raw, up, contended>>
          /\ reload[r].pc = "started"
      BY <2>3 DEF StartReload, dbVars
    <3>3. /\ reload'[r].owed = owed
          /\ \A s \in Reloads \ {r} : reload'[s] = reload[s]
      <4>1. CASE LockFree
        <5>1. reload' = [reload EXCEPT ![r] =
                [@ EXCEPT !.pc = IF up THEN "closing" ELSE "starting", !.owed = owed]]
          BY <2>3, <4>1 DEF StartReload, Teardown
        <5>2. QED BY <5>1 DEF TypeOK, ReloadTask
      <4>2. CASE ~LockFree
        <5>1. reload' = [reload EXCEPT ![r] = [@ EXCEPT !.pc = "waiting", !.owed = owed]]
          BY <2>3, <4>2 DEF StartReload
        <5>2. QED BY <5>1 DEF TypeOK, ReloadTask
      <4>3. QED BY <4>1, <4>2
    <3>4. RegisteredInv' /\ (Rebuilding(r)' => \A p \in Points : present'[p] = "none")
      <4>1. CASE LockFree
        <5>1. ~\E s \in Reloads : Rebuilding(s)
          BY <4>1 DEF LockFree, LockHeld, Holds
        <5>2. Teardown(r, owed)
          BY <2>3, <4>1 DEF StartReload
        <5>3. QED BY <3>1, <3>2, <5>1, <5>2, TeardownEmpties
      <4>2. CASE ~LockFree
        <5>1. UNCHANGED <<up, objects, present, write>> /\ reload'[r].pc = "waiting"
          <6>1. reload' = [reload EXCEPT ![r] = [@ EXCEPT !.pc = "waiting", !.owed = owed]]
            BY <2>3, <4>2 DEF StartReload
          <6>2. UNCHANGED <<up, objects, present, write>>
            BY <2>3, <4>2 DEF StartReload
          <6>3. QED BY <6>1, <6>2 DEF TypeOK, ReloadTask
        <5>2. QED
          BY <5>1, <3>3 DEF DownEmpty, CurrentPresent, WritePresent, ClosingEmpty,
                            BuildingUp, Rebuilding
      <4>3. QED BY <4>1, <4>2
    <3>5. AloneInv'
      <4> SUFFICES ASSUME ~contended' PROVE AloneInv'
        BY DEF AloneInv
      <4>1. \A s \in Reloads \ {r} : reload[s].pc = "idle"
        BY <3>2 DEF AloneInv
      <4>2. \A p \in Points : Rebuilding(r)' => present'[p] # "seed"
        BY <3>4
      <4>3. reload'[r].pc # "creating"
        BY <2>3 DEF StartReload, Teardown, TypeOK, ReloadTask
      <4>4. QED
        BY <3>1, <3>2, <3>3, <4>1, <4>2, <4>3 DEF AloneInv, Snapshotting, Rebuilding
    <3>6. QED BY <3>4, <3>5
  <2>4. ASSUME NEW r \in Reloads, AcquireReload(r) PROVE RestoreInv'
    <3>1. /\ UNCHANGED <<raw, up, preserved, contended>>
          /\ Teardown(r, reload[r].owed)
          /\ reload[r].owed \in SUBSET Points
          /\ reload[r].pc = "waiting"
      BY <2>4 DEF AcquireReload, TypeOK, ReloadTask, dbVars
    <3>2. ~\E s \in Reloads : Rebuilding(s) /\ s # r
      BY <2>4 DEF AcquireReload, LockHeld, Holds
    <3>3. RegisteredInv' /\ \A p \in Points : present'[p] = "none"
      BY <3>1, <3>2, TeardownEmpties
    <3>4. /\ reload'[r].owed = reload[r].owed
          /\ reload'[r].pc \in {"closing", "starting"}
          /\ \A s \in Reloads \ {r} : reload'[s] = reload[s]
      BY <3>1 DEF Teardown, TypeOK, ReloadTask
    <3>5. \A s \in Reloads : reload[s].owed \subseteq Points
      BY DEF TypeOK, ReloadTask
    <3>6. AloneInv'
      BY <3>1, <3>2, <3>3, <3>4, <3>5 DEF AloneInv, Snapshotting, Rebuilding
    <3>7. QED BY <3>3, <3>6
  <2>5. ASSUME NEW r \in Reloads, CloseApp(r) PROVE RestoreInv'
    <3>1. /\ UNCHANGED <<raw, objects, present, preserved, write, contended>>
          /\ reload[r].pc = "closing"
      BY <2>5 DEF CloseApp, dbVars
    <3>2. /\ \A s \in Reloads \ {r} : reload'[s] = reload[s]
          /\ reload'[r].pc = "starting" /\ reload'[r].owed = reload[r].owed
      BY <2>5 DEF CloseApp, TypeOK, ReloadTask
    <3>3. \A p \in Points : present[p] = "none"
      BY <3>1 DEF ClosingEmpty
    <3>4. \A s \in Reloads \ {r} : ~Rebuilding(s)
      BY <3>1 DEF Rebuilding, LockHeld, Holds
    <3>5. RegisteredInv'
      BY <3>1, <3>2, <3>3, <3>4 DEF DownEmpty, CurrentPresent, WritePresent, ClosingEmpty,
                                    BuildingUp, Rebuilding
    <3>6. AloneInv'
      BY <3>1, <3>2 DEF AloneInv, Snapshotting, Rebuilding
    <3>7. QED BY <3>5, <3>6
  <2>6. ASSUME NEW r \in Reloads, Rebuilding(r), Finish(r),
               UNCHANGED <<raw, objects, present, write, contended>>,
               (up' = up) \/ (~up' /\ reload[r].pc = "starting")
        PROVE  RestoreInv'
    <3>1. /\ \A s \in Reloads \ {r} : reload'[s] = reload[s]
          /\ reload'[r].pc = "idle"
      BY <2>6 DEF Finish, IdleReload, TypeOK
    <3>2. \A s \in Reloads \ {r} : ~Rebuilding(s)
      BY <2>6 DEF LockHeld, Holds
    <3>3. ~up' => \A p \in Points : present[p] = "none"
      BY <2>6 DEF DownEmpty, ClosingEmpty
    <3>4. RegisteredInv'
      BY <2>6, <3>1, <3>2, <3>3 DEF DownEmpty, CurrentPresent, WritePresent, ClosingEmpty,
                                    BuildingUp, Rebuilding
    <3>5. ~contended => \A s \in Reloads : reload'[s].pc = "idle"
      BY <2>6, <3>1 DEF AloneInv, Rebuilding
    <3>6. AloneInv'
      BY <2>6, <3>5 DEF AloneInv, Snapshotting, Rebuilding
    <3>7. QED BY <3>4, <3>6
  <2>7. ASSUME NEW r \in Reloads, Rebuilding(r),
               UNCHANGED <<raw, objects, present, preserved, write, contended>>,
               reload'[r].pc \in {"building", "creating"}, reload'[r].owed = reload[r].owed,
               reload'[r].pc = "creating" => reload'[r].rows \cap raw \subseteq reload'[r].raw,
               \A s \in Reloads \ {r} : reload'[s] = reload[s],
               up'
        PROVE  RestoreInv'
    <3>1. RegisteredInv'
      BY <2>7 DEF DownEmpty, CurrentPresent, WritePresent, ClosingEmpty, BuildingUp
    <3>2. AloneInv'
      BY <2>7 DEF AloneInv, Snapshotting, Rebuilding
    <3>3. QED BY <3>1, <3>2
  <2>8. ASSUME NEW r \in Reloads, MakeApp(r) PROVE RestoreInv'
    <3>1. Rebuilding(r) /\ UNCHANGED <<raw, objects, present, write, contended>>
      BY <2>8 DEF MakeApp, Rebuilding, dbVars
    <3>2. CASE enabled = {}
      <4>1. Finish(r) /\ ~up' /\ reload[r].pc = "starting"
        BY <2>8, <3>2 DEF MakeApp
      <4>2. QED BY <2>6, <3>1, <4>1
    <3>3. CASE enabled # {}
      <4>1. up' /\ UNCHANGED preserved
        BY <2>8, <3>3 DEF MakeApp
      <4>2. /\ reload'[r].pc = "building" /\ reload'[r].owed = reload[r].owed
            /\ \A s \in Reloads \ {r} : reload'[s] = reload[s]
        BY <2>8, <3>3 DEF MakeApp, TypeOK, ReloadTask
      <4>3. QED BY <2>7, <3>1, <4>1, <4>2
    <3>4. QED BY <3>2, <3>3
  <2>9. ASSUME NEW r \in Reloads, NEW d \in Devices, ReadRows(r, d) PROVE RestoreInv'
    <3>1. Rebuilding(r) /\ UNCHANGED <<raw, up, objects, present, preserved, write, contended>>
      BY <2>9 DEF ReadRows, Rebuilding, dbVars
    <3>2. up
      BY <2>9 DEF ReadRows, BuildingUp
    <3>3. /\ reload'[r].pc = "creating" /\ reload'[r].owed = reload[r].owed
          /\ reload'[r].rows \cap raw \subseteq reload'[r].raw
          /\ \A s \in Reloads \ {r} : reload'[s] = reload[s]
      BY <2>9 DEF ReadRows, TypeOK, ReloadTask
    <3>4. QED BY <2>7, <3>1, <3>2, <3>3
  <2>10. ASSUME NEW r \in Reloads, CreateObjects(r) PROVE RestoreInv'
    <3>1. /\ Register(reload[r].rows, reload[r].raw)
          /\ UNCHANGED <<raw, up, preserved, write, contended>>
          /\ reload[r].pc = "creating"
      BY <2>10 DEF CreateObjects, dbVars
    <3>2. /\ reload'[r].pc = "building" /\ reload'[r].owed = reload[r].owed
          /\ \A s \in Reloads \ {r} : reload'[s] = reload[s]
      BY <2>10 DEF CreateObjects, TypeOK, ReloadTask
    <3>3. up /\ \A s \in Reloads \ {r} : ~Rebuilding(s)
      BY <3>1 DEF BuildingUp, Rebuilding, LockHeld, Holds
    <3>4. CurrentPresent' /\ WritePresent'
      BY <3>1, RegisterGrows
    <3>5. RegisteredInv'
      BY <3>1, <3>2, <3>3, <3>4 DEF DownEmpty, ClosingEmpty, BuildingUp, Rebuilding
    <3>6. ~contended => \A p \in reload[r].owed \cap raw : present'[p] # "seed"
      <4>1. reload[r].owed \subseteq Points
        BY DEF TypeOK, ReloadTask
      <4>2. QED
        BY <3>1, <4>1 DEF AloneInv, Snapshotting, Rebuilding, Register, SeedValue
    <3>7. AloneInv'
      BY <3>1, <3>2, <3>3, <3>6 DEF AloneInv, Snapshotting, Rebuilding
    <3>8. QED BY <3>5, <3>7
  <2>11. ASSUME NEW r \in Reloads, FinishReload(r) PROVE RestoreInv'
    <3>1. /\ Rebuilding(r) /\ Finish(r) /\ up' = up
          /\ UNCHANGED <<raw, objects, present, write, contended>>
      BY <2>11 DEF FinishReload, Rebuilding, dbVars
    <3>2. QED BY <2>6, <3>1
  <2>12. ASSUME NEW p \in Points, HotStep(p) PROVE RestoreInv'
    <3>1. UNCHANGED <<raw, up, preserved, reload, write, contended>>
      BY <2>12 DEF HotStep, StartHotAdd, AcquireHotAdd, dbVars
    <3>2. \/ UNCHANGED <<objects, present>>
          \/ up /\ Register({p}, {}) /\ \A r \in Reloads : ~Rebuilding(r)
      <4>1. CASE StartHotAdd(p)
        BY <4>1 DEF StartHotAdd, AddObject, LockFree, LockHeld, Holds
      <4>2. CASE AcquireHotAdd(p)
        BY <4>2, PointsAssumption DEF AcquireHotAdd, AddObject, LockHeld, Holds
      <4>3. QED BY <2>12, <4>1, <4>2 DEF HotStep
    <3>3. CASE UNCHANGED <<objects, present>>
      BY <2>1, <3>1, <3>3
    <3>4. CASE up /\ Register({p}, {}) /\ \A r \in Reloads : ~Rebuilding(r)
      <4>1. CurrentPresent' /\ WritePresent'
        BY <3>1, <3>4, RegisterGrows
      <4>2. RegisteredInv'
        BY <3>1, <3>4, <4>1 DEF DownEmpty, ClosingEmpty, BuildingUp, Rebuilding
      <4>3. AloneInv'
        BY <3>1, <3>4 DEF AloneInv, Snapshotting, Rebuilding
      <4>4. QED BY <4>2, <4>3
    <3>5. QED BY <3>2, <3>3, <3>4
  <2>13. ASSUME NEW w \in Writes, NEW p \in Points, NEW label, TakeObject(w, p, label)
         PROVE  RestoreInv'
    <3>1. /\ write' = [write EXCEPT ![w] =
                         [pc |-> label, point |-> p, object |-> objects[p]]]
          /\ UNCHANGED <<raw, up, objects, present, preserved, reload, contended>>
      BY <2>13 DEF TakeObject, dbVars
    <3>2. WritePresent'
      BY <3>1 DEF WritePresent, CurrentPresent, TypeOK
    <3>3. QED
      BY <3>1, <3>2 DEF DownEmpty, CurrentPresent, ClosingEmpty, BuildingUp, AloneInv,
                        Snapshotting, Rebuilding
  <2>22. ASSUME NEW w \in Writes, StoreWrite(w) PROVE RestoreInv'
    <3>1. /\ raw' \subseteq raw
          /\ UNCHANGED <<up, objects, present, preserved, reload, contended>>
      BY <2>22 DEF StoreWrite
    <3>2. \/ write' = [write EXCEPT ![w].pc = "stored"]
          \/ write' = [write EXCEPT ![w] = IdleWrite]
      BY <2>22 DEF StoreWrite
    <3>3. \A v \in Writes : \/ write'[v].object = "none"
                             \/ /\ write'[v].object = write[v].object
                                /\ write'[v].point = write[v].point
      BY <3>2 DEF TypeOK, WriteCall, IdleWrite
    <3>4. WritePresent'
      BY <3>1, <3>3 DEF WritePresent
    <3>5. DownEmpty' /\ CurrentPresent' /\ ClosingEmpty' /\ BuildingUp'
      BY <3>1 DEF DownEmpty, CurrentPresent, ClosingEmpty, BuildingUp
    <3>6. AloneInv'
      BY <3>1 DEF AloneInv, Snapshotting, Rebuilding
    <3>7. QED BY <3>4, <3>5, <3>6
  <2>14. ASSUME NEW w \in Writes, InstallWrite(w) PROVE RestoreInv'
    <3>1. /\ objects' = [objects EXCEPT ![write[w].point] = write[w].object]
          /\ write' = [write EXCEPT ![w].pc = "updating"]
          /\ UNCHANGED <<raw, up, present, preserved, reload, contended>>
      BY <2>14 DEF InstallWrite, dbVars
    <3>2. \A v \in Writes : write'[v].object = write[v].object /\ write'[v].point = write[v].point
      BY <3>1 DEF TypeOK, WriteCall
    <3>3. WritePresent' /\ CurrentPresent'
      BY <3>1, <3>2 DEF WritePresent, CurrentPresent, TypeOK
    <3>4. QED
      BY <3>1, <3>3 DEF DownEmpty, ClosingEmpty, BuildingUp, AloneInv, Snapshotting, Rebuilding
  <2>15. ASSUME NEW p \in Points, NEW q,
                (present[p] # "none" /\ q = "live") \/ q = present[p],
                present' = [present EXCEPT ![p] = q],
                UNCHANGED <<raw, up, objects, preserved, reload, contended>>,
                \A w \in Writes : write'[w] = write[w] \/ write'[w].object = "none"
         PROVE  RestoreInv'
    <3>1. \A s \in Points : \/ present'[s] = present[s]
                            \/ present[s] # "none" /\ present'[s] = "live"
      <4>1. present \in [Points -> {"none", "seed", "live"}]
        BY DEF TypeOK
      <4>2. present'[p] = q /\ \A s \in Points \ {p} : present'[s] = present[s]
        BY <2>15, <4>1
      <4>3. ASSUME NEW s \in Points
            PROVE  \/ present'[s] = present[s]
                   \/ present[s] # "none" /\ present'[s] = "live"
        <5>1. CASE s = p
          BY <2>15, <4>2, <5>1
        <5>2. CASE s # p
          BY <4>2, <5>2
        <5>3. QED BY <5>1, <5>2
      <4>4. QED BY <4>3
    <3>2. \A w \in Writes : write[w].point \in Points
      BY DEF TypeOK, WriteCall
    <3>3. CurrentPresent'
      BY <2>15, <3>1 DEF CurrentPresent
    <3>4. WritePresent'
      BY <2>15, <3>1, <3>2 DEF WritePresent
    <3>5. DownEmpty' /\ ClosingEmpty' /\ BuildingUp'
      BY <2>15, <3>1 DEF DownEmpty, ClosingEmpty, BuildingUp
    <3>6. \A r \in Reloads : reload[r].owed \subseteq Points
      BY DEF TypeOK, ReloadTask
    <3>7. AloneInv'
      BY <2>15, <3>1, <3>6 DEF AloneInv, Snapshotting, Rebuilding
    <3>8. QED BY <3>3, <3>4, <3>5, <3>7
  <2>16. ASSUME NEW w \in Writes, UpdateWrite(w) \/ EndPriorityWrite(w) PROVE RestoreInv'
    <3> DEFINE p == write[w].point
    <3> DEFINE live == /\ write[w].object = "current"
                       /\ UpdateWrite(w) \/ p \in db
    <3> DEFINE q == IF live THEN "live" ELSE present[p]
    <3>1. p \in Points
      BY DEF TypeOK, WriteCall
    <3>2. present' = [present EXCEPT ![p] = q]
      <4>1. CASE UpdateWrite(w)
        BY <4>1 DEF UpdateWrite
      <4>2. CASE EndPriorityWrite(w)
        BY <4>2 DEF EndPriorityWrite, UpdateWrite
      <4>3. QED BY <2>16, <4>1, <4>2
    <3>3. (present[p] # "none" /\ q = "live") \/ q = present[p]
      BY DEF WritePresent
    <3>4. write' = [write EXCEPT ![w] = IdleWrite]
      BY <2>16 DEF UpdateWrite, EndPriorityWrite
    <3>5. \A v \in Writes : write'[v] = write[v] \/ write'[v].object = "none"
      BY <3>4 DEF IdleWrite, TypeOK
    <3>7. UNCHANGED <<raw, up, objects, preserved, reload, contended>>
      BY <2>16 DEF UpdateWrite, EndPriorityWrite, dbVars
    <3> HIDE DEF p, q
    <3>6. QED BY <2>15, <3>1, <3>2, <3>3, <3>5, <3>7
  <2>23. ASSUME NEW p \in Points, SetManualValue(p) PROVE RestoreInv'
    <3> DEFINE q == IF objects[p] = "current" THEN "live" ELSE present[p]
    <3>1. present' = [present EXCEPT ![p] = q]
      BY <2>23 DEF SetManualValue
    <3>2. (present[p] # "none" /\ q = "live") \/ q = present[p]
      BY DEF CurrentPresent
    <3>3. UNCHANGED <<raw, up, objects, preserved, reload, contended, write>>
      BY <2>23 DEF SetManualValue, dbVars
    <3> HIDE DEF q
    <3>4. QED BY <2>15, <3>1, <3>2, <3>3
  <2>17. ASSUME NEW p \in Points, TickObject(p) PROVE RestoreInv'
    <3> DEFINE q == IF p \in tick.rows /\ objects[p] = "current" THEN "live" ELSE present[p]
    <3>1. present' = [present EXCEPT ![p] = q]
      BY <2>17 DEF TickObject
    <3>2. (present[p] # "none" /\ q = "live") \/ q = present[p]
      BY DEF CurrentPresent
    <3>3. UNCHANGED <<raw, up, objects, preserved, reload, contended, write>>
      BY <2>17 DEF TickObject, dbVars
    <3> HIDE DEF q
    <3>4. QED BY <2>15, <3>1, <3>2, <3>3
  <2>18. CASE StartTick \/ BeginLoop \/ TickStore \/ EndTick
    BY <2>1, <2>18 DEF StartTick, BeginLoop, TickStore, EndTick, dbVars
  <2>19. CASE Edit
    <3>1. ASSUME NEW p \in Points, CreateRow(p) PROVE RestoreInv'
      BY <2>1, <3>1 DEF CreateRow
    <3>2. QED
      BY <2>2, <2>19, <3>1 DEF Edit, DeleteRow, ToggleDevice, ChangeBehavior, OtherEdit
  <2>20. CASE UNCHANGED vars
    BY <2>1, <2>20 DEF vars
  <2>21. QED
    BY <2>3, <2>4, <2>5, <2>8, <2>9, <2>10, <2>11, <2>12, <2>13, <2>14, <2>16, <2>17,
       <2>18, <2>19, <2>20, <2>22, <2>23
    DEF Next, ReloadStep, WriteStep, StartWrite, StartPriorityWrite, TickStep
<1>3. QED
  BY <1>1, <1>2, TypeInvariant, PTL DEF Spec

(* A reload that no other reload overlaps restores the live value of every
   provider-owned point it tears down. *)
THEOREM RestoresAlone == Spec => []RestoresWhenAlone
<1>1. RestoreInv => RestoresWhenAlone
  BY DEF RestoreInv, AloneInv, RestoresWhenAlone, RestoresLiveValues
<1>2. QED
  BY <1>1, RestoreInvariant, PTL

---------------------------------------------------------------------------
(* The table and the database.  What is missing from the application is still
   to be built, by a hot-add or by a reload that has not read it yet; what is
   there too much goes with a reload that has not torn down yet.  So the tasks
   in the lock's queue matter, and their order does: a row deleted while its
   hot-add waits is put back by that hot-add, and only a reload that waits
   behind it takes it away. *)

Queued(t) == \E i \in 1..Len(lock) : lock[i] = t
Precedes(s, t) == \E i, j \in 1..Len(lock) : i < j /\ lock[i] = s /\ lock[j] = t
OnceQueued == \A i, j \in 1..Len(lock) : lock[i] = lock[j] => i = j

(* A reload that will tear the application down. *)
Ahead == \E r \in Reloads : reload[r].pc \in {"started", "waiting"}

(* One that will do so after the hot-add of p. *)
Behind(p) ==
  \E r \in Reloads : \/ reload[r].pc = "started"
                     \/ reload[r].pc = "waiting" /\ Precedes(p, r)

(* The reload has not come to p's device, or to p. *)
WillBuild(r, p) ==
  \/ reload[r].pc \in {"started", "waiting", "closing", "starting"}
  \/ reload[r].pc \in {"building", "creating"} /\ DeviceOf[p] \in reload[r].todo
  \/ reload[r].pc = "creating" /\ p \in reload[r].rows

LockExact ==
  /\ OnceQueued
  /\ \A r \in Reloads : Queued(r) => reload[r].pc \notin {"idle", "started"}
  /\ \A p \in Points : Queued(p) <=> hot[p] = "waiting"

HotServed ==
  /\ \A p \in unused : hot[p] = "idle"
  /\ \A p \in Points : hot[p] = "started" => p \in Served
  /\ \A p \in Points : hot[p] = "waiting" => p \in Served \/ Behind(p)

Extra == \A p \in Points : present[p] # "none" => p \in Served \/ Ahead

Missing ==
  \A p \in Served : present[p] = "none" =>
    hot[p] # "idle" \/ \E r \in Reloads : WillBuild(r, p)

Reading ==
  \A r \in Reloads : reload[r].pc \in {"building", "creating"} =>
    \/ Ahead
    \/ /\ reload[r].todo \subseteq enabled
       /\ reload[r].pc = "creating" => reload[r].rows \subseteq Served

DownAsked ==
  ~up => enabled = {} \/ \E r \in Reloads : reload[r].pc \in {"started", "waiting", "starting"}

(* A write_object call on its way to the table took an object out of it. *)
WriteTook == \A w \in Writes : write[w].pc \in {"storing", "stored"} => write[w].object # "none"

Tabled == ~straddled => \A p \in Points : objects[p] # "none" <=> present[p] # "none"

ServeInv == LockExact /\ HotServed /\ Extra /\ Missing /\ Reading /\ DownAsked

(* A task that is appended goes behind all others. *)
LEMMA Enqueue ==
  ASSUME TypeInv, OnceQueued, NEW t \in Reloads \cup Points, ~Queued(t), lock' = Append(lock, t)
  PROVE  /\ OnceQueued'
         /\ \A s : Queued(s)' <=> Queued(s) \/ s = t
         /\ \A r, s : Precedes(r, s) => Precedes(r, s)'
         /\ \A s : Queued(s) => Precedes(s, t)'
<1>1. lock \in Seq(Reloads \cup Points) /\ Len(lock) \in Nat
  BY DEF TypeInv, TypeOK
<1>2. /\ Len(lock') = Len(lock) + 1 /\ lock'[Len(lock) + 1] = t
      /\ \A i \in 1..Len(lock) : lock'[i] = lock[i]
  BY <1>1
<1>3. \A i \in 1..Len(lock') : i \in 1..Len(lock) \/ i = Len(lock) + 1
  BY <1>1, <1>2
<1>4. \A i \in 1..Len(lock) : i \in 1..Len(lock') /\ i < Len(lock) + 1
  BY <1>1, <1>2
<1>5. Len(lock) + 1 \in 1..Len(lock')
  BY <1>1, <1>2
<1> QED
  BY <1>2, <1>3, <1>4, <1>5 DEF OnceQueued, Queued, Precedes

(* The head leaves the queue and the others keep their order. *)
LEMMA Dequeue ==
  ASSUME TypeInv, OnceQueued, lock # <<>>, lock' = Tail(lock), NEW t, t = Head(lock)
  PROVE  /\ OnceQueued'
         /\ \A s : Queued(s)' <=> Queued(s) /\ s # t
         /\ \A r, s : Precedes(r, s) /\ r # t => Precedes(r, s)'
<1>1. lock \in Seq(Reloads \cup Points) /\ Len(lock) \in Nat \ {0} /\ lock[1] = t
  BY DEF TypeInv, TypeOK
<1>2. Len(lock') = Len(lock) - 1 /\ \A i \in 1..Len(lock') : lock'[i] = lock[i + 1]
  BY <1>1
<1>3. \A i \in 1..Len(lock') : i + 1 \in 1..Len(lock)
  BY <1>1, <1>2
<1>4. \A i \in 1..Len(lock) : i # 1 => \E k \in 1..Len(lock') : i = k + 1
  <2> TAKE i \in 1..Len(lock)
  <2> HAVE i # 1
  <2>1. i - 1 \in 1..Len(lock') /\ i = (i - 1) + 1
    BY <1>1, <1>2
  <2> QED
    BY <2>1
<1>5. 1 \in 1..Len(lock)
  BY <1>1
<1>6. OnceQueued'
  <2> SUFFICES ASSUME NEW i \in 1..Len(lock'), NEW j \in 1..Len(lock'), lock'[i] = lock'[j] PROVE i = j
    BY DEF OnceQueued
  <2>1. i + 1 = j + 1
    BY <1>2, <1>3 DEF OnceQueued
  <2> QED
    BY <2>1
<1>7. ASSUME NEW s PROVE Queued(s)' <=> Queued(s) /\ s # t
  <2>1. ASSUME NEW i \in 1..Len(lock'), lock'[i] = s PROVE Queued(s) /\ s # t
    <3>1. lock[i + 1] = s /\ i + 1 \in 1..Len(lock) /\ i + 1 # 1
      BY <1>2, <1>3, <2>1
    <3> QED
      BY <1>1, <1>5, <3>1 DEF Queued, OnceQueued
  <2>2. ASSUME NEW i \in 1..Len(lock), lock[i] = s, s # t PROVE \E k \in 1..Len(lock') : lock'[k] = s
    BY <1>1, <1>2, <1>4, <2>2
  <2> QED
    BY <2>1, <2>2 DEF Queued
<1>8. ASSUME NEW r, NEW s, Precedes(r, s), r # t PROVE Precedes(r, s)'
  <2>1. PICK i \in 1..Len(lock), j \in 1..Len(lock) : i < j /\ lock[i] = r /\ lock[j] = s
    BY <1>8 DEF Precedes
  <2>2. i # 1 /\ j # 1
    BY <1>1, <1>8, <2>1
  <2>3. PICK k \in 1..Len(lock') : i = k + 1
    BY <1>4, <2>2
  <2>4. PICK l \in 1..Len(lock') : j = l + 1
    BY <1>4, <2>2
  <2>5. k < l /\ lock'[k] = r /\ lock'[l] = s
    BY <1>2, <2>1, <2>3, <2>4
  <2> QED
    BY <2>5 DEF Precedes
<1> QED
  BY <1>6, <1>7, <1>8

(* Nothing precedes the head. *)
LEMMA HeadFirst ==
  ASSUME TypeInv, OnceQueued, NEW t, Holds(t) PROVE Queued(t) /\ \A s : ~Precedes(s, t)
<1>1. Len(lock) \in Nat \ {0} /\ lock[1] = t
  BY DEF TypeInv, TypeOK, Holds
<1> QED
  BY <1>1 DEF OnceQueued, Queued, Precedes

(* A step of the writes and of the ticks: whoever is registered stays so. *)
LEMMA CalmServes ==
  ASSUME TypeInv, ServeInv, UNCHANGED <<db, enabled, unused, up, lock, reload, hot>>,
         \A p \in Points : present'[p] = "none" <=> present[p] = "none"
  PROVE  ServeInv'
<1>1. Served' = Served /\ Ahead' = Ahead /\ Served \subseteq Points
  BY DEF Served, Ahead, TypeInv, TypeOK
<1>2. LockExact' /\ HotServed'
  BY <1>1 DEF ServeInv, LockExact, OnceQueued, Queued, HotServed, Behind, Precedes
<1>3. Extra' /\ Reading' /\ DownAsked'
  BY <1>1 DEF ServeInv, Extra, Reading, DownAsked
<1>4. Missing'
  BY <1>1 DEF ServeInv, Missing, WillBuild
<1> QED
  BY <1>2, <1>3, <1>4 DEF ServeInv

(* The clients' edits: a new row comes with its hot-add, any other edit with a
   reload behind all tasks that wait. *)
LEMMA CreateServes ==
  ASSUME TypeInv, ServeInv, NEW p \in Points, CreateRow(p) PROVE ServeInv'
<1> USE DEF ServeInv
<1>1. /\ p \in unused /\ db' = db \cup {p} /\ unused' = unused \ {p}
      /\ UNCHANGED <<enabled, up, present, lock, reload>>
      /\ hot' = [hot EXCEPT ![p] = IF DeviceOf[p] \in enabled THEN "started" ELSE "idle"]
  BY DEF CreateRow
<1>2. /\ \A q \in Points \ {p} : hot'[q] = hot[q]
      /\ hot'[p] = IF DeviceOf[p] \in enabled THEN "started" ELSE "idle"
  BY <1>1 DEF TypeInv, TypeOK
<1>3. Served \subseteq Served' /\ Served' \subseteq Served \cup {p} /\ (DeviceOf[p] \in enabled => p \in Served')
  BY <1>1 DEF Served
<1>4. hot[p] = "idle" /\ unused \subseteq Points
  BY <1>1 DEF HotServed, TypeInv, TypeOK
<1>5. LockExact'
  BY <1>1, <1>2, <1>4 DEF LockExact, OnceQueued, Queued
<1>6. HotServed'
  BY <1>1, <1>2, <1>3, <1>4 DEF HotServed, Behind, Precedes
<1>7. Extra' /\ Reading' /\ DownAsked'
  BY <1>1, <1>3 DEF Extra, Reading, DownAsked, Ahead
<1>8. Missing'
  <2> SUFFICES ASSUME NEW q \in Served', present'[q] = "none"
               PROVE  hot'[q] # "idle" \/ \E r \in Reloads : WillBuild(r, q)'
    BY DEF Missing
  <2>1. CASE q = p
    BY <1>2, <2>1, <1>1 DEF Served
  <2>2. CASE q # p
    <3>1. q \in Served /\ q \in Points
      BY <1>3, <2>2 DEF Served, TypeInv, TypeOK
    <3> QED
      BY <1>1, <1>2, <2>2, <3>1 DEF Missing, WillBuild
  <2> QED
    BY <2>1, <2>2
<1> QED
  BY <1>5, <1>6, <1>7, <1>8

(* A reload that is asked for will come to every row that differs.         *)
LEMMA AskServes ==
  ASSUME TypeInv, ServeInv, NEW r \in Reloads, AskReload(r) PROVE ServeInv'
<1> USE DEF ServeInv
<1>1. /\ reload'[r].pc = "started" /\ reload[r].pc = "idle"
      /\ \A s \in Reloads \ {r} : reload'[s] = reload[s]
  BY DEF AskReload, TypeInv, TypeOK, ReloadTask
<1>2. /\ UNCHANGED <<unused, up, present, lock, hot>>
      /\ \A p \in Points : hot[p] # "started"
  BY DEF AskReload
<1>3. LockExact'
  BY <1>1, <1>2 DEF LockExact, OnceQueued, Queued
<1>4. Ahead' /\ \A p : Behind(p)' /\ WillBuild(r, p)'
  BY <1>1 DEF Ahead, Behind, WillBuild
<1>5. HotServed'
  BY <1>2, <1>4 DEF HotServed
<1>6. Extra' /\ Missing' /\ Reading' /\ DownAsked'
  BY <1>1, <1>4 DEF Extra, Missing, Reading, DownAsked
<1> QED
  BY <1>3, <1>5, <1>6

(* After a teardown everything is missing, and r will build it. *)
LEMMA TornServes ==
  ASSUME NEW r \in Reloads, reload'[r].pc = IF up THEN "closing" ELSE "starting", up' = up,
         \A s \in Reloads \ {r} : reload'[s] = reload[s] /\ ~Rebuilding(s),
         \A p \in Points : present'[p] = "none"
  PROVE  Extra' /\ Missing' /\ Reading' /\ DownAsked'
<1>1. Extra'
  BY DEF Extra
<1>2. Missing'
  BY DEF Missing, WillBuild
<1>3. Reading'
  BY DEF Reading, Rebuilding
<1>4. DownAsked'
  BY DEF DownAsked
<1> QED
  BY <1>1, <1>2, <1>3, <1>4

(* A reload that queues still has every row to come to.                    *)
LEMMA StartServes ==
  ASSUME TypeInv, RestoreInv, ServeInv, NEW r \in Reloads, StartReload(r) PROVE ServeInv'
<1> USE DEF ServeInv
<1> DEFINE owed == raw \cap prevValues
<1>1. /\ lock' = Append(lock, r) /\ reload[r].pc = "started"
      /\ UNCHANGED <<db, unused, enabled, up, hot>> /\ ~Queued(r) /\ OnceQueued
  BY DEF StartReload, dbVars, LockExact
<1>2. /\ OnceQueued' /\ \A s : Queued(s)' <=> Queued(s) \/ s = r
      /\ \A s : Queued(s) => Precedes(s, r)'
  BY <1>1, Enqueue
<1>3. CASE LockFree
  <2>1. Teardown(r, owed) /\ owed \in SUBSET Points
    BY <1>3, PointsAssumption DEF StartReload, TypeInv, TypeOK
  <2>2. \A s \in Reloads : ~Rebuilding(s)
    BY <1>3 DEF TypeInv, LockHeld, Holds, LockFree
  <2>3. \A p \in Points : present'[p] = "none"
    BY <1>1, <2>1, <2>2, TeardownEmpties DEF RestoreInv
  <2>4. /\ reload'[r].pc = IF up THEN "closing" ELSE "starting"
        /\ \A s \in Reloads \ {r} : reload'[s] = reload[s]
    BY <2>1 DEF Teardown, TypeInv, TypeOK, ReloadTask
  <2>5. Extra' /\ Missing' /\ Reading' /\ DownAsked'
    BY <1>1, <2>2, <2>3, <2>4, TornServes
  <2>6. \A t : ~Queued(t)
    BY <1>3 DEF LockFree, Queued
  <2>7. LockExact'
    BY <1>1, <1>2, <2>4, <2>6, PointsAssumption DEF LockExact
  <2>8. HotServed'
    BY <1>1, <2>6 DEF HotServed, LockExact, Served
  <2> QED
    BY <2>5, <2>7, <2>8
<1>4. CASE ~LockFree
  <2>1. reload' = [reload EXCEPT ![r] = [@ EXCEPT !.pc = "waiting", !.owed = owed]] /\ UNCHANGED present
    BY <1>4 DEF StartReload
  <2>2. reload'[r].pc = "waiting" /\ \A s \in Reloads \ {r} : reload'[s] = reload[s]
    BY <2>1 DEF TypeInv, TypeOK, ReloadTask
  <2>3. LockExact'
    BY <1>1, <1>2, <2>2, PointsAssumption DEF LockExact
  <2>4. Ahead' /\ \A p : WillBuild(r, p)' /\ (Queued(p) => Behind(p)')
    BY <1>2, <2>2 DEF Ahead, WillBuild, Behind
  <2>5. HotServed'
    BY <1>1, <2>4 DEF HotServed, LockExact, Served
  <2>6. Extra' /\ Missing' /\ Reading' /\ DownAsked'
    BY <2>2, <2>4 DEF Extra, Missing, Reading, DownAsked
  <2> QED
    BY <2>3, <2>5, <2>6
<1> QED
  BY <1>3, <1>4

(* A teardown leaves every row to the rebuild behind it.                   *)
LEMMA AcquireServes ==
  ASSUME TypeInv, RestoreInv, ServeInv, NEW r \in Reloads, AcquireReload(r) PROVE ServeInv'
<1> USE DEF ServeInv
<1>1. /\ Teardown(r, reload[r].owed) /\ reload[r].owed \in SUBSET Points /\ Holds(r)
      /\ UNCHANGED <<db, unused, enabled, up, hot, lock>>
  BY DEF AcquireReload, TypeInv, TypeOK, ReloadTask, dbVars
<1>2. \A s \in Reloads \ {r} : ~Rebuilding(s)
  BY <1>1 DEF TypeInv, LockHeld, Holds
<1>3. \A p \in Points : present'[p] = "none"
  BY <1>1, <1>2, TeardownEmpties DEF RestoreInv
<1>4. /\ reload'[r].pc = IF up THEN "closing" ELSE "starting"
      /\ \A s \in Reloads \ {r} : reload'[s] = reload[s]
  BY <1>1 DEF Teardown, TypeInv, TypeOK, ReloadTask
<1>5. Extra' /\ Missing' /\ Reading' /\ DownAsked'
  BY <1>1, <1>2, <1>3, <1>4, TornServes
<1>6. LockExact'
  BY <1>1, <1>4 DEF LockExact, OnceQueued, Queued
<1>7. \A p : Behind(p) => Behind(p)'
  <2>1. reload[r].pc = "waiting" /\ \A s : ~Precedes(s, r)
    BY <1>1, HeadFirst DEF AcquireReload, LockExact
  <2> QED
    BY <1>1, <1>4, <2>1 DEF Behind, Precedes
<1>8. HotServed'
  BY <1>1, <1>7 DEF HotServed, Served
<1> QED
  BY <1>5, <1>6, <1>8

(* The holder's steps.  Only it rebuilds, and until it is through nobody else
   tears down. *)
LEMMA CloseServes ==
  ASSUME TypeInv, RestoreInv, ServeInv, NEW r \in Reloads, CloseApp(r) PROVE ServeInv'
<1> USE DEF ServeInv
<1>1. /\ reload[r].pc = "closing" /\ reload'[r].pc = "starting"
      /\ \A s \in Reloads \ {r} : reload'[s] = reload[s]
      /\ UNCHANGED <<db, unused, enabled, present, lock, hot>>
  BY DEF CloseApp, dbVars, TypeInv, TypeOK, ReloadTask
<1>2. \A p \in Points : present'[p] = "none"
  BY <1>1 DEF RestoreInv, RegisteredInv, ClosingEmpty
<1>3. LockExact'
  BY <1>1 DEF LockExact, OnceQueued, Queued
<1>4. (Ahead => Ahead') /\ \A p : (Behind(p) => Behind(p)') /\ WillBuild(r, p)'
  BY <1>1 DEF Ahead, Behind, Precedes, WillBuild
<1>5. HotServed'
  BY <1>1, <1>4 DEF HotServed, Served
<1>6. Extra' /\ Missing'
  BY <1>2, <1>4 DEF Extra, Missing
<1>7. Reading'
  BY <1>1, <1>4 DEF Reading, Served
<1>8. DownAsked'
  BY <1>1 DEF DownAsked
<1> QED
  BY <1>3, <1>5, <1>6, <1>7, <1>8

(* A reload that ends gives the lock on. *)
LEMMA FinishServes ==
  ASSUME TypeInv, ServeInv, NEW r \in Reloads, Rebuilding(r), Finish(r), UNCHANGED <<db, unused, enabled, hot>>
  PROVE  /\ LockExact' /\ HotServed' /\ (Ahead => Ahead')
         /\ reload'[r].pc = "idle" /\ \A s \in Reloads \ {r} : reload'[s] = reload[s] /\ ~Rebuilding(s)
<1> USE DEF ServeInv
<1>1. /\ lock # <<>> /\ lock' = Tail(lock) /\ r = Head(lock) /\ OnceQueued
      /\ \A s \in Reloads \ {r} : ~Rebuilding(s)
  BY DEF Finish, TypeInv, LockHeld, Holds, LockExact
<1>2. reload'[r].pc = "idle" /\ \A s \in Reloads \ {r} : reload'[s] = reload[s]
  BY DEF Finish, TypeInv, TypeOK, IdleReload
<1>3. /\ OnceQueued' /\ \A s : Queued(s)' <=> Queued(s) /\ s # r
      /\ \A s, t : Precedes(s, t) /\ s # r => Precedes(s, t)'
  BY <1>1, Dequeue
<1>4. LockExact'
  BY <1>2, <1>3, PointsAssumption DEF LockExact
<1>5. (Ahead => Ahead') /\ \A p \in Points : Behind(p) => Behind(p)'
  BY <1>2, <1>3, PointsAssumption DEF Ahead, Behind, Rebuilding
<1>6. HotServed'
  BY <1>5 DEF HotServed, Served
<1> QED
  BY <1>1, <1>2, <1>4, <1>5, <1>6

(* The new application starts without rows.                                *)
LEMMA MakeServes ==
  ASSUME TypeInv, RestoreInv, ServeInv, NEW r \in Reloads, MakeApp(r) PROVE ServeInv'
<1> USE DEF ServeInv
<1>1. reload[r].pc = "starting" /\ UNCHANGED <<db, unused, enabled, present, hot>>
  BY DEF MakeApp, dbVars
<1>2. \A p \in Points : present'[p] = "none"
  BY <1>1 DEF RestoreInv, RegisteredInv, ClosingEmpty
<1>3. Extra'
  BY <1>2 DEF Extra
<1>4. CASE enabled = {}
  <2>1. Finish(r) /\ Rebuilding(r)
    BY <1>1, <1>4 DEF MakeApp, Rebuilding
  <2>2. /\ LockExact' /\ HotServed' /\ (Ahead => Ahead') /\ reload'[r].pc = "idle"
        /\ \A s \in Reloads \ {r} : reload'[s] = reload[s] /\ ~Rebuilding(s)
    BY <1>1, <2>1, FinishServes
  <2>3. Missing' /\ DownAsked'
    BY <1>1, <1>4 DEF Missing, Served, DownAsked
  <2>4. Reading'
    BY <2>2 DEF Reading, Rebuilding
  <2> QED
    BY <1>3, <2>2, <2>3, <2>4
<1>5. CASE enabled # {}
  <2>1. /\ up' = TRUE /\ UNCHANGED lock
        /\ reload' = [reload EXCEPT ![r] = [@ EXCEPT !.pc = "building", !.todo = enabled]]
    BY <1>5 DEF MakeApp
  <2>2. /\ reload'[r].pc = "building" /\ reload'[r].todo = enabled
        /\ \A s \in Reloads \ {r} : reload'[s] = reload[s]
    BY <2>1 DEF TypeInv, TypeOK, ReloadTask
  <2>3. LockExact'
    BY <1>1, <2>1, <2>2 DEF LockExact, OnceQueued, Queued
  <2>4. (Ahead => Ahead') /\ \A p : Behind(p) => Behind(p)'
    BY <1>1, <2>1, <2>2 DEF Ahead, Behind, Precedes
  <2>5. HotServed'
    BY <1>1, <2>4 DEF HotServed, Served
  <2>6. Missing'
    BY <1>1, <2>2 DEF Missing, WillBuild, Served
  <2>7. Reading' /\ DownAsked'
    BY <1>1, <2>1, <2>2, <2>4 DEF Reading, Served, DownAsked
  <2> QED
    BY <1>3, <2>3, <2>5, <2>6, <2>7
<1> QED
  BY <1>4, <1>5

(* What a rebuild reads is what there is, or a reload is behind it.        *)
LEMMA ReadServes ==
  ASSUME TypeInv, ServeInv, NEW r \in Reloads, NEW d \in Devices, ReadRows(r, d) PROVE ServeInv'
<1> USE DEF ServeInv
<1>1. /\ reload[r].pc = "building" /\ d \in reload[r].todo
      /\ reload'[r].pc = "creating" /\ reload'[r].todo = reload[r].todo \ {d} /\ reload'[r].rows = RowsOf(d)
      /\ \A s \in Reloads \ {r} : reload'[s] = reload[s]
      /\ UNCHANGED <<db, unused, enabled, up, present, lock, hot>>
  BY DEF ReadRows, dbVars, TypeInv, TypeOK, ReloadTask
<1>2. LockExact'
  BY <1>1 DEF LockExact, OnceQueued, Queued
<1>3. (Ahead => Ahead') /\ \A p : Behind(p) => Behind(p)'
  BY <1>1 DEF Ahead, Behind, Precedes
<1>4. HotServed' /\ Extra'
  BY <1>1, <1>3 DEF HotServed, Extra, Served
<1>5. Missing'
  <2>1. \A p \in Served, s \in Reloads : WillBuild(s, p) => WillBuild(s, p)'
    BY <1>1 DEF WillBuild, Served, RowsOf
  <2> QED
    BY <1>1, <2>1 DEF Missing, Served
<1>6. Reading'
  BY <1>1, <1>3 DEF Reading, Served, RowsOf
<1>7. DownAsked'
  BY <1>1 DEF DownAsked
<1> QED
  BY <1>2, <1>4, <1>5, <1>6, <1>7

(* Whatever is registered has a value. *)
LEMMA RegisterFills ==
  ASSUME TypeInv, NEW rows \in SUBSET Points, NEW rawRows, Register(rows, rawRows)
  PROVE  /\ \A p \in Points : present'[p] # "none" <=> present[p] # "none" \/ p \in rows
         /\ \A p \in Points : objects'[p] = IF p \in rows /\ present[p] = "none" THEN "current" ELSE objects[p]
BY DEF Register, SeedValue, TypeInv, TypeOK

(* A rebuild that creates objects puts in what it read.                    *)
LEMMA BuildServes ==
  ASSUME TypeInv, ServeInv, NEW r \in Reloads, CreateObjects(r) PROVE ServeInv'
<1> USE DEF ServeInv
<1>1. /\ reload[r].pc = "creating" /\ reload'[r].pc = "building" /\ reload'[r].todo = reload[r].todo
      /\ \A s \in Reloads \ {r} : reload'[s] = reload[s] /\ ~Rebuilding(s)
      /\ UNCHANGED <<db, unused, enabled, up, lock, hot>>
      /\ reload[r].rows \in SUBSET Points /\ Register(reload[r].rows, reload[r].raw)
  BY DEF CreateObjects, dbVars, TypeInv, TypeOK, ReloadTask, LockHeld, Holds, Rebuilding
<1>2. \A p \in Points : present'[p] # "none" <=> present[p] # "none" \/ p \in reload[r].rows
  BY <1>1, RegisterFills
<1>3. LockExact'
  BY <1>1 DEF LockExact, OnceQueued, Queued
<1>4. (Ahead => Ahead') /\ \A p : Behind(p) => Behind(p)'
  BY <1>1 DEF Ahead, Behind, Precedes
<1>5. HotServed'
  BY <1>1, <1>4 DEF HotServed, Served
<1>6. Extra'
  BY <1>1, <1>2, <1>4 DEF Extra, Reading, Served
<1>7. Missing'
  <2>1. Served' = Served /\ Served \subseteq Points
    BY <1>1 DEF Served, TypeInv, TypeOK
  <2>2. \A p \in Served, s \in Reloads : WillBuild(s, p) /\ p \notin reload[r].rows => WillBuild(s, p)'
    BY <1>1 DEF WillBuild
  <2> QED
    BY <1>1, <1>2, <2>1, <2>2 DEF Missing
<1>8. Reading' /\ DownAsked'
  BY <1>1, <1>4 DEF Reading, Served, DownAsked
<1> QED
  BY <1>3, <1>5, <1>6, <1>7, <1>8

(* A rebuild that ends has been to every device.                           *)
LEMMA EndServes ==
  ASSUME TypeInv, ServeInv, NEW r \in Reloads, FinishReload(r) PROVE ServeInv'
<1> USE DEF ServeInv
<1>1. /\ reload[r].pc = "building" /\ reload[r].todo = {} /\ Finish(r) /\ Rebuilding(r)
      /\ UNCHANGED <<db, unused, enabled, up, present, hot>>
  BY DEF FinishReload, dbVars, Rebuilding
<1>2. /\ LockExact' /\ HotServed' /\ (Ahead => Ahead') /\ reload'[r].pc = "idle"
      /\ \A s \in Reloads \ {r} : reload'[s] = reload[s] /\ ~Rebuilding(s)
  BY <1>1, FinishServes
<1>3. Extra'
  BY <1>1, <1>2 DEF Extra, Served
<1>4. Missing'
  <2>1. \A p \in Served, s \in Reloads : WillBuild(s, p) => WillBuild(s, p)'
    BY <1>1, <1>2 DEF WillBuild
  <2> QED
    BY <1>1, <2>1 DEF Missing, Served
<1>5. Reading' /\ DownAsked'
  BY <1>1, <1>2 DEF Reading, Rebuilding, DownAsked
<1> QED
  BY <1>2, <1>3, <1>4, <1>5

(* A hot-add registers its row, or finds no application to register it with;
   then a reload is to come, or no device is enabled. *)
LEMMA HotServes ==
  ASSUME TypeInv, RestoreInv, ServeInv, NEW p \in Points, HotStep(p) PROVE ServeInv'
<1> USE DEF ServeInv
<1>1. UNCHANGED <<db, unused, enabled, up, reload>> /\ Served' = Served /\ Ahead' = Ahead
      /\ Served \subseteq Points
  BY DEF HotStep, StartHotAdd, AcquireHotAdd, dbVars, Served, Ahead, TypeInv, TypeOK
<1>2. Reading' /\ DownAsked'
  BY <1>1 DEF Reading, DownAsked
<1>3. ASSUME hot' = [hot EXCEPT ![p] = "idle"], AddObject(p), p \in Served \/ Ahead
      PROVE  Extra' /\ Missing'
  <2>1. hot'[p] = "idle" /\ \A q \in Points \ {p} : hot'[q] = hot[q]
    BY <1>3 DEF TypeInv, TypeOK
  <2>2. \A q \in Served, s \in Reloads : WillBuild(s, q) => WillBuild(s, q)'
    BY <1>1 DEF WillBuild
  <2>3. CASE up
    <3>1. \A q \in Points : present'[q] # "none" <=> present[q] # "none" \/ q = p
      BY <1>3, <2>3, RegisterFills DEF AddObject
    <3>2. Extra'
      BY <1>1, <1>3, <3>1 DEF Extra
    <3>3. Missing'
      BY <1>1, <2>1, <2>2, <3>1 DEF Missing
    <3> QED
      BY <3>2, <3>3
  <2>4. CASE ~up
    <3>1. present' = present
      BY <1>3, <2>4 DEF AddObject
    <3>2. Extra'
      BY <1>1, <3>1 DEF Extra
    <3>3. ASSUME NEW q \in Served PROVE \E s \in Reloads : WillBuild(s, q)'
      <4>1. PICK s \in Reloads : reload[s].pc \in {"started", "waiting", "starting"}
        BY <2>4, <3>3 DEF DownAsked, Served
      <4> QED
        BY <1>1, <4>1 DEF WillBuild
    <3>4. Missing'
      BY <1>1, <3>3 DEF Missing
    <3> QED
      BY <3>2, <3>4
  <2> QED
    BY <2>3, <2>4
<1>4. CASE StartHotAdd(p)
  <2>1. hot[p] = "started" /\ p \in Served /\ ~Queued(p) /\ p \notin unused /\ OnceQueued
    BY <1>4 DEF StartHotAdd, HotServed, LockExact
  <2>2. CASE up /\ ~LockFree
    <3>1. hot' = [hot EXCEPT ![p] = "waiting"] /\ lock' = Append(lock, p) /\ UNCHANGED present
      BY <1>4, <2>2 DEF StartHotAdd
    <3>2. hot'[p] = "waiting" /\ \A q \in Points \ {p} : hot'[q] = hot[q]
      BY <3>1 DEF TypeInv, TypeOK
    <3>3. /\ OnceQueued' /\ \A s : Queued(s)' <=> Queued(s) \/ s = p
          /\ \A r, s : Precedes(r, s) => Precedes(r, s)'
      BY <2>1, <3>1, Enqueue
    <3>4. LockExact'
      BY <1>1, <3>2, <3>3, PointsAssumption DEF LockExact
    <3>5. \A q : Behind(q) => Behind(q)'
      BY <1>1, <3>3 DEF Behind
    <3>6. HotServed'
      BY <1>1, <2>1, <3>2, <3>5 DEF HotServed, TypeInv, TypeOK
    <3>7. Extra' /\ Missing'
      BY <1>1, <3>1, <3>2 DEF Extra, Missing, WillBuild
    <3> QED
      BY <1>2, <3>4, <3>6, <3>7
  <2>3. CASE ~(up /\ ~LockFree)
    <3>1. hot' = [hot EXCEPT ![p] = "idle"] /\ AddObject(p) /\ UNCHANGED lock
      BY <1>4, <2>3 DEF StartHotAdd
    <3>2. hot'[p] = "idle" /\ \A q \in Points \ {p} : hot'[q] = hot[q]
      BY <3>1 DEF TypeInv, TypeOK
    <3>3. LockExact'
      BY <1>1, <2>1, <3>1, <3>2 DEF LockExact, OnceQueued, Queued
    <3>4. HotServed'
      BY <1>1, <3>1, <3>2 DEF HotServed, Behind, Precedes, TypeInv, TypeOK
    <3> QED
      BY <1>2, <1>3, <2>1, <3>1, <3>3, <3>4
  <2> QED
    BY <2>2, <2>3
<1>5. CASE AcquireHotAdd(p)
  <2>1. /\ hot[p] = "waiting" /\ hot' = [hot EXCEPT ![p] = "idle"] /\ AddObject(p)
        /\ lock # <<>> /\ p = Head(lock) /\ lock' = Tail(lock) /\ OnceQueued
    BY <1>5 DEF AcquireHotAdd, Holds, LockExact
  <2>2. hot'[p] = "idle" /\ \A q \in Points \ {p} : hot'[q] = hot[q]
    BY <2>1 DEF TypeInv, TypeOK
  <2>3. /\ OnceQueued' /\ \A s : Queued(s)' <=> Queued(s) /\ s # p
        /\ \A r, s : Precedes(r, s) /\ r # p => Precedes(r, s)'
    BY <2>1, Dequeue
  <2>4. LockExact'
    BY <1>1, <2>2, <2>3, PointsAssumption DEF LockExact
  <2>5. \A q \in Points \ {p} : Behind(q) => Behind(q)'
    BY <1>1, <2>3 DEF Behind
  <2>6. HotServed'
    BY <1>1, <2>2, <2>5 DEF HotServed, TypeInv, TypeOK
  <2>7. p \in Served \/ Ahead
    BY <2>1 DEF HotServed, Behind, Ahead
  <2> QED
    BY <1>2, <1>3, <2>1, <2>4, <2>6, <2>7
<1> QED
  BY <1>4, <1>5 DEF HotStep

(* A write that changes the value of a registered object. *)
LEMMA ValueKept ==
  ASSUME TypeInv, NEW p \in Points, NEW q, (present[p] # "none" /\ q = "live") \/ q = present[p],
         present' = [present EXCEPT ![p] = q]
  PROVE  \A s \in Points : present'[s] = "none" <=> present[s] = "none"
<1>1. present'[p] = q /\ \A s \in Points \ {p} : present'[s] = present[s]
  BY DEF TypeInv, TypeOK
<1> QED
  BY <1>1

(* The writes and the ticks register nothing and lose nothing. *)
LEMMA WritesKeepPresent ==
  ASSUME TypeInv, RestoreInv,
         TickStep \/ (\E w \in Writes : WriteStep(w)) \/ (\E p \in Points : SetManualValue(p))
  PROVE  \A s \in Points : present'[s] = "none" <=> present[s] = "none"
<1> USE DEF RestoreInv, RegisteredInv
<1>1. CASE present' = present
  BY <1>1
<1>2. ASSUME NEW w \in Writes, UpdateWrite(w) \/ EndPriorityWrite(w)
      PROVE  \A s \in Points : present'[s] = "none" <=> present[s] = "none"
  <2> DEFINE p == write[w].point
             live == write[w].object = "current" /\ (UpdateWrite(w) \/ p \in db)
             q == IF live THEN "live" ELSE present[p]
  <2>1. p \in Points
    BY DEF TypeInv, TypeOK, WriteCall
  <2>2. present' = [present EXCEPT ![p] = q]
    <3>1. CASE UpdateWrite(w)
      BY <3>1 DEF UpdateWrite
    <3>2. CASE EndPriorityWrite(w)
      BY <3>2 DEF EndPriorityWrite, UpdateWrite
    <3> QED
      BY <1>2, <3>1, <3>2
  <2>3. (present[p] # "none" /\ q = "live") \/ q = present[p]
    BY DEF WritePresent
  <2> HIDE DEF p, q
  <2> QED
    BY <2>1, <2>2, <2>3, ValueKept
<1>3. ASSUME NEW p \in Points, SetManualValue(p) \/ TickObject(p)
      PROVE  \A s \in Points : present'[s] = "none" <=> present[s] = "none"
  <2> DEFINE live == objects[p] = "current" /\ (SetManualValue(p) \/ p \in tick.rows)
             q == IF live THEN "live" ELSE present[p]
  <2>1. present' = [present EXCEPT ![p] = q]
    <3>1. CASE SetManualValue(p)
      BY <3>1 DEF SetManualValue
    <3>2. CASE TickObject(p)
      BY <3>2 DEF TickObject, SetManualValue
    <3> QED
      BY <1>3, <3>1, <3>2
  <2>2. (present[p] # "none" /\ q = "live") \/ q = present[p]
    BY DEF CurrentPresent
  <2> HIDE DEF q
  <2> QED
    BY <2>1, <2>2, ValueKept
<1>4. CASE TickStep
  BY <1>1, <1>3, <1>4 DEF TickStep, StartTick, BeginLoop, TickStore, EndTick
<1>5. ASSUME NEW w \in Writes, WriteStep(w)
      PROVE  \A s \in Points : present'[s] = "none" <=> present[s] = "none"
  BY <1>1, <1>2, <1>5 DEF WriteStep, StartWrite, StartPriorityWrite, TakeObject, StoreWrite, InstallWrite
<1> QED
  BY <1>3, <1>4, <1>5

(* Every step keeps what the table owes the database. *)
LEMMA NextServes ==
  ASSUME TypeInv, RestoreInv, ServeInv, [Next]_vars PROVE ServeInv'
<1>1. CASE TickStep \/ (\E w \in Writes : WriteStep(w)) \/ (\E p \in Points : SetManualValue(p))
  <2>1. UNCHANGED <<db, enabled, unused, up, lock, reload, hot>>
    BY <1>1 DEF TickStep, StartTick, BeginLoop, TickObject, TickStore, EndTick, WriteStep, StartWrite,
                StartPriorityWrite, TakeObject, StoreWrite, InstallWrite, UpdateWrite, EndPriorityWrite,
                SetManualValue, dbVars
  <2> QED
    BY <1>1, <2>1, WritesKeepPresent, CalmServes
<1>2. CASE Edit
  BY <1>2, CreateServes, AskServes DEF Edit, DeleteRow, ToggleDevice, ChangeBehavior, OtherEdit
<1>3. ASSUME NEW r \in Reloads, ReloadStep(r) PROVE ServeInv'
  BY <1>3, StartServes, AcquireServes, CloseServes, MakeServes, ReadServes, BuildServes, EndServes
     DEF ReloadStep
<1>4. ASSUME NEW p \in Points, HotStep(p) PROVE ServeInv'
  BY <1>4, HotServes
<1>5. CASE UNCHANGED vars
  BY <1>5, CalmServes DEF vars
<1> QED
  BY <1>1, <1>2, <1>3, <1>4, <1>5 DEF Next

(* Every step keeps what is known of writes that were taken.               *)
LEMMA NextTakes == ASSUME TypeInv, WriteTook, [Next]_vars PROVE WriteTook'
<1>1. CASE UNCHANGED write
  BY <1>1 DEF WriteTook
<1>2. ASSUME NEW r \in Reloads, NEW owed, Teardown(r, owed) PROVE WriteTook'
  <2>1. \/ UNCHANGED write
        \/ write' = [w \in Writes |-> IF write[w].object = "current"
                                     THEN [write[w] EXCEPT !.object = "stale"] ELSE write[w]]
    BY <1>2 DEF Teardown
  <2> QED
    BY <2>1 DEF WriteTook, TypeInv, TypeOK, WriteCall
<1>3. ASSUME NEW w \in Writes, NEW p \in Points, NEW label, TakeObject(w, p, label) PROVE WriteTook'
  BY <1>3 DEF TakeObject, Keys, WriteTook, TypeInv, TypeOK
<1>4. ASSUME NEW w \in Writes, StoreWrite(w) \/ InstallWrite(w) \/ UpdateWrite(w) \/ EndPriorityWrite(w)
      PROVE  WriteTook'
  <2>1. \A v \in Writes \ {w} : write'[v] = write[v]
    BY <1>4 DEF StoreWrite, InstallWrite, UpdateWrite, EndPriorityWrite, TypeInv, TypeOK
  <2>2. \/ write'[w].pc \in {"idle", "updating"}
        \/ write[w].pc = "storing" /\ write'[w].object = write[w].object
    <3>1. CASE StoreWrite(w)
      BY <3>1 DEF StoreWrite, IdleWrite, TypeInv, TypeOK, WriteCall
    <3>2. CASE InstallWrite(w)
      BY <3>2 DEF InstallWrite, TypeInv, TypeOK, WriteCall
    <3>3. CASE UpdateWrite(w) \/ EndPriorityWrite(w)
      BY <3>3 DEF UpdateWrite, EndPriorityWrite, IdleWrite, TypeInv, TypeOK
    <3> QED
      BY <1>4, <3>1, <3>2, <3>3
  <2> QED
    BY <2>1, <2>2 DEF WriteTook
<1>5. CASE UNCHANGED vars
  BY <1>1, <1>5 DEF vars
<1>6. CASE Edit \/ TickStep \/ \E p \in Points : HotStep(p) \/ SetManualValue(p)
  BY <1>1, <1>6 DEF Edit, CreateRow, DeleteRow, ToggleDevice, ChangeBehavior, OtherEdit, AskReload,
     TickStep, StartTick, BeginLoop, TickObject, TickStore, EndTick, HotStep, StartHotAdd, AcquireHotAdd,
     SetManualValue
<1>7. ASSUME NEW r \in Reloads, ReloadStep(r) PROVE WriteTook'
  BY <1>1, <1>2, <1>7 DEF ReloadStep, StartReload, AcquireReload, CloseApp, MakeApp, ReadRows,
     CreateObjects, FinishReload
<1>8. ASSUME NEW w \in Writes, WriteStep(w) PROVE WriteTook'
  BY <1>3, <1>4, <1>8 DEF WriteStep, StartWrite, StartPriorityWrite
<1> QED
  BY <1>5, <1>6, <1>7, <1>8 DEF Next

(* The table has the keys the application has, until a teardown happens
   inside a write_object call. *)
LEMMA NextTables ==
  ASSUME TypeInv, RestoreInv, StaleInv, WriteTook, Tabled, [Next]_vars PROVE Tabled'
<1>1. ASSUME UNCHANGED <<objects, straddled>>,
             \A s \in Points : present'[s] = "none" <=> present[s] = "none"
      PROVE  Tabled'
  BY <1>1 DEF Tabled
<1>2. ASSUME NEW rows \in SUBSET Points, NEW rawRows, Register(rows, rawRows), UNCHANGED straddled
      PROVE  Tabled'
  BY <1>2, RegisterFills DEF Tabled
<1>3. ASSUME NEW r \in Reloads, NEW owed, Teardown(r, owed) PROVE Tabled'
  BY <1>3 DEF Teardown, ClearedTable, Tabled
<1>4. CASE TickStep \/ (\E w \in Writes : WriteStep(w)) \/ (\E p \in Points : SetManualValue(p))
  <2>1. \A s \in Points : present'[s] = "none" <=> present[s] = "none"
    BY <1>4, WritesKeepPresent
  <2>2. ASSUME NEW w \in Writes, InstallWrite(w) PROVE Tabled'
    <3> SUFFICES ASSUME ~straddled PROVE Tabled'
      BY <2>2 DEF InstallWrite, Tabled
    <3>1. /\ write[w].pc = "stored" /\ write[w].point \in Points /\ write[w].object \in {"none", "current"}
          /\ objects' = [objects EXCEPT ![write[w].point] = write[w].object]
          /\ UNCHANGED <<present, straddled>>
      BY <2>2 DEF InstallWrite, StaleInv, TypeInv, TypeOK, WriteCall
    <3>2. write[w].object = "current"
      BY <3>1 DEF WriteTook
    <3> QED
      BY <3>1, <3>2 DEF Tabled, RestoreInv, RegisteredInv, WritePresent, TypeInv, TypeOK
  <2>3. (\E w \in Writes : InstallWrite(w)) \/ UNCHANGED <<objects, straddled>>
    BY <1>4 DEF TickStep, StartTick, BeginLoop, TickObject, TickStore, EndTick, WriteStep, StartWrite,
                StartPriorityWrite, TakeObject, StoreWrite, UpdateWrite, EndPriorityWrite, SetManualValue
  <2> QED
    BY <1>1, <2>1, <2>2, <2>3
<1>5. CASE Edit
  BY <1>1, <1>5 DEF Edit, CreateRow, DeleteRow, ToggleDevice, ChangeBehavior, OtherEdit, AskReload
<1>6. ASSUME NEW r \in Reloads, ReloadStep(r) PROVE Tabled'
  <2>1. ASSUME StartReload(r) PROVE Tabled'
    <3>1. CASE LockFree
      BY <1>3, <2>1, <3>1 DEF StartReload
    <3>2. CASE ~LockFree
      BY <1>1, <2>1, <3>2 DEF StartReload
    <3> QED
      BY <3>1, <3>2
  <2>2. ASSUME CreateObjects(r) PROVE Tabled'
    BY <1>2, <2>2 DEF CreateObjects, TypeInv, TypeOK, ReloadTask
  <2> QED
    BY <1>1, <1>3, <1>6, <2>1, <2>2 DEF ReloadStep, AcquireReload, CloseApp, MakeApp, ReadRows, FinishReload
<1>7. ASSUME NEW p \in Points, HotStep(p) PROVE Tabled'
  <2>1. UNCHANGED straddled /\ (Register({p}, {}) \/ UNCHANGED <<objects, present>>)
    BY <1>7 DEF HotStep, StartHotAdd, AcquireHotAdd, AddObject
  <2> QED
    BY <1>1, <1>2, <2>1
<1>8. CASE UNCHANGED vars
  BY <1>1, <1>8 DEF vars
<1> QED
  BY <1>4, <1>5, <1>6, <1>7, <1>8 DEF Next

(* When no reload, hot-add or write is left, the running application holds
   exactly the enabled rows, and so does the table unless a teardown happened
   inside a write_object call: for any devices, points and edits, and however
   the edits, reloads, hot-adds, writes and ticks interleave. *)
THEOREM ServesRows == Spec => []ServesDatabase
<1>1. Init => ServeInv /\ WriteTook /\ Tabled
  <2> SUFFICES ASSUME Init PROVE ServeInv /\ WriteTook /\ Tabled
    OBVIOUS
  <2>1. InitialRows \subseteq Points /\ Served = InitialRows
    BY PointsAssumption DEF Init, Served
  <2>2. LockExact
    BY DEF Init, LockExact, OnceQueued, Queued
  <2>3. HotServed
    BY DEF Init, HotServed
  <2>4. Extra /\ Missing
    BY <2>1 DEF Init, Extra, Missing
  <2>5. Reading /\ DownAsked
    BY DEF Init, Reading, DownAsked, IdleReload
  <2>6. WriteTook /\ Tabled
    BY DEF Init, WriteTook, IdleWrite, Tabled
  <2> QED
    BY <2>2, <2>3, <2>4, <2>5, <2>6 DEF ServeInv
<1>2. TypeInv /\ RestoreInv /\ StaleInv /\ ServeInv /\ WriteTook /\ Tabled /\ [Next]_vars
        => (ServeInv /\ WriteTook /\ Tabled)'
  BY NextServes, NextTakes, NextTables
<1>3. TypeInv /\ ServeInv /\ Tabled => ServesDatabase
  <2> SUFFICES ASSUME TypeInv, ServeInv, Tabled, Quiet
               PROVE  /\ {p \in Points : present[p] # "none"} = Served
                      /\ straddled \/ Keys = Served
    BY DEF ServesDatabase
  <2>1. ~Ahead
    BY DEF Quiet, Ahead
  <2>2. Served \subseteq Points /\ \A p \in Points : hot[p] = "idle"
    BY DEF Served, TypeInv, TypeOK, Quiet
  <2>3. \A p \in Points : present[p] # "none" <=> p \in Served
    BY <2>1, <2>2 DEF ServeInv, Extra, Missing, Quiet, WillBuild
  <2>4. ~straddled => \A p \in Points : objects[p] # "none" <=> p \in Served
    BY <2>3 DEF Tabled
  <2> QED
    BY <2>2, <2>3, <2>4 DEF Keys
<1> QED
  BY <1>1, <1>2, <1>3, TypeInvariant, RestoreInvariant, StaleInvariant, PTL DEF Spec
===========================================================================
