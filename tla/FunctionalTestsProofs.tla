----------------------- MODULE FunctionalTestsProofs -----------------------
(***************************************************************************)
(* Proofs about FunctionalTests for any sets of runs, tests and points,    *)
(* any step limit and any faults.                                          *)
(***************************************************************************)
EXTENDS FunctionalTests, TLAPS

---------------------------------------------------------------------------
(* Sequences of writes.                                                    *)

(* Appending a write adds its point. *)
LEMMA PointsInAppend ==
  ASSUME NEW s \in Seq(Points), NEW p \in Points
  PROVE  /\ Append(s, p) \in Seq(Points)
         /\ PointsIn(Append(s, p)) = PointsIn(s) \cup {p}
<1>1. /\ Append(s, p) \in Seq(Points)
      /\ Len(Append(s, p)) = Len(s) + 1
      /\ \A i \in 1..Len(s) : Append(s, p)[i] = s[i]
      /\ Append(s, p)[Len(s) + 1] = p
      /\ Len(s) \in Nat
  OBVIOUS
<1>2. /\ DOMAIN s = 1..Len(s)
      /\ DOMAIN Append(s, p) = 1..(Len(s) + 1)
  BY <1>1
<1>3. ASSUME NEW q \in PointsIn(Append(s, p))
      PROVE  q \in PointsIn(s) \cup {p}
  <2>1. PICK i \in 1..(Len(s) + 1) : q = Append(s, p)[i]
    BY <1>2 DEF PointsIn
  <2>2. CASE i \in 1..Len(s)
    BY <1>1, <1>2, <2>1, <2>2 DEF PointsIn
  <2>3. CASE i = Len(s) + 1
    BY <1>1, <2>1, <2>3
  <2>4. QED BY <1>1, <2>1, <2>2, <2>3
<1>4. ASSUME NEW q \in PointsIn(s)
      PROVE  q \in PointsIn(Append(s, p))
  <2>1. PICK i \in 1..Len(s) : q = s[i]
    BY <1>2 DEF PointsIn
  <2>2. i \in 1..(Len(s) + 1) /\ Append(s, p)[i] = q
    BY <1>1, <2>1
  <2>3. QED BY <1>2, <2>2 DEF PointsIn
<1>5. p \in PointsIn(Append(s, p))
  <2>1. Len(s) + 1 \in 1..(Len(s) + 1)
    BY <1>1
  <2>2. QED BY <1>1, <1>2, <2>1 DEF PointsIn
<1>6. QED BY <1>1, <1>3, <1>4, <1>5

Front(s) == SubSeq(s, 1, Len(s) - 1)

(* Removing the last write removes at most its point. *)
LEMMA PointsInFront ==
  ASSUME NEW s \in Seq(Points), s # <<>>
  PROVE  /\ Front(s) \in Seq(Points)
         /\ s[Len(s)] \in PointsIn(s)
         /\ PointsIn(Front(s)) \subseteq PointsIn(s)
         /\ PointsIn(s) \subseteq PointsIn(Front(s)) \cup {s[Len(s)]}
<1>1. Len(s) \in Nat \ {0} /\ DOMAIN s = 1..Len(s)
  OBVIOUS
<1>2. /\ Front(s) \in Seq(Points)
      /\ Len(Front(s)) = Len(s) - 1
      /\ \A i \in 1..(Len(s) - 1) : Front(s)[i] = s[i]
  BY <1>1 DEF Front
<1>3. DOMAIN Front(s) = 1..(Len(s) - 1)
  BY <1>1, <1>2
<1>4. Len(s) \in 1..Len(s)
  BY <1>1
<1>5. ASSUME NEW q \in PointsIn(Front(s))
      PROVE  q \in PointsIn(s)
  <2>1. PICK i \in 1..(Len(s) - 1) : q = Front(s)[i]
    BY <1>3 DEF PointsIn
  <2>2. i \in 1..Len(s) /\ q = s[i]
    BY <1>1, <1>2, <2>1
  <2>3. QED BY <1>1, <2>2 DEF PointsIn
<1>6. ASSUME NEW q \in PointsIn(s), q # s[Len(s)]
      PROVE  q \in PointsIn(Front(s))
  <2>1. PICK i \in 1..Len(s) : q = s[i]
    BY <1>1 DEF PointsIn
  <2>2. i \in 1..(Len(s) - 1)
    BY <1>1, <1>6, <2>1
  <2>3. QED BY <1>2, <1>3, <2>1, <2>2 DEF PointsIn
<1>7. s[Len(s)] \in PointsIn(s)
  BY <1>1, <1>4 DEF PointsIn
<1>8. QED BY <1>2, <1>5, <1>6, <1>7

(* The points of a sequence of writes are points; no write, no point. *)
LEMMA PointsInType ==
  /\ PointsIn(<<>>) = {}
  /\ \A s \in Seq(Points) : PointsIn(s) \subseteq Points
<1>1. PointsIn(<<>>) = {}
  BY DEF PointsIn
<1>2. ASSUME NEW s \in Seq(Points)
      PROVE  PointsIn(s) \subseteq Points
  BY DEF PointsIn
<1>3. QED BY <1>1, <1>2

---------------------------------------------------------------------------
(* Type correctness.                                                       *)

(* Ending the walk keeps the types. *)
LEMMA EndsType ==
  ASSUME TypeOK, NEW r \in Runs, NEW state \in {"finished", "cancelled", "error"},
         Ends(r, state)
  PROVE  TypeOK'
<1> USE DEF TypeOK, Active, Preparing, Walking, GivingBack, Goto, Value
<1>1. rows' \in [Runs -> Active \cup {"none", "finished", "cancelled", "error"}]
  BY DEF Ends
<1>2. pc' \in [Runs -> Preparing \cup Walking \cup GivingBack \cup {"idle", "done"}]
  BY DEF Ends
<1>3. steps' \in [Runs -> 0..MaxSteps]
  BY StepsAssumption DEF Ends
<1>4. cancelled' \subseteq Runs /\ stranded' \subseteq Runs
  BY DEF Ends
<1>5. QED BY <1>1, <1>2, <1>3, <1>4 DEF Ends

(* The types hold at the start and every step keeps them. *)
LEMMA TypeHolds ==
  /\ Init => TypeOK
  /\ TypeOK /\ [Next]_vars => TypeOK'
<1>1. NoCache \in [Points -> Value] /\ NoTarget \in Points
  BY PointsAssumption DEF NoCache, NoTarget, Value
<1>2. Init => TypeOK
  <2> SUFFICES ASSUME Init PROVE TypeOK
    OBVIOUS
  <2>1. (CHOOSE t \in Tests : TRUE) \in Tests
    BY PointsAssumption
  <2>2. "base" \in Value /\ "base" \notin Runs
    BY RunsAssumption DEF Value
  <2>3. QED
    BY <1>1, <2>1, <2>2, StepsAssumption DEF Init, TypeOK, Active
<1>3. TypeOK /\ [Next]_vars => TypeOK'
  <2> SUFFICES ASSUME TypeOK, [Next]_vars
               PROVE  TypeOK'
    OBVIOUS
  <2> USE <1>1, RunsAssumption
  <2> USE DEF TypeOK, Active, Preparing, Walking, GivingBack, Goto, Value, runVars, history
  <2>1. ASSUME NEW r \in Runs, NEW t \in Tests, CheckActive(r, t)
        PROVE  TypeOK'
    BY <2>1 DEF CheckActive
  <2>2. ASSUME NEW r \in Runs, BuildCache(r)
        PROVE  TypeOK'
    <3> DEFINE snapshot ==
          [p \in Points |-> IF p \in SetPoints(r) \ Commandable THEN stored[p] ELSE "base"]
    <3>1. snapshot \in [Points -> Value]
      OBVIOUS
    <3>2. cache' \in [Runs -> [Points -> Value]]
      BY <2>2, <3>1 DEF BuildCache
    <3>3. SetPoints(r) \subseteq Points
      BY PointsAssumption DEF SetPoints
    <3>4. poisoned' \subseteq Points
      BY <2>2, <3>3 DEF BuildCache
    <3>5. pc' \in [Runs -> Preparing \cup Walking \cup GivingBack \cup {"idle", "done"}]
      BY <2>2 DEF BuildCache
    <3>6. QED BY <2>2, <3>2, <3>4, <3>5 DEF BuildCache
  <2>3. ASSUME NEW r \in Runs, CreateRow(r)
        PROVE  TypeOK'
    BY <2>3 DEF CreateRow
  <2>4. ASSUME NEW r \in Runs, MarkRunning(r)
        PROVE  TypeOK'
    <3>1. rows' \in [Runs -> Active \cup {"none", "finished", "cancelled", "error"}]
      BY <2>4 DEF MarkRunning
    <3>2. CASE Leave(r)
      BY <2>4, <3>1, <3>2, StepsAssumption DEF MarkRunning, Leave
    <3>3. CASE UNCHANGED <<steps, cache, writes, target, cancelled>>
      BY <2>4, <3>1, <3>3 DEF MarkRunning, Leave
    <3>4. QED BY <2>4, <3>2, <3>3 DEF MarkRunning
  <2>5. ASSUME NEW r \in Runs, Observe(r)
        PROVE  TypeOK'
    BY <2>5, StepsAssumption DEF Observe, NextStep
  <2>6. ASSUME NEW r \in Runs, Wait(r)
        PROVE  TypeOK'
    BY <2>6, StepsAssumption DEF Wait, NextStep
  <2>7. ASSUME NEW r \in Runs, WaitOver(r)
        PROVE  TypeOK'
    BY <2>7 DEF WaitOver
  <2>8. ASSUME NEW r \in Runs, NEW p \in Points, SetPriority(r, p)
        PROVE  TypeOK'
    <3>1. steps' \in [Runs -> 0..MaxSteps]
      BY <2>8, StepsAssumption DEF SetPriority, NextStep
    <3>2. Append(writes[r], p) \in Seq(Points)
      OBVIOUS
    <3>3. CASE Up
      <4>1. /\ stored' = [stored EXCEPT ![p] = r]
            /\ writes' = [writes EXCEPT ![r] = Append(writes[r], p)]
            /\ pc' = pc
            /\ contested' \subseteq Points
        BY <2>8, <3>3 DEF SetPriority, Store
      <4>2. stored' \in [Points -> Value] /\ writes' \in [Runs -> Seq(Points)]
        BY <3>2, <4>1
      <4>3. QED BY <2>8, <3>1, <4>1, <4>2 DEF SetPriority
    <3>4. CASE ~Up
      BY <2>8, <3>1, <3>4 DEF SetPriority
    <3>5. QED BY <3>3, <3>4
  <2>9. ASSUME NEW r \in Runs, NEW p \in Points, SetStored(r, p)
        PROVE  TypeOK'
    BY <2>9, StepsAssumption DEF SetStored, NextStep, Store
  <2>10. ASSUME NEW r \in Runs, SetLive(r)
        PROVE  TypeOK'
    <3>1. Append(writes[r], target[r]) \in Seq(Points)
      OBVIOUS
    <3>2. target' \in [Runs -> Points]
      BY <2>10 DEF SetLive
    <3>3. CASE Up
      <4>0. writes' = [writes EXCEPT ![r] = Append(writes[r], target[r])] /\ poisoned' = poisoned
        BY <2>10, <3>3 DEF SetLive
      <4>1. writes' \in [Runs -> Seq(Points)]
        BY <3>1, <4>0
      <4>2. pc' \in [Runs -> Preparing \cup Walking \cup GivingBack \cup {"idle", "done"}]
        BY <2>10, <3>3 DEF SetLive
      <4>3. QED BY <2>10, <3>2, <4>0, <4>1, <4>2 DEF SetLive
    <3>4. CASE ~Up
      BY <2>10, <3>2, <3>4 DEF SetLive
    <3>5. QED BY <3>3, <3>4
  <2>11. ASSUME NEW r \in Runs, Finish(r)
        PROVE  TypeOK'
    BY <2>11, EndsType DEF Finish
  <2>12. ASSUME NEW r \in Runs, TimeOut(r)
        PROVE  TypeOK'
    BY <2>12, EndsType DEF TimeOut
  <2>13. ASSUME NEW r \in Runs, SeeCancel(r)
        PROVE  TypeOK'
    BY <2>13, EndsType DEF SeeCancel
  <2>14. ASSUME NEW r \in Runs, Abort(r)
        PROVE  TypeOK'
    BY <2>14, EndsType DEF Abort
  <2>15. ASSUME NEW r \in Runs, Raise(r)
        PROVE  TypeOK'
    BY <2>15, EndsType DEF Raise
  <2>16. ASSUME NEW r \in Runs, Relinquish(r)
        PROVE  TypeOK'
    BY <2>16 DEF Relinquish, Store, Restoring
  <2>17. ASSUME NEW r \in Runs, RestoreManual(r)
        PROVE  TypeOK'
    <3>1. LastWrite(r) \in Points
      BY <2>17, PointsInFront, PointsInType DEF RestoreManual, Restoring, LastWrite
    <3>2. cache[r][LastWrite(r)] \in Value
      BY <3>1
    <3>3. stored' \in [Points -> Value] /\ poisoned' \subseteq Points
      BY <2>17, <3>1, <3>2 DEF RestoreManual, Store
    <3>4. QED BY <2>17, <3>3 DEF RestoreManual
  <2>18. ASSUME NEW r \in Runs, RestoreBehavior(r)
        PROVE  TypeOK'
    BY <2>18 DEF RestoreBehavior
  <2>19. ASSUME NEW r \in Runs, TearDown(r)
        PROVE  TypeOK'
    <3>1. Wiped \in [Points -> Value]
      BY DEF Wiped
    <3>2. contested' \subseteq Points
      BY <2>19, PointsAssumption DEF TearDown
    <3>3. QED BY <2>19, <3>1, <3>2 DEF TearDown
  <2>20. ASSUME NEW r \in Runs, Rebuild(r)
        PROVE  TypeOK'
    BY <2>20 DEF Rebuild
  <2>21. ASSUME NEW r \in Runs, Report(r)
        PROVE  TypeOK'
    <3> DEFINE rest == Front(writes[r])
    <3>1. writes[r] # <<>> => rest \in Seq(Points) /\ PointsIn(rest) \subseteq Points
      BY PointsInFront, PointsInType
    <3>2. writes[r] = <<>> => rest = <<>>
      BY DEF Front
    <3>3. rest \in Seq(Points) /\ PointsIn(rest) \subseteq Points
      BY <3>1, <3>2, PointsInType
    <3>4. CASE Leave(r) /\ poisoned' = poisoned \cup PointsIn(rest)
      BY <2>21, <3>3, <3>4, StepsAssumption DEF Report, Leave
    <3>5. CASE /\ Goto(r, "restoring")
               /\ writes' = [writes EXCEPT ![r] = rest]
               /\ UNCHANGED <<steps, cache, target, cancelled, poisoned>>
      BY <2>21, <3>3, <3>5 DEF Report
    <3>6. QED BY <2>21, <3>4, <3>5 DEF Report, Front
  <2>22. ASSUME NEW r \in Runs, Done(r)
        PROVE  TypeOK'
    BY <2>22, StepsAssumption DEF Done, Leave
  <2>23. ASSUME NEW r \in Runs, Cancel(r)
        PROVE  TypeOK'
    BY <2>23 DEF Cancel
  <2>24. ASSUME NEW p \in Points, OperatorWrite(p)
        PROVE  TypeOK'
    BY <2>24 DEF OperatorWrite, Store
  <2>25. CASE EditTearDown
    BY <2>25 DEF EditTearDown, Wiped
  <2>26. CASE EditRebuild
    BY <2>26 DEF EditRebuild
  <2>27. CASE ToggleClock
    BY <2>27 DEF ToggleClock
  <2>28. CASE Crash
    <3>1. Wiped \in [Points -> Value]
      BY DEF Wiped
    <3>2. own' \in [Points -> Value \ Runs]
      BY <2>28 DEF Crash
    <3>3. pc' \in [Runs -> Preparing \cup Walking \cup GivingBack \cup {"idle", "done"}]
      BY <2>28 DEF Crash, Alive
    <3>4. QED BY <2>28, <3>1, <3>2, <3>3, StepsAssumption DEF Crash
  <2>29. CASE UNCHANGED vars
    BY <2>29 DEF vars, runVars, history
  <2>30. QED
    BY <2>1, <2>2, <2>3, <2>4, <2>5, <2>6, <2>7, <2>8, <2>9, <2>10, <2>11,
       <2>12, <2>13, <2>14, <2>15, <2>16, <2>17, <2>18, <2>19, <2>20, <2>21,
       <2>22, <2>23, <2>24, <2>25, <2>26, <2>27, <2>28, <2>29
       DEF Next, RunStep, Prepare, Walk, Restore
<1>4. QED BY <1>2, <1>3

(* Every variable keeps its type. *)
THEOREM TypeCorrect == Spec => []TypeOK
  BY TypeHolds, PTL DEF Spec

---------------------------------------------------------------------------
(* The rows and the guard of prepare_run.                                  *)

EarlyRows ==
  \A r \in Runs : /\ pc[r] \in Preparing \cup {"idle"} => rows[r] = "none"
                  /\ pc[r] = "scheduled" => rows[r] = "pending"

RowsInv == TypeOK /\ EarlyRows /\ RowsTrackTasks

(* RowsInv is inductive. *)
LEMMA RowsInvariant == Spec => []RowsInv
<1>1. Init => RowsInv
  <2>1. Init => TypeOK
    BY TypeHolds
  <2>2. Init => EarlyRows /\ RowsTrackTasks
    BY DEF Init, EarlyRows, RowsTrackTasks, Active, Walking
  <2>3. QED BY <2>1, <2>2 DEF RowsInv
<1>2. RowsInv /\ TypeOK' /\ [Next]_vars => RowsInv'
  <2> SUFFICES ASSUME RowsInv, TypeOK', [Next]_vars
               PROVE  RowsInv'
    OBVIOUS
  <2> USE DEF RowsInv, EarlyRows, RowsTrackTasks, TypeOK, Active, Preparing, Walking, GivingBack, Goto, runVars, history
  <2>1. ASSUME NEW r \in Runs, NEW t \in Tests, CheckActive(r, t)
        PROVE  RowsInv'
    BY <2>1 DEF CheckActive, ActiveRunExists
  <2>2. ASSUME NEW r \in Runs, BuildCache(r)
        PROVE  RowsInv'
    BY <2>2 DEF BuildCache
  <2>3. ASSUME NEW r \in Runs, CreateRow(r)
        PROVE  RowsInv'
    BY <2>3 DEF CreateRow
  <2>4. ASSUME NEW r \in Runs, MarkRunning(r)
        PROVE  RowsInv'
    <3>1. CASE Goto(r, "running") /\ rows' = [rows EXCEPT ![r] = "running"] /\ UNCHANGED stranded
      BY <2>4, <3>1 DEF MarkRunning
    <3>2. CASE Leave(r) /\ stranded' = stranded \cup {r} /\ UNCHANGED rows
      BY <2>4, <3>2 DEF MarkRunning, Leave
    <3>3. QED BY <2>4, <3>1, <3>2 DEF MarkRunning
  <2>5. ASSUME NEW r \in Runs, Observe(r)
        PROVE  RowsInv'
    BY <2>5 DEF Observe, NextStep
  <2>6. ASSUME NEW r \in Runs, Wait(r)
        PROVE  RowsInv'
    BY <2>6 DEF Wait, NextStep
  <2>7. ASSUME NEW r \in Runs, WaitOver(r)
        PROVE  RowsInv'
    BY <2>7 DEF WaitOver
  <2>8. ASSUME NEW r \in Runs, NEW p \in Points, SetPriority(r, p)
        PROVE  RowsInv'
    <3>1. pc[r] = "running" /\ rows' = rows /\ stranded' = stranded
      BY <2>8 DEF SetPriority, NextStep
    <3>2. pc' = pc \/ pc' = [pc EXCEPT ![r] = "failed"]
      BY <2>8 DEF SetPriority
    <3>3. CASE pc' = pc
      BY <3>1, <3>3
    <3>4. CASE pc' = [pc EXCEPT ![r] = "failed"]
      BY <3>1, <3>4
    <3>5. QED BY <3>2, <3>3, <3>4
  <2>9. ASSUME NEW r \in Runs, NEW p \in Points, SetStored(r, p)
        PROVE  RowsInv'
    BY <2>9 DEF SetStored, NextStep
  <2>10. ASSUME NEW r \in Runs, SetLive(r)
        PROVE  RowsInv'
    <3>1. pc[r] = "setting" /\ rows' = rows /\ stranded' = stranded
      BY <2>10 DEF SetLive
    <3>2. pc' = [pc EXCEPT ![r] = "running"] \/ pc' = [pc EXCEPT ![r] = "failed"]
      BY <2>10 DEF SetLive
    <3>3. CASE pc' = [pc EXCEPT ![r] = "running"]
      BY <3>1, <3>3
    <3>4. CASE pc' = [pc EXCEPT ![r] = "failed"]
      BY <3>1, <3>4
    <3>5. QED BY <3>2, <3>3, <3>4
  <2>11. ASSUME NEW r \in Runs, Finish(r)
        PROVE  RowsInv'
    BY <2>11 DEF Finish, Ends
  <2>12. ASSUME NEW r \in Runs, TimeOut(r)
        PROVE  RowsInv'
    BY <2>12 DEF TimeOut, Ends
  <2>13. ASSUME NEW r \in Runs, SeeCancel(r)
        PROVE  RowsInv'
    BY <2>13 DEF SeeCancel, Ends
  <2>14. ASSUME NEW r \in Runs, Abort(r)
        PROVE  RowsInv'
    BY <2>14 DEF Abort, Ends
  <2>15. ASSUME NEW r \in Runs, Raise(r)
        PROVE  RowsInv'
    BY <2>15 DEF Raise, Ends
  <2>16. ASSUME NEW r \in Runs, Relinquish(r)
        PROVE  RowsInv'
    BY <2>16 DEF Relinquish, Restoring
  <2>17. ASSUME NEW r \in Runs, RestoreManual(r)
        PROVE  RowsInv'
    BY <2>17 DEF RestoreManual, Restoring
  <2>18. ASSUME NEW r \in Runs, RestoreBehavior(r)
        PROVE  RowsInv'
    <3>1. /\ pc[r] = "restoring" /\ UNCHANGED <<rows, stranded>>
          /\ pc' = [pc EXCEPT ![r] = "reloading"] \/ pc' = [pc EXCEPT ![r] = "reporting"]
      BY <2>18 DEF RestoreBehavior, Restoring
    <3>2. CASE pc' = [pc EXCEPT ![r] = "reloading"]
      BY <3>1, <3>2
    <3>3. CASE pc' = [pc EXCEPT ![r] = "reporting"]
      BY <3>1, <3>3
    <3>4. QED BY <3>1, <3>2, <3>3
  <2>19. ASSUME NEW r \in Runs, TearDown(r)
        PROVE  RowsInv'
    BY <2>19 DEF TearDown
  <2>20. ASSUME NEW r \in Runs, Rebuild(r)
        PROVE  RowsInv'
    BY <2>20 DEF Rebuild
  <2>21. ASSUME NEW r \in Runs, Report(r)
        PROVE  RowsInv'
    <3>1. pc[r] = "reporting" /\ rows' = rows /\ stranded' = stranded
      BY <2>21 DEF Report
    <3>2. pc' = [pc EXCEPT ![r] = "restoring"] \/ pc' = [pc EXCEPT ![r] = "done"]
      BY <2>21 DEF Report, Leave
    <3>3. CASE pc' = [pc EXCEPT ![r] = "restoring"]
      BY <3>1, <3>3
    <3>4. CASE pc' = [pc EXCEPT ![r] = "done"]
      BY <3>1, <3>4
    <3>5. QED BY <3>2, <3>3, <3>4
  <2>22. ASSUME NEW r \in Runs, Done(r)
        PROVE  RowsInv'
    BY <2>22 DEF Done, Leave
  <2>23. ASSUME NEW r \in Runs, Cancel(r)
        PROVE  RowsInv'
    BY <2>23 DEF Cancel
  <2>24. ASSUME NEW p \in Points, OperatorWrite(p)
        PROVE  RowsInv'
    BY <2>24 DEF OperatorWrite
  <2>25. CASE EditTearDown
    BY <2>25 DEF EditTearDown
  <2>26. CASE EditRebuild
    BY <2>26 DEF EditRebuild
  <2>27. CASE ToggleClock
    BY <2>27 DEF ToggleClock
  <2>28. CASE Crash
    BY <2>28 DEF Crash, Alive
  <2>29. CASE UNCHANGED vars
    BY <2>29 DEF vars, runVars, history
  <2>30. QED
    BY <2>1, <2>2, <2>3, <2>4, <2>5, <2>6, <2>7, <2>8, <2>9, <2>10, <2>11,
       <2>12, <2>13, <2>14, <2>15, <2>16, <2>17, <2>18, <2>19, <2>20, <2>21,
       <2>22, <2>23, <2>24, <2>25, <2>26, <2>27, <2>28, <2>29
       DEF Next, RunStep, Prepare, Walk, Restore
<1>3. QED BY <1>1, <1>2, TypeCorrect, PTL DEF Spec

(* The row of a run is active exactly while its walk is not over, unless a
   fault stranded it. *)
THEOREM RowsTracked == Spec => []RowsTrackTasks
<1>1. RowsInv => RowsTrackTasks
  BY DEF RowsInv
<1>2. QED BY <1>1, RowsInvariant, PTL

Occupies(r) == pc[r] \in Preparing \/ rows[r] \in Active

Calm ==
  /\ \A r \in Runs : Occupies(r)' => Occupies(r)
  /\ testOf' = testOf /\ raced' = raced

NewlyChecked == \E r \in Runs : \E t \in Tests : CheckActive(r, t)

(* Only CheckActive makes a run occupy its test. *)
LEMMA CalmSteps == RowsInv /\ [Next]_vars => NewlyChecked \/ Calm
<1>1. QED
  <2> SUFFICES ASSUME RowsInv, [Next]_vars
               PROVE  NewlyChecked \/ Calm
    OBVIOUS
  <2> USE DEF RowsInv, EarlyRows, TypeOK, Active, Preparing, Goto, runVars, history, Calm, Occupies, NewlyChecked
  <2>1. ASSUME NEW r \in Runs, NEW t \in Tests, CheckActive(r, t)
        PROVE  NewlyChecked \/ Calm
    BY <2>1
  <2>2. ASSUME NEW r \in Runs, BuildCache(r)
        PROVE  NewlyChecked \/ Calm
    BY <2>2 DEF BuildCache
  <2>3. ASSUME NEW r \in Runs, CreateRow(r)
        PROVE  NewlyChecked \/ Calm
    BY <2>3 DEF CreateRow
  <2>4. ASSUME NEW r \in Runs, MarkRunning(r)
        PROVE  NewlyChecked \/ Calm
    BY <2>4 DEF MarkRunning, Leave
  <2>5. ASSUME NEW r \in Runs, Observe(r)
        PROVE  NewlyChecked \/ Calm
    BY <2>5 DEF Observe, NextStep
  <2>6. ASSUME NEW r \in Runs, Wait(r)
        PROVE  NewlyChecked \/ Calm
    BY <2>6 DEF Wait, NextStep
  <2>7. ASSUME NEW r \in Runs, WaitOver(r)
        PROVE  NewlyChecked \/ Calm
    BY <2>7 DEF WaitOver
  <2>8. ASSUME NEW r \in Runs, NEW p \in Points, SetPriority(r, p)
        PROVE  NewlyChecked \/ Calm
    BY <2>8 DEF SetPriority, NextStep
  <2>9. ASSUME NEW r \in Runs, NEW p \in Points, SetStored(r, p)
        PROVE  NewlyChecked \/ Calm
    BY <2>9 DEF SetStored, NextStep
  <2>10. ASSUME NEW r \in Runs, SetLive(r)
        PROVE  NewlyChecked \/ Calm
    BY <2>10 DEF SetLive
  <2>11. ASSUME NEW r \in Runs, Finish(r)
        PROVE  NewlyChecked \/ Calm
    BY <2>11 DEF Finish, Ends
  <2>12. ASSUME NEW r \in Runs, TimeOut(r)
        PROVE  NewlyChecked \/ Calm
    BY <2>12 DEF TimeOut, Ends
  <2>13. ASSUME NEW r \in Runs, SeeCancel(r)
        PROVE  NewlyChecked \/ Calm
    BY <2>13 DEF SeeCancel, Ends
  <2>14. ASSUME NEW r \in Runs, Abort(r)
        PROVE  NewlyChecked \/ Calm
    BY <2>14 DEF Abort, Ends
  <2>15. ASSUME NEW r \in Runs, Raise(r)
        PROVE  NewlyChecked \/ Calm
    BY <2>15 DEF Raise, Ends
  <2>16. ASSUME NEW r \in Runs, Relinquish(r)
        PROVE  NewlyChecked \/ Calm
    BY <2>16 DEF Relinquish, Restoring
  <2>17. ASSUME NEW r \in Runs, RestoreManual(r)
        PROVE  NewlyChecked \/ Calm
    BY <2>17 DEF RestoreManual, Restoring
  <2>18. ASSUME NEW r \in Runs, RestoreBehavior(r)
        PROVE  NewlyChecked \/ Calm
    BY <2>18 DEF RestoreBehavior, Restoring
  <2>19. ASSUME NEW r \in Runs, TearDown(r)
        PROVE  NewlyChecked \/ Calm
    BY <2>19 DEF TearDown
  <2>20. ASSUME NEW r \in Runs, Rebuild(r)
        PROVE  NewlyChecked \/ Calm
    BY <2>20 DEF Rebuild
  <2>21. ASSUME NEW r \in Runs, Report(r)
        PROVE  NewlyChecked \/ Calm
    BY <2>21 DEF Report, Leave
  <2>22. ASSUME NEW r \in Runs, Done(r)
        PROVE  NewlyChecked \/ Calm
    BY <2>22 DEF Done, Leave
  <2>23. ASSUME NEW r \in Runs, Cancel(r)
        PROVE  NewlyChecked \/ Calm
    BY <2>23 DEF Cancel
  <2>24. ASSUME NEW p \in Points, OperatorWrite(p)
        PROVE  NewlyChecked \/ Calm
    BY <2>24 DEF OperatorWrite
  <2>25. CASE EditTearDown
    BY <2>25 DEF EditTearDown
  <2>26. CASE EditRebuild
    BY <2>26 DEF EditRebuild
  <2>27. CASE ToggleClock
    BY <2>27 DEF ToggleClock
  <2>28. CASE Crash
    BY <2>28 DEF Crash, Alive
  <2>29. CASE UNCHANGED vars
    BY <2>29 DEF vars, runVars, history
  <2>30. QED
    BY <2>1, <2>2, <2>3, <2>4, <2>5, <2>6, <2>7, <2>8, <2>9, <2>10, <2>11,
       <2>12, <2>13, <2>14, <2>15, <2>16, <2>17, <2>18, <2>19, <2>20, <2>21,
       <2>22, <2>23, <2>24, <2>25, <2>26, <2>27, <2>28, <2>29
       DEF Next, RunStep, Prepare, Walk, Restore

RaceInv ==
  \A r, s \in Runs :
    (r # s /\ testOf[r] = testOf[s] /\ Occupies(r) /\ Occupies(s)) => testOf[r] \in raced

(* Two active runs of one test come only from two overlapping requests. *)
THEOREM OneActive == Spec => []OneActiveUnlessRaced
<1>1. Init => RaceInv
  BY DEF Init, RaceInv, Occupies, Preparing, Active
<1>2. RowsInv /\ RaceInv /\ [Next]_vars => RaceInv'
  <2> SUFFICES ASSUME RowsInv, RaceInv, [Next]_vars
               PROVE  RaceInv'
    OBVIOUS
  <2>1. CASE Calm
    BY <2>1 DEF Calm, RaceInv
  <2>2. ASSUME NEW r \in Runs, NEW t \in Tests, CheckActive(r, t)
        PROVE  RaceInv'
    <3>1. /\ rows' = rows /\ rows[r] = "none" /\ pc[r] = "idle"
          /\ testOf' = [testOf EXCEPT ![r] = t]
          /\ pc' = [pc EXCEPT ![r] = "checked"]
          /\ raced \subseteq raced'
          /\ \A o \in Runs : testOf[o] = t => rows[o] \notin Active
          /\ \A o \in Runs : testOf[o] = t /\ pc[o] \in Preparing => t \in raced'
      BY <2>2 DEF CheckActive, ActiveRunExists, Goto, RowsInv, EarlyRows
    <3>2. ASSUME NEW o \in Runs, o # r
          PROVE  /\ testOf'[o] = testOf[o] /\ (Occupies(o)' <=> Occupies(o))
                 /\ (testOf[o] = t /\ Occupies(o) => t \in raced')
      BY <3>1, <3>2 DEF Occupies, RowsInv, TypeOK
    <3>3. testOf'[r] = t
      BY <3>1 DEF RowsInv, TypeOK
    <3>4. ASSUME NEW q \in Runs, NEW s \in Runs, q # s, testOf'[q] = testOf'[s],
                 Occupies(q)', Occupies(s)'
          PROVE  testOf'[q] \in raced'
      <4>1. CASE q = r
        BY <3>2, <3>3, <3>4, <4>1
      <4>2. CASE s = r
        BY <3>2, <3>3, <3>4, <4>2
      <4>3. CASE q # r /\ s # r
        BY <3>1, <3>2, <3>4, <4>3 DEF RaceInv
      <4>4. QED BY <4>1, <4>2, <4>3
    <3>5. QED BY <3>4 DEF RaceInv
  <2>3. QED BY <2>1, <2>2, CalmSteps DEF NewlyChecked
<1>3. RaceInv => OneActiveUnlessRaced
  BY DEF RaceInv, OneActiveUnlessRaced, Occupies
<1>4. QED BY <1>1, <1>2, <1>3, RowsInvariant, PTL DEF Spec


---------------------------------------------------------------------------
(***************************************************************************)
(* What a Set node borrows is given back: MarksAreOwed and GivesBack.      *)
(*                                                                         *)
(* The inductive invariant says, of each run, where its writes can be,     *)
(* what its snapshot holds and that its marks are owed (RunLoan), and, of  *)
(* the points, that what is not a run's value is the people's (OwnKept).   *)
(***************************************************************************)

Loanable == Commandable \cup Manual
Lending == {"running", "waiting", "setting", "failed"} \cup GivingBack

(* A run writes only its own points, and only while it walks or gives back. *)
WritesPlaced(r) ==
  /\ PointsIn(writes[r]) \subseteq SetPoints(r)
  /\ writes[r] # <<>> => pc[r] \in Lending
  /\ pc[r] = "setting" => target[r] \in SetPoints(r) \ Commandable
  /\ pc[r] \in {"reloading", "rebuilding", "reporting"} => writes[r] # <<>>
  /\ pc[r] \in {"reloading", "rebuilding"} => LastWrite(r) \notin Loanable

(* A snapshot holds what people had put into a manual point, and no mark. *)
SnapshotKept(r) ==
  pc[r] \notin {"idle", "checked", "done"} =>
    \A p \in (SetPoints(r) \cap Manual) \ poisoned :
      cache[r][p] \notin Runs /\ (p \notin contested => cache[r][p] = own[p])

(* The write whose restore is being reported has been undone. *)
LastRestored(r) ==
  pc[r] = "reporting" =>
    (LastWrite(r) \in Loanable \ poisoned => stored[LastWrite(r)] # r)

(* A slot that the run will relinquish was empty before. *)
SlotsLent(r) ==
  \A p \in (PointsIn(writes[r]) \cap Commandable) \ (poisoned \cup contested) : own[p] = "base"

(* The run still has to put back every point that holds its value. *)
MarksOwed(r) == \A p \in Loanable \ poisoned : stored[p] = r => Owes(r, p)

RunLoan(r) ==
  WritesPlaced(r) /\ SnapshotKept(r) /\ LastRestored(r) /\ SlotsLent(r) /\ MarksOwed(r)

(* While the stack is down every slot is empty. *)
DownWiped == ~Up => \A p \in Commandable : stored[p] = "base"

(* What is not a run's value is the people's value. *)
OwnKept ==
  \A p \in Loanable \ (poisoned \cup contested) : stored[p] \in Runs \/ stored[p] = own[p]

LoanInv == TypeOK /\ DownWiped /\ OwnKept /\ \A r \in Runs : RunLoan(r)

LoanVars == <<testOf, cache, writes, target, stored, own, contested, poisoned>>

---------------------------------------------------------------------------
(* What the points of a run's writes are. *)
LEMMA WrittenPoints ==
  ASSUME TypeOK, NEW r \in Runs
  PROVE  /\ PointsIn(writes[r]) \subseteq Points
         /\ writes[r] # <<>> => LastWrite(r) \in PointsIn(writes[r])
BY PointsInFront, PointsInType DEF TypeOK, LastWrite

(* A step of run r that takes nothing from another run's points keeps what holds
   of the other runs. *)
LEMMA OthersKeep ==
  ASSUME LoanInv, TypeOK', NEW r \in Runs,
         \A s \in Runs \ {r} :
           /\ pc'[s] = pc[s] /\ testOf'[s] = testOf[s] /\ cache'[s] = cache[s]
           /\ writes'[s] = writes[s] /\ target'[s] = target[s],
         own' = own, poisoned \subseteq poisoned', contested \subseteq contested',
         \A p \in Loanable \ poisoned' :
           stored'[p] = stored[p] \/ stored'[p] = r \/ stored'[p] \notin Runs
  PROVE  \A s \in Runs \ {r} : RunLoan(s)'
<1> SUFFICES ASSUME NEW s \in Runs \ {r} PROVE RunLoan(s)'
  OBVIOUS
<1>1. /\ pc'[s] = pc[s] /\ SetPoints(s)' = SetPoints(s) /\ cache'[s] = cache[s]
      /\ writes'[s] = writes[s] /\ target'[s] = target[s] /\ LastWrite(s)' = LastWrite(s)
      /\ RunLoan(s)
  BY DEF LoanInv, SetPoints, LastWrite
<1>2. WritesPlaced(s)'
  BY <1>1 DEF RunLoan, WritesPlaced
<1>3. SnapshotKept(s)'
  BY <1>1 DEF RunLoan, SnapshotKept
<1>4. LastRestored(s)'
  BY <1>1 DEF RunLoan, LastRestored
<1>5. SlotsLent(s)'
  BY <1>1 DEF RunLoan, SlotsLent
<1>6. MarksOwed(s)'
  BY <1>1 DEF RunLoan, MarksOwed, Owes
<1>7. QED BY <1>2, <1>3, <1>4, <1>5, <1>6 DEF RunLoan

(* Where a run may go without touching its points. *)
MayGoTo(r, label) ==
  /\ label # "setting" /\ pc[r] # "setting"
  /\ pc[r] \in {"idle", "checked", "done"} => label \in {"idle", "checked", "done"}
  /\ writes[r] # <<>> => label \in Lending
  /\ label \in {"reloading", "rebuilding", "reporting"} =>
       writes[r] # <<>> /\ LastWrite(r) \notin Loanable

(* A run that only goes to another place keeps the invariant. *)
LEMMA MoveKeeps ==
  ASSUME LoanInv, TypeOK', NEW r \in Runs, NEW label, Goto(r, label), MayGoTo(r, label),
         UNCHANGED LoanVars, Up' \/ UNCHANGED rebuilder
  PROVE  LoanInv'
<1>1. pc'[r] = label /\ \A s \in Runs \ {r} : pc'[s] = pc[s]
  BY DEF Goto, LoanInv, TypeOK
<1>2. \A s \in Runs \ {r} : RunLoan(s)'
  BY <1>1, OthersKeep DEF LoanVars
<1>3. /\ SetPoints(r)' = SetPoints(r) /\ LastWrite(r)' = LastWrite(r)
      /\ UNCHANGED LoanVars /\ RunLoan(r)
  BY DEF SetPoints, LastWrite, LoanVars, LoanInv
<1>4. WritesPlaced(r)'
  BY <1>1, <1>3 DEF RunLoan, WritesPlaced, MayGoTo, LoanVars
<1>5. SnapshotKept(r)'
  BY <1>1, <1>3 DEF RunLoan, SnapshotKept, MayGoTo, LoanVars
<1>6. LastRestored(r)'
  BY <1>1, <1>3 DEF LastRestored, MayGoTo, LoanVars
<1>7. SlotsLent(r)'
  BY <1>3 DEF RunLoan, SlotsLent, LoanVars
<1>8. MarksOwed(r)'
  BY <1>1, <1>3 DEF RunLoan, MarksOwed, MayGoTo, Owes, LoanVars
<1>9. DownWiped' /\ OwnKept'
  BY <1>3 DEF LoanInv, DownWiped, OwnKept, LoanVars, Up
<1>10. QED
  BY <1>2, <1>4, <1>5, <1>6, <1>7, <1>8, <1>9 DEF LoanInv, RunLoan

(* A run that leaves with none of its values behind keeps the invariant. *)
LEMMA LeaveKeeps ==
  ASSUME LoanInv, TypeOK', NEW r \in Runs, Leave(r),
         UNCHANGED <<testOf, stored, rebuilder, own, contested>>,
         poisoned \subseteq poisoned',
         \A p \in Loanable \ poisoned' : stored[p] # r
  PROVE  LoanInv'
<1>1. /\ pc'[r] = "done" /\ writes'[r] = <<>>
      /\ \A s \in Runs \ {r} :
           /\ pc'[s] = pc[s] /\ cache'[s] = cache[s]
           /\ writes'[s] = writes[s] /\ target'[s] = target[s]
  BY DEF Leave, Goto, LoanInv, TypeOK
<1>2. \A s \in Runs \ {r} : RunLoan(s)'
  BY <1>1, OthersKeep
<1>3. RunLoan(r)'
  <2>1. WritesPlaced(r)'
    BY <1>1, PointsInType DEF WritesPlaced
  <2>2. SnapshotKept(r)' /\ LastRestored(r)'
    BY <1>1 DEF SnapshotKept, LastRestored
  <2>3. SlotsLent(r)'
    BY <1>1, PointsInType DEF SlotsLent
  <2>4. MarksOwed(r)'
    BY DEF MarksOwed
  <2>5. QED BY <2>1, <2>2, <2>3, <2>4 DEF RunLoan
<1>4. DownWiped' /\ OwnKept'
  BY DEF LoanInv, DownWiped, OwnKept, Up
<1>5. QED
  BY <1>2, <1>3, <1>4 DEF LoanInv

(* A slot that holds a run's value was empty before, as far as people know. *)
LEMMA LentSlot ==
  ASSUME LoanInv, NEW p \in Commandable \ (poisoned \cup contested), stored[p] # "operator"
  PROVE  own[p] = "base"
<1>1. p \in Loanable /\ stored[p] \in Value
  BY PointsAssumption DEF Loanable, LoanInv, TypeOK
<1>2. CASE stored[p] \in Runs
  <2> DEFINE s == stored[p]
  <2>1. RunLoan(s) /\ Owes(s, p)
    BY <1>1, <1>2 DEF LoanInv, RunLoan, MarksOwed
  <2>2. p \in PointsIn(writes[s])
    BY <2>1 DEF Owes, RunLoan, WritesPlaced
  <2>3. QED BY <2>1, <2>2 DEF RunLoan, SlotsLent
<1>3. CASE stored[p] = "base"
  BY <1>1, <1>3, RunsAssumption DEF LoanInv, OwnKept
<1>4. QED BY <1>1, <1>2, <1>3 DEF Value

---------------------------------------------------------------------------
(* The steps of a run that touch a point or a snapshot.                    *)

(* A snapshot holds what people had put into the points.                   *)
LEMMA BuildCacheKeeps ==
  ASSUME LoanInv, TypeOK', NEW r \in Runs, BuildCache(r)
  PROVE  LoanInv'
<1> DEFINE snapshot ==
      [p \in Points |-> IF p \in SetPoints(r) \ Commandable THEN stored[p] ELSE "base"]
<1>1. /\ pc[r] = "checked" /\ cache' = [cache EXCEPT ![r] = snapshot]
      /\ poisoned' = poisoned \cup {p \in SetPoints(r) \ Commandable : stored[p] \in Runs}
      /\ UNCHANGED <<testOf, writes, target, stored, rebuilder, own, contested>>
      /\ pc' = [pc EXCEPT ![r] = "cached"]
  BY DEF BuildCache, Goto
<1>2. /\ pc'[r] = "cached" /\ cache'[r] = snapshot
      /\ \A s \in Runs \ {r} : pc'[s] = pc[s] /\ cache'[s] = cache[s]
  BY <1>1 DEF LoanInv, TypeOK
<1>3. \A s \in Runs \ {r} : RunLoan(s)'
  BY <1>1, <1>2, OthersKeep
<1>4. SetPoints(r)' = SetPoints(r) /\ SetPoints(r) \subseteq Points /\ RunLoan(r)
  BY <1>1, PointsAssumption DEF SetPoints, LoanInv, TypeOK
<1>5. WritesPlaced(r)' /\ LastRestored(r)'
  <2>1. writes[r] = <<>>
    BY <1>1, <1>4 DEF RunLoan, WritesPlaced, Lending, GivingBack
  <2>2. QED
    BY <1>1, <1>2, <2>1, PointsInType DEF WritesPlaced, LastRestored
<1>6. SnapshotKept(r)'
  <2> SUFFICES ASSUME NEW p \in (SetPoints(r) \cap Manual) \ poisoned'
               PROVE  cache'[r][p] \notin Runs /\ (p \notin contested => cache'[r][p] = own[p])
    BY <1>1, <1>4 DEF SnapshotKept
  <2>1. p \in SetPoints(r) \ Commandable /\ p \in Points /\ p \in Loanable
    BY <1>4, PointsAssumption DEF Loanable
  <2>2. cache'[r][p] = stored[p] /\ stored[p] \notin Runs
    BY <1>1, <1>2, <2>1
  <2>3. p \notin poisoned
    BY <1>1
  <2>4. QED BY <2>1, <2>2, <2>3 DEF LoanInv, OwnKept
<1>7. SlotsLent(r)' /\ MarksOwed(r)'
  BY <1>1, <1>2, <1>4 DEF RunLoan, SlotsLent, MarksOwed, Owes
<1>8. DownWiped' /\ OwnKept'
  BY <1>1 DEF LoanInv, DownWiped, OwnKept, Up
<1>9. QED
  BY <1>3, <1>5, <1>6, <1>7, <1>8 DEF LoanInv, RunLoan

(* A run that starts has nothing on loan.                                  *)
LEMMA CheckActiveKeeps ==
  ASSUME LoanInv, TypeOK', NEW r \in Runs, NEW t \in Tests, CheckActive(r, t)
  PROVE  LoanInv'
<1>1. /\ pc[r] = "idle" /\ pc'[r] = "checked"
      /\ \A s \in Runs \ {r} : pc'[s] = pc[s] /\ testOf'[s] = testOf[s]
      /\ UNCHANGED <<cache, writes, target, stored, rebuilder, own, contested, poisoned>>
  BY DEF CheckActive, Goto, LoanInv, TypeOK
<1>2. \A s \in Runs \ {r} : RunLoan(s)'
  BY <1>1, OthersKeep
<1>3. RunLoan(r) /\ writes[r] = <<>>
  BY <1>1 DEF LoanInv, RunLoan, WritesPlaced, Lending, GivingBack
<1>4. WritesPlaced(r)' /\ SnapshotKept(r)' /\ LastRestored(r)'
  BY <1>1, <1>3, PointsInType DEF WritesPlaced, SnapshotKept, LastRestored
<1>5. SlotsLent(r)' /\ MarksOwed(r)'
  BY <1>1, <1>3 DEF RunLoan, SlotsLent, MarksOwed, Owes
<1>6. DownWiped' /\ OwnKept'
  BY <1>1 DEF LoanInv, DownWiped, OwnKept, Up
<1>7. QED
  BY <1>2, <1>4, <1>5, <1>6 DEF LoanInv, RunLoan

(* A write to a slot is owed back.                                         *)
LEMMA SetPriorityKeeps ==
  ASSUME LoanInv, TypeOK', NEW r \in Runs, NEW p \in Points, SetPriority(r, p)
  PROVE  LoanInv'
<1>1. /\ pc[r] = "running" /\ p \in SetPoints(r) \cap Commandable
      /\ UNCHANGED <<testOf, cache, target, rebuilder, own, poisoned>>
  BY DEF SetPriority, NextStep
<1>2. CASE ~Up
  <2>1. Goto(r, "failed") /\ UNCHANGED LoanVars /\ UNCHANGED rebuilder
    BY <1>1, <1>2 DEF SetPriority, LoanVars
  <2>2. MayGoTo(r, "failed")
    BY <1>1 DEF MayGoTo, Lending
  <2>3. QED BY <2>1, <2>2, MoveKeeps
<1>3. CASE Up
  <2>1. /\ stored' = [stored EXCEPT ![p] = r] /\ pc' = pc
        /\ writes' = [writes EXCEPT ![r] = Append(writes[r], p)]
        /\ contested' = IF stored[p] = "operator" THEN contested \cup {p} ELSE contested
    BY <1>3 DEF SetPriority, Store
  <2>2. /\ stored'[p] = r /\ \A q \in Points \ {p} : stored'[q] = stored[q]
        /\ writes'[r] = Append(writes[r], p)
        /\ \A s \in Runs \ {r} : writes'[s] = writes[s]
    BY <2>1 DEF LoanInv, TypeOK
  <2>3. Loanable \subseteq Points
    BY PointsAssumption DEF Loanable
  <2>4. \A s \in Runs \ {r} : RunLoan(s)'
    BY <1>1, <2>1, <2>2, <2>3, OthersKeep
  <2>5. PointsIn(writes'[r]) = PointsIn(writes[r]) \cup {p}
    BY <2>2, PointsInAppend DEF LoanInv, TypeOK
  <2>6. SetPoints(r)' = SetPoints(r) /\ RunLoan(r)
    BY <1>1 DEF SetPoints, LoanInv
  <2>7. WritesPlaced(r)'
    BY <1>1, <2>1, <2>5, <2>6 DEF RunLoan, WritesPlaced, Lending
  <2>8. SnapshotKept(r)' /\ LastRestored(r)'
    BY <1>1, <2>1, <2>6 DEF RunLoan, SnapshotKept, LastRestored
  <2>9. SlotsLent(r)'
    <3> SUFFICES ASSUME NEW q \in (PointsIn(writes'[r]) \cap Commandable) \ (poisoned' \cup contested')
                 PROVE  own'[q] = "base"
      BY DEF SlotsLent
    <3>1. q \notin poisoned \cup contested
      BY <1>1, <2>1
    <3>2. CASE q \in PointsIn(writes[r])
      BY <1>1, <2>6, <3>1, <3>2 DEF RunLoan, SlotsLent
    <3>3. CASE q = p
      BY <1>1, <2>1, <3>1, <3>3, LentSlot
    <3>4. QED BY <2>5, <3>2, <3>3
  <2>10. MarksOwed(r)'
    <3> SUFFICES ASSUME NEW q \in Loanable \ poisoned', stored'[q] = r
                 PROVE  Owes(r, q)'
      BY DEF MarksOwed
    <3>1. CASE q = p
      BY <2>5, <3>1 DEF Owes
    <3>2. CASE q # p
      <4>1. Owes(r, q)
        BY <1>1, <2>2, <2>3, <2>6, <3>2 DEF RunLoan, MarksOwed
      <4>2. QED BY <1>1, <2>5, <4>1 DEF Owes
    <3>3. QED BY <3>1, <3>2
  <2>11. DownWiped'
    BY <1>1, <1>3 DEF DownWiped, Up
  <2>12. OwnKept'
    BY <1>1, <2>1, <2>2, <2>3 DEF LoanInv, OwnKept
  <2>13. QED
    BY <2>4, <2>7, <2>8, <2>9, <2>10, <2>11, <2>12 DEF LoanInv, RunLoan
<1>4. QED BY <1>2, <1>3

(* A stored write is owed back.                                            *)
LEMMA SetStoredKeeps ==
  ASSUME LoanInv, TypeOK', NEW r \in Runs, NEW p \in Points, SetStored(r, p)
  PROVE  LoanInv'
<1>1. /\ pc[r] = "running" /\ p \in SetPoints(r) \ Commandable
      /\ stored' = [stored EXCEPT ![p] = r]
      /\ pc' = [pc EXCEPT ![r] = "setting"] /\ target' = [target EXCEPT ![r] = p]
      /\ UNCHANGED <<testOf, cache, writes, rebuilder, own, contested, poisoned>>
  BY DEF SetStored, NextStep, Store, Goto, history
<1>2. /\ stored'[p] = r /\ \A q \in Points \ {p} : stored'[q] = stored[q]
      /\ pc'[r] = "setting" /\ target'[r] = p
      /\ \A s \in Runs \ {r} : pc'[s] = pc[s] /\ target'[s] = target[s]
  BY <1>1 DEF LoanInv, TypeOK
<1>3. Loanable \subseteq Points
  BY PointsAssumption DEF Loanable
<1>4. \A s \in Runs \ {r} : RunLoan(s)'
  BY <1>1, <1>2, <1>3, OthersKeep
<1>5. SetPoints(r)' = SetPoints(r) /\ RunLoan(r)
  BY <1>1 DEF SetPoints, LoanInv
<1>6. WritesPlaced(r)' /\ LastRestored(r)'
  BY <1>1, <1>2, <1>5 DEF RunLoan, WritesPlaced, LastRestored, Lending
<1>7. SnapshotKept(r)' /\ SlotsLent(r)'
  BY <1>1, <1>2, <1>5 DEF RunLoan, SnapshotKept, SlotsLent
<1>8. MarksOwed(r)'
  BY <1>1, <1>2, <1>3, <1>5 DEF RunLoan, MarksOwed, Owes
<1>9. DownWiped'
  BY <1>1, <1>2, PointsAssumption DEF LoanInv, DownWiped, Up
<1>10. OwnKept'
  BY <1>1, <1>2, <1>3 DEF LoanInv, OwnKept
<1>11. QED
  BY <1>4, <1>6, <1>7, <1>8, <1>9, <1>10 DEF LoanInv, RunLoan

(* A live write is owed back.                                              *)
LEMMA SetLiveKeeps ==
  ASSUME LoanInv, TypeOK', NEW r \in Runs, SetLive(r)
  PROVE  LoanInv'
<1>1. /\ pc[r] = "setting" /\ target' = [target EXCEPT ![r] = NoTarget]
      /\ UNCHANGED <<testOf, cache, stored, rebuilder, own, contested>>
      /\ IF Up
           THEN /\ pc' = [pc EXCEPT ![r] = "running"]
                /\ writes' = [writes EXCEPT ![r] = Append(writes[r], target[r])]
                /\ poisoned' = poisoned
           ELSE /\ pc' = [pc EXCEPT ![r] = "failed"]
                /\ poisoned' = poisoned \cup {target[r]}
                /\ writes' = writes
  BY DEF SetLive, Goto
<1>2. /\ pc'[r] = IF Up THEN "running" ELSE "failed"
      /\ writes'[r] = IF Up THEN Append(writes[r], target[r]) ELSE writes[r]
      /\ poisoned' = IF Up THEN poisoned ELSE poisoned \cup {target[r]}
      /\ \A s \in Runs \ {r} : pc'[s] = pc[s] /\ target'[s] = target[s] /\ writes'[s] = writes[s]
      /\ target[r] \in Points /\ writes[r] \in Seq(Points)
  BY <1>1 DEF LoanInv, TypeOK
<1>3. \A s \in Runs \ {r} : RunLoan(s)'
  BY <1>1, <1>2, OthersKeep
<1>4. PointsIn(writes'[r]) = IF Up THEN PointsIn(writes[r]) \cup {target[r]} ELSE PointsIn(writes[r])
  BY <1>2, PointsInAppend
<1>5. SetPoints(r)' = SetPoints(r) /\ RunLoan(r) /\ target[r] \in SetPoints(r) \ Commandable
  BY <1>1 DEF SetPoints, LoanInv, RunLoan, WritesPlaced
<1>6. WritesPlaced(r)' /\ LastRestored(r)'
  BY <1>2, <1>4, <1>5 DEF RunLoan, WritesPlaced, LastRestored, Lending
<1>7. SnapshotKept(r)'
  BY <1>1, <1>2, <1>5 DEF RunLoan, SnapshotKept
<1>8. SlotsLent(r)'
  BY <1>1, <1>2, <1>4, <1>5 DEF RunLoan, SlotsLent
<1>9. MarksOwed(r)'
  BY <1>1, <1>2, <1>4, <1>5 DEF RunLoan, MarksOwed, Owes
<1>10. DownWiped' /\ OwnKept'
  BY <1>1, <1>2 DEF LoanInv, DownWiped, OwnKept, Up
<1>11. QED
  BY <1>3, <1>6, <1>7, <1>8, <1>9, <1>10 DEF LoanInv, RunLoan

(* A slot that is relinquished is empty again.                             *)
LEMMA RelinquishKeeps ==
  ASSUME LoanInv, TypeOK', NEW r \in Runs, Relinquish(r)
  PROVE  LoanInv'
<1> DEFINE last == LastWrite(r)
<1>1. /\ pc[r] = "restoring" /\ writes[r] # <<>> /\ last \in Commandable
      /\ pc' = [pc EXCEPT ![r] = "reporting"]
      /\ stored' = IF Up THEN [stored EXCEPT ![last] = "base"] ELSE stored
      /\ UNCHANGED <<testOf, cache, writes, target, rebuilder, own, contested, poisoned>>
  BY DEF Relinquish, Restoring, Goto, Store, history
<1>2. /\ pc'[r] = "reporting" /\ \A s \in Runs \ {r} : pc'[s] = pc[s]
      /\ stored'[last] = "base"
      /\ \A q \in Points \ {last} : stored'[q] = stored[q]
  BY <1>1, PointsAssumption DEF LoanInv, TypeOK, DownWiped
<1>3. Loanable \subseteq Points /\ "base" \notin Runs
  BY PointsAssumption, RunsAssumption DEF Loanable
<1>4. \A s \in Runs \ {r} : RunLoan(s)'
  BY <1>1, <1>2, <1>3, OthersKeep
<1>5. /\ SetPoints(r)' = SetPoints(r) /\ LastWrite(r)' = last /\ RunLoan(r)
      /\ last \in PointsIn(writes[r])
  BY <1>1, WrittenPoints DEF SetPoints, LastWrite, LoanInv
<1>6. WritesPlaced(r)' /\ LastRestored(r)'
  BY <1>1, <1>2, <1>3, <1>5 DEF RunLoan, WritesPlaced, LastRestored, Lending, GivingBack
<1>7. SnapshotKept(r)' /\ SlotsLent(r)'
  BY <1>1, <1>2, <1>5 DEF RunLoan, SnapshotKept, SlotsLent
<1>8. MarksOwed(r)'
  BY <1>1, <1>2, <1>3, <1>5 DEF RunLoan, MarksOwed, Owes
<1>9. DownWiped'
  BY <1>1, <1>2, PointsAssumption DEF LoanInv, DownWiped, Up
<1>10. OwnKept'
  BY <1>1, <1>2, <1>3, <1>5 DEF LoanInv, OwnKept, RunLoan, SlotsLent
<1>11. QED
  BY <1>4, <1>6, <1>7, <1>8, <1>9, <1>10 DEF LoanInv, RunLoan

(* A value that is restored is the one in the snapshot, and one that is not *)
(* counts as got at by a fault.                                            *)
LEMMA RestoreManualKeeps ==
  ASSUME LoanInv, TypeOK', NEW r \in Runs, RestoreManual(r)
  PROVE  LoanInv'
<1> DEFINE last == LastWrite(r)
<1>1. /\ pc[r] = "restoring" /\ writes[r] # <<>> /\ last \in Manual
      /\ pc' = [pc EXCEPT ![r] = "reporting"]
      /\ \/ stored' = [stored EXCEPT ![last] = cache[r][last]] /\ poisoned' = poisoned
         \/ stored' = stored /\ poisoned' = poisoned \cup {last}
      /\ UNCHANGED <<testOf, cache, writes, target, rebuilder, own, contested>>
  BY DEF RestoreManual, Restoring, Goto, Store
<1>2. /\ pc'[r] = "reporting" /\ \A s \in Runs \ {r} : pc'[s] = pc[s]
      /\ poisoned \subseteq poisoned' /\ (last \notin poisoned' => stored'[last] = cache[r][last])
      /\ \A q \in Points \ {last} : stored'[q] = stored[q]
  BY <1>1, PointsAssumption DEF LoanInv, TypeOK
<1>3. Loanable \subseteq Points /\ last \notin Commandable
  BY <1>1, PointsAssumption DEF Loanable
<1>4. /\ SetPoints(r)' = SetPoints(r) /\ LastWrite(r)' = last /\ RunLoan(r)
      /\ last \in PointsIn(writes[r])
  BY <1>1, WrittenPoints DEF SetPoints, LastWrite, LoanInv
<1>5. last \notin poisoned =>
        cache[r][last] \notin Runs /\ (last \notin contested => cache[r][last] = own[last])
  BY <1>1, <1>4 DEF RunLoan, WritesPlaced, SnapshotKept
<1>6. \A s \in Runs \ {r} : RunLoan(s)'
  <2>1. \A q \in Loanable \ poisoned' : stored'[q] = stored[q] \/ stored'[q] \notin Runs
    BY <1>1, <1>2, <1>3, <1>5
  <2>2. QED BY <1>1, <1>2, <2>1, OthersKeep
<1>7. WritesPlaced(r)' /\ LastRestored(r)'
  BY <1>1, <1>2, <1>4, <1>5 DEF RunLoan, WritesPlaced, LastRestored, Lending, GivingBack
<1>8. SnapshotKept(r)' /\ SlotsLent(r)'
  BY <1>1, <1>2, <1>4 DEF RunLoan, SnapshotKept, SlotsLent
<1>9. MarksOwed(r)'
  <2> SUFFICES ASSUME NEW q \in Loanable \ poisoned', stored'[q] = r PROVE Owes(r, q)'
    BY DEF MarksOwed
  <2>1. q # last
    BY <1>1, <1>2, <1>5
  <2>2. Owes(r, q)
    BY <1>1, <1>2, <1>3, <1>4, <2>1 DEF RunLoan, MarksOwed
  <2>3. QED BY <1>1, <2>2 DEF Owes
<1>10. DownWiped'
  BY <1>1, <1>2, <1>3, PointsAssumption DEF LoanInv, DownWiped, Up
<1>11. OwnKept'
  BY <1>1, <1>2, <1>3, <1>5 DEF LoanInv, OwnKept
<1>12. QED
  BY <1>6, <1>7, <1>8, <1>9, <1>10, <1>11 DEF LoanInv, RunLoan

(* A rebuild empties the slots and leaves the manual values. *)
LEMMA WipedPoints ==
  ASSUME stored' = Wiped
  PROVE  /\ \A p \in Commandable : stored'[p] = "base"
         /\ \A p \in Manual : stored'[p] = stored[p]
         /\ \A p \in Loanable : stored'[p] = stored[p] \/ stored'[p] = "base"
         /\ "base" \notin Runs
BY PointsAssumption, RunsAssumption DEF Wiped, Loanable

(* A stack that goes down has empty slots.                                 *)
LEMMA TearDownKeeps ==
  ASSUME LoanInv, TypeOK', NEW r \in Runs, TearDown(r)
  PROVE  LoanInv'
<1>1. /\ pc[r] = "reloading" /\ pc' = [pc EXCEPT ![r] = "rebuilding"]
      /\ stored' = Wiped
      /\ contested' = contested \cup {p \in Commandable : stored[p] = "operator"}
      /\ UNCHANGED <<testOf, cache, writes, target, own, poisoned>>
  BY DEF TearDown, Goto
<1>2. pc'[r] = "rebuilding" /\ \A s \in Runs \ {r} : pc'[s] = pc[s]
  BY <1>1 DEF LoanInv, TypeOK
<1>3. \A s \in Runs \ {r} : RunLoan(s)'
  BY <1>1, <1>2, WipedPoints, OthersKeep
<1>4. SetPoints(r)' = SetPoints(r) /\ LastWrite(r)' = LastWrite(r) /\ RunLoan(r)
  BY <1>1 DEF SetPoints, LastWrite, LoanInv
<1>5. WritesPlaced(r)' /\ LastRestored(r)'
  BY <1>1, <1>2, <1>4 DEF RunLoan, WritesPlaced, LastRestored, Lending, GivingBack
<1>6. SnapshotKept(r)' /\ SlotsLent(r)'
  BY <1>1, <1>2, <1>4 DEF RunLoan, SnapshotKept, SlotsLent
<1>7. MarksOwed(r)'
  BY <1>1, <1>2, <1>4, WipedPoints DEF RunLoan, MarksOwed, Owes
<1>8. DownWiped'
  BY <1>1, WipedPoints DEF DownWiped
<1>9. OwnKept'
  <2> SUFFICES ASSUME NEW p \in Loanable \ (poisoned' \cup contested')
               PROVE  stored'[p] \in Runs \/ stored'[p] = own'[p]
    BY DEF OwnKept
  <2>1. CASE p \in Commandable
    BY <1>1, <2>1, WipedPoints, LentSlot
  <2>2. CASE p \in Manual
    BY <1>1, <2>2, WipedPoints DEF LoanInv, OwnKept
  <2>3. QED BY <2>1, <2>2 DEF Loanable
<1>10. QED
  BY <1>3, <1>5, <1>6, <1>7, <1>8, <1>9 DEF LoanInv, RunLoan

(* A restore that is reported is done.                                     *)
LEMMA ReportKeeps ==
  ASSUME LoanInv, TypeOK', NEW r \in Runs, Report(r)
  PROVE  LoanInv'
<1> DEFINE last == LastWrite(r)
           rest == Front(writes[r])
<1>1. /\ pc[r] = "reporting"
      /\ UNCHANGED <<testOf, stored, rebuilder, own, contested>>
  BY DEF Report
<1>2. RunLoan(r) /\ writes[r] # <<>> /\ writes[r] \in Seq(Points)
  BY <1>1 DEF LoanInv, RunLoan, WritesPlaced, TypeOK
<1>3. PointsIn(writes[r]) = PointsIn(rest) \cup {last}
  BY <1>2, PointsInFront DEF LastWrite
<1>4. \A p \in Loanable \ poisoned : stored[p] = r => p \in PointsIn(rest)
  BY <1>1, <1>2, <1>3 DEF RunLoan, MarksOwed, LastRestored, Owes
<1>5. CASE /\ Goto(r, "restoring") /\ writes' = [writes EXCEPT ![r] = rest]
           /\ UNCHANGED <<cache, target, poisoned>>
  <2>1. /\ pc'[r] = "restoring" /\ writes'[r] = rest
        /\ \A s \in Runs \ {r} : pc'[s] = pc[s] /\ writes'[s] = writes[s]
    BY <1>5 DEF Goto, LoanInv, TypeOK
  <2>2. \A s \in Runs \ {r} : RunLoan(s)'
    BY <1>1, <1>5, <2>1, OthersKeep
  <2>3. SetPoints(r)' = SetPoints(r)
    BY <1>1 DEF SetPoints
  <2>4. WritesPlaced(r)' /\ LastRestored(r)'
    BY <1>2, <1>3, <2>1, <2>3 DEF RunLoan, WritesPlaced, LastRestored, Lending, GivingBack
  <2>5. SnapshotKept(r)'
    BY <1>1, <1>2, <1>5, <2>1, <2>3 DEF RunLoan, SnapshotKept
  <2>6. SlotsLent(r)'
    BY <1>1, <1>2, <1>3, <1>5, <2>1 DEF RunLoan, SlotsLent
  <2>7. MarksOwed(r)'
    BY <1>1, <1>4, <1>5, <2>1 DEF MarksOwed, Owes
  <2>8. DownWiped' /\ OwnKept'
    BY <1>1, <1>5 DEF LoanInv, DownWiped, OwnKept, Up
  <2>9. QED
    BY <2>2, <2>4, <2>5, <2>6, <2>7, <2>8 DEF LoanInv, RunLoan
<1>6. CASE Leave(r) /\ poisoned' = poisoned \cup PointsIn(rest)
  BY <1>1, <1>4, <1>6, LeaveKeeps
<1>7. QED
  BY <1>5, <1>6 DEF Report, Front

---------------------------------------------------------------------------
(* What everybody else does.                                               *)

(* What people write is theirs.                                            *)
LEMMA OperatorWriteKeeps ==
  ASSUME LoanInv, TypeOK', NEW p \in Points, OperatorWrite(p)
  PROVE  LoanInv'
<1>1. /\ p \in Commandable => Up
      /\ stored' = [stored EXCEPT ![p] = "operator"]
      /\ own' = [own EXCEPT ![p] = "operator"]
      /\ contested' = IF \E r \in Runs : Alive(r) /\ p \in SetPoints(r)
                        THEN contested \cup {p} ELSE contested
      /\ UNCHANGED <<pc, testOf, cache, writes, target, rebuilder, poisoned>>
  BY DEF OperatorWrite, runVars, Store
<1>2. /\ stored'[p] = "operator" /\ own'[p] = "operator" /\ "operator" \notin Runs
      /\ \A q \in Points \ {p} : stored'[q] = stored[q] /\ own'[q] = own[q]
  BY <1>1, RunsAssumption DEF LoanInv, TypeOK
<1>3. Loanable \subseteq Points
  BY PointsAssumption DEF Loanable
<1>4. ASSUME NEW r \in Runs PROVE RunLoan(r)'
  <2>1. /\ SetPoints(r)' = SetPoints(r) /\ LastWrite(r)' = LastWrite(r) /\ RunLoan(r)
        /\ SetPoints(r) \subseteq Points
    BY <1>1, <1>4, PointsAssumption DEF SetPoints, LastWrite, LoanInv, TypeOK
  <2>2. \A q \in Points \ contested' : Alive(r) /\ q \in SetPoints(r) => own'[q] = own[q]
    BY <1>1, <1>2, <1>4
  <2>3. contested \subseteq contested'
    BY <1>1
  <2>4. WritesPlaced(r)'
    BY <1>1, <2>1 DEF RunLoan, WritesPlaced
  <2>5. SnapshotKept(r)'
    BY <1>1, <2>1, <2>2, <2>3 DEF RunLoan, SnapshotKept, Alive
  <2>6. LastRestored(r)'
    BY <1>1, <1>2, <1>3, <2>1 DEF RunLoan, LastRestored
  <2>7. SlotsLent(r)'
    <3>1. PointsIn(writes[r]) # {} => Alive(r)
      BY <2>1, PointsInType DEF RunLoan, WritesPlaced, Alive, Lending, GivingBack
    <3>2. QED
      BY <1>1, <2>1, <2>2, <2>3, <3>1 DEF RunLoan, WritesPlaced, SlotsLent
  <2>8. MarksOwed(r)'
    BY <1>1, <1>2, <1>3, <1>4, <2>1 DEF RunLoan, MarksOwed, Owes
  <2>9. QED
    BY <2>4, <2>5, <2>6, <2>7, <2>8 DEF RunLoan
<1>5. DownWiped'
  BY <1>1, <1>2, PointsAssumption DEF LoanInv, DownWiped, Up
<1>6. OwnKept'
  BY <1>1, <1>2, <1>3 DEF LoanInv, OwnKept
<1>7. QED
  BY <1>4, <1>5, <1>6 DEF LoanInv

(* An edit that takes the stack down empties the slots.                    *)
LEMMA EditTearDownKeeps ==
  ASSUME LoanInv, TypeOK', EditTearDown
  PROVE  LoanInv'
<1>1. /\ stored' = Wiped
      /\ own' = [p \in Points |-> IF p \in Commandable THEN "base" ELSE own[p]]
      /\ UNCHANGED <<pc, testOf, cache, writes, target, contested, poisoned>>
  BY DEF EditTearDown, runVars
<1>2. /\ \A p \in Commandable : own'[p] = "base"
      /\ \A p \in Manual : own'[p] = own[p]
  BY <1>1, PointsAssumption
<1>3. ASSUME NEW r \in Runs PROVE RunLoan(r)'
  <2>1. SetPoints(r)' = SetPoints(r) /\ LastWrite(r)' = LastWrite(r) /\ RunLoan(r)
    BY <1>1 DEF SetPoints, LastWrite, LoanInv
  <2>2. WritesPlaced(r)' /\ SnapshotKept(r)' /\ SlotsLent(r)'
    BY <1>1, <1>2, <2>1 DEF RunLoan, WritesPlaced, SnapshotKept, SlotsLent
  <2>3. LastRestored(r)' /\ MarksOwed(r)'
    BY <1>1, <2>1, WipedPoints DEF RunLoan, LastRestored, MarksOwed, Owes
  <2>4. QED BY <2>2, <2>3 DEF RunLoan
<1>4. DownWiped'
  BY <1>1, WipedPoints DEF DownWiped
<1>5. OwnKept'
  BY <1>1, <1>2, WipedPoints DEF LoanInv, OwnKept, Loanable
<1>6. QED
  BY <1>3, <1>4, <1>5 DEF LoanInv

(* A crash takes the slots along and leaves what is stored.                *)
LEMMA CrashKeeps ==
  ASSUME LoanInv, TypeOK', Crash
  PROVE  LoanInv'
<1>1. /\ stored' = Wiped
      /\ pc' = [r \in Runs |-> IF Alive(r) THEN "done" ELSE pc[r]]
      /\ writes' = [r \in Runs |-> <<>>]
      /\ own' = [p \in Points |-> IF p \in Commandable THEN "base" ELSE own[p]]
      /\ poisoned' = poisoned \cup {p \in Points \ Commandable : stored[p] \in Runs}
      /\ UNCHANGED contested
  BY DEF Crash
<1>2. /\ \A p \in Commandable : own'[p] = "base"
      /\ \A p \in Manual : own'[p] = own[p]
      /\ Manual \subseteq Points \ Commandable
  BY <1>1, PointsAssumption
<1>3. ASSUME NEW r \in Runs PROVE RunLoan(r)'
  <2>1. pc'[r] \in {"idle", "done"} /\ writes'[r] = <<>>
    BY <1>1 DEF Alive
  <2>2. WritesPlaced(r)' /\ SnapshotKept(r)' /\ LastRestored(r)' /\ SlotsLent(r)'
    BY <2>1, PointsInType DEF WritesPlaced, SnapshotKept, LastRestored, SlotsLent
  <2>3. MarksOwed(r)'
    BY <1>1, <1>2, WipedPoints DEF MarksOwed, Loanable
  <2>4. QED BY <2>2, <2>3 DEF RunLoan
<1>4. DownWiped'
  BY <1>1, WipedPoints DEF DownWiped
<1>5. OwnKept'
  BY <1>1, <1>2, WipedPoints DEF LoanInv, OwnKept, Loanable
<1>6. QED
  BY <1>3, <1>4, <1>5 DEF LoanInv

(* A step that moves no run and touches no point. *)
LEMMA StillKeeps ==
  ASSUME LoanInv, TypeOK', UNCHANGED <<pc, LoanVars>>, Up' \/ UNCHANGED rebuilder
  PROVE  LoanInv'
<1>1. ASSUME NEW r \in Runs PROVE RunLoan(r)'
  <2>1. /\ SetPoints(r)' = SetPoints(r) /\ LastWrite(r)' = LastWrite(r)
        /\ UNCHANGED <<pc, LoanVars>> /\ RunLoan(r)
    BY DEF SetPoints, LastWrite, LoanVars, LoanInv
  <2>2. WritesPlaced(r)' /\ SnapshotKept(r)' /\ LastRestored(r)'
    BY <2>1 DEF RunLoan, WritesPlaced, SnapshotKept, LastRestored, LoanVars
  <2>3. SlotsLent(r)' /\ MarksOwed(r)'
    BY <2>1 DEF RunLoan, SlotsLent, MarksOwed, Owes, LoanVars
  <2>4. QED BY <2>2, <2>3 DEF RunLoan
<1>2. DownWiped' /\ OwnKept'
  BY DEF LoanInv, DownWiped, OwnKept, LoanVars, Up
<1>3. QED BY <1>1, <1>2 DEF LoanInv

(* A run whose walk ends, and a run that lets a reload in or out. *)
LEMMA EndsKeeps ==
  ASSUME LoanInv, TypeOK', NEW r \in Runs, NEW state, Ends(r, state),
         pc[r] \in {"running", "waiting", "failed"}
  PROVE  LoanInv'
<1>1. Goto(r, "restoring") /\ UNCHANGED LoanVars /\ UNCHANGED rebuilder
  BY DEF Ends, LoanVars
<1>2. MayGoTo(r, "restoring")
  BY DEF MayGoTo, Lending, GivingBack
<1>3. QED BY <1>1, <1>2, MoveKeeps

(* A behavior is restored by a reload, if at all; it was not on loan.      *)
LEMMA RestoreBehaviorKeeps ==
  ASSUME LoanInv, TypeOK', NEW r \in Runs, RestoreBehavior(r)
  PROVE  LoanInv'
<1>1. /\ Goto(r, "reloading") \/ Goto(r, "reporting")
      /\ UNCHANGED LoanVars /\ UNCHANGED rebuilder
      /\ pc[r] = "restoring" /\ writes[r] # <<>> /\ LastWrite(r) \notin Loanable
  BY DEF RestoreBehavior, Restoring, LoanVars, history, Loanable
<1>2. MayGoTo(r, "reloading") /\ MayGoTo(r, "reporting")
  BY <1>1 DEF MayGoTo, Lending, GivingBack
<1>3. QED BY <1>1, <1>2, MoveKeeps

(* A rebuild gives nothing back and lends nothing.                         *)
LEMMA RebuildKeeps ==
  ASSUME LoanInv, TypeOK', NEW r \in Runs, Rebuild(r)
  PROVE  LoanInv'
<1>1. Goto(r, "reporting") /\ UNCHANGED LoanVars /\ Up' /\ pc[r] = "rebuilding"
  BY DEF Rebuild, LoanVars, history, Up
<1>2. writes[r] # <<>> /\ LastWrite(r) \notin Loanable
  BY <1>1 DEF LoanInv, RunLoan, WritesPlaced
<1>3. MayGoTo(r, "reporting")
  BY <1>1, <1>2 DEF MayGoTo, Lending, GivingBack
<1>4. QED BY <1>1, <1>3, MoveKeeps

(* A run that owes nothing leaves nothing behind. *)
LEMMA LeaveEarly ==
  ASSUME LoanInv, TypeOK', NEW r \in Runs, Leave(r), writes[r] = <<>>, pc[r] # "setting",
         UNCHANGED <<testOf, stored, rebuilder, own, contested, poisoned>>
  PROVE  LoanInv'
<1>1. \A p \in Loanable \ poisoned' : stored[p] # r
  BY PointsInType DEF LoanInv, RunLoan, MarksOwed, Owes
<1>2. QED BY <1>1, LeaveKeeps

(* The inductive invariant: initial states and every step. *)
LEMMA LoanInit ==
  ASSUME Init PROVE LoanInv
<1>1. TypeOK
  BY TypeHolds
<1>2. \A r \in Runs : RunLoan(r)
  <2> SUFFICES ASSUME NEW r \in Runs PROVE RunLoan(r)
    OBVIOUS
  <2>1. pc[r] = "idle" /\ writes[r] = <<>>
    BY DEF Init
  <2>2. WritesPlaced(r) /\ SnapshotKept(r) /\ LastRestored(r) /\ SlotsLent(r)
    BY <2>1, PointsInType DEF WritesPlaced, SnapshotKept, LastRestored, SlotsLent
  <2>3. \A p \in Loanable : stored[p] # r
    BY PointsAssumption, RunsAssumption DEF Init, Loanable
  <2>4. MarksOwed(r)
    BY <2>3 DEF MarksOwed
  <2>5. QED BY <2>2, <2>4 DEF RunLoan
<1>3. DownWiped /\ OwnKept
  BY DEF Init, DownWiped, OwnKept, Up
<1>4. QED BY <1>1, <1>2, <1>3 DEF LoanInv

(* Every step keeps what is known of loans.                                *)
LEMMA LoanStep ==
  ASSUME LoanInv, [Next]_vars PROVE LoanInv'
<1>1. LoanInv
  OBVIOUS
<1>2. TypeOK'
  BY TypeHolds DEF LoanInv
<1>3. LoanInv'
  <2>1. ASSUME NEW r \in Runs, NEW t \in Tests, CheckActive(r, t)
        PROVE  LoanInv'
    BY <1>1, <1>2, <2>1, CheckActiveKeeps
  <2>2. ASSUME NEW r \in Runs, BuildCache(r)
        PROVE  LoanInv'
    BY <1>1, <1>2, <2>2, BuildCacheKeeps
  <2>3. ASSUME NEW r \in Runs, CreateRow(r)
        PROVE  LoanInv'
    <3>1. Goto(r, "scheduled") /\ UNCHANGED LoanVars /\ UNCHANGED rebuilder
      BY <2>3 DEF CreateRow, LoanVars, history
    <3>2. MayGoTo(r, "scheduled")
      BY <2>3, <1>1 DEF CreateRow, MayGoTo, Lending, GivingBack, LoanInv, RunLoan, WritesPlaced
    <3>3. QED BY <1>1, <1>2, <3>1, <3>2, MoveKeeps
  <2>4. ASSUME NEW r \in Runs, MarkRunning(r)
        PROVE  LoanInv'
    <3>1. /\ UNCHANGED <<testOf, stored, rebuilder, own, contested, poisoned>>
          /\ pc[r] = "scheduled" /\ writes[r] = <<>>
      BY <2>4, <1>1 DEF MarkRunning, Lending, GivingBack, LoanInv, RunLoan, WritesPlaced
    <3>2. CASE Goto(r, "running") /\ UNCHANGED <<cache, writes, target>>
      <4>1. MayGoTo(r, "running") /\ UNCHANGED LoanVars
        BY <3>1, <3>2 DEF MayGoTo, Lending, LoanVars
      <4>2. QED BY <1>1, <1>2, <3>1, <3>2, <4>1, MoveKeeps
    <3>3. CASE Leave(r)
      BY <1>1, <1>2, <3>1, <3>3, LeaveEarly
    <3>4. QED BY <2>4, <3>2, <3>3 DEF MarkRunning
  <2>5. ASSUME NEW r \in Runs, Observe(r)
        PROVE  LoanInv'
    BY <1>1, <1>2, <2>5, StillKeeps DEF Observe, LoanVars, history
  <2>6. ASSUME NEW r \in Runs, Wait(r)
        PROVE  LoanInv'
    <3>1. Goto(r, "waiting") /\ UNCHANGED LoanVars /\ UNCHANGED rebuilder
      BY <2>6 DEF Wait, NextStep, LoanVars, history
    <3>2. MayGoTo(r, "waiting")
      BY <2>6, <1>1 DEF Wait, NextStep, MayGoTo, Lending, GivingBack, LoanInv, RunLoan, WritesPlaced
    <3>3. QED BY <1>1, <1>2, <3>1, <3>2, MoveKeeps
  <2>7. ASSUME NEW r \in Runs, WaitOver(r)
        PROVE  LoanInv'
    <3>1. Goto(r, "running") /\ UNCHANGED LoanVars /\ UNCHANGED rebuilder
      BY <2>7 DEF WaitOver, LoanVars, history
    <3>2. MayGoTo(r, "running")
      BY <2>7, <1>1 DEF WaitOver, MayGoTo, Lending, GivingBack, LoanInv, RunLoan, WritesPlaced
    <3>3. QED BY <1>1, <1>2, <3>1, <3>2, MoveKeeps
  <2>8. ASSUME NEW r \in Runs, NEW p \in Points, SetPriority(r, p)
        PROVE  LoanInv'
    BY <1>1, <1>2, <2>8, SetPriorityKeeps
  <2>9. ASSUME NEW r \in Runs, NEW p \in Points, SetStored(r, p)
        PROVE  LoanInv'
    BY <1>1, <1>2, <2>9, SetStoredKeeps
  <2>10. ASSUME NEW r \in Runs, SetLive(r)
        PROVE  LoanInv'
    BY <1>1, <1>2, <2>10, SetLiveKeeps
  <2>11. ASSUME NEW r \in Runs, Finish(r)
        PROVE  LoanInv'
    BY <1>1, <1>2, <2>11, EndsKeeps DEF Finish
  <2>12. ASSUME NEW r \in Runs, TimeOut(r)
        PROVE  LoanInv'
    BY <1>1, <1>2, <2>12, EndsKeeps DEF TimeOut
  <2>13. ASSUME NEW r \in Runs, SeeCancel(r)
        PROVE  LoanInv'
    BY <1>1, <1>2, <2>13, EndsKeeps DEF SeeCancel
  <2>14. ASSUME NEW r \in Runs, Abort(r)
        PROVE  LoanInv'
    BY <1>1, <1>2, <2>14, EndsKeeps DEF Abort
  <2>15. ASSUME NEW r \in Runs, Raise(r)
        PROVE  LoanInv'
    BY <1>1, <1>2, <2>15, EndsKeeps DEF Raise
  <2>16. ASSUME NEW r \in Runs, Relinquish(r)
        PROVE  LoanInv'
    BY <1>1, <1>2, <2>16, RelinquishKeeps
  <2>17. ASSUME NEW r \in Runs, RestoreManual(r)
        PROVE  LoanInv'
    BY <1>1, <1>2, <2>17, RestoreManualKeeps
  <2>18. ASSUME NEW r \in Runs, RestoreBehavior(r)
        PROVE  LoanInv'
    BY <1>1, <1>2, <2>18, RestoreBehaviorKeeps
  <2>19. ASSUME NEW r \in Runs, TearDown(r)
        PROVE  LoanInv'
    BY <1>1, <1>2, <2>19, TearDownKeeps
  <2>20. ASSUME NEW r \in Runs, Rebuild(r)
        PROVE  LoanInv'
    BY <1>1, <1>2, <2>20, RebuildKeeps
  <2>21. ASSUME NEW r \in Runs, Report(r)
        PROVE  LoanInv'
    BY <1>1, <1>2, <2>21, ReportKeeps
  <2>22. ASSUME NEW r \in Runs, Done(r)
        PROVE  LoanInv'
    BY <1>1, <1>2, <2>22, LeaveEarly DEF Done, history
  <2>23. ASSUME NEW r \in Runs, Cancel(r)
        PROVE  LoanInv'
    BY <1>1, <1>2, <2>23, StillKeeps DEF Cancel, LoanVars, runVars, history, Up
  <2>24. ASSUME NEW p \in Points, OperatorWrite(p)
        PROVE  LoanInv'
    BY <1>1, <1>2, <2>24, OperatorWriteKeeps
  <2>25. CASE EditTearDown
    BY <1>1, <1>2, <2>25, EditTearDownKeeps
  <2>26. CASE EditRebuild
    BY <1>1, <1>2, <2>26, StillKeeps DEF EditRebuild, LoanVars, runVars, history, Up
  <2>27. CASE ToggleClock
    BY <1>1, <1>2, <2>27, StillKeeps DEF ToggleClock, LoanVars, runVars, history, Up
  <2>28. CASE Crash
    BY <1>1, <1>2, <2>28, CrashKeeps
  <2>29. CASE UNCHANGED vars
    BY <1>1, <1>2, <2>29, StillKeeps DEF vars, runVars, history, LoanVars
  <2>30. QED
    BY <2>1, <2>2, <2>3, <2>4, <2>5, <2>6, <2>7, <2>8, <2>9, <2>10, <2>11,
       <2>12, <2>13, <2>14, <2>15, <2>16, <2>17, <2>18, <2>19, <2>20, <2>21,
       <2>22, <2>23, <2>24, <2>25, <2>26, <2>27, <2>28, <2>29
       DEF Next, RunStep, Prepare, Walk, Restore
<1>4. QED BY <1>3

(* What is known of loans holds always.                                    *)
LEMMA LoanInvariant == Spec => []LoanInv
<1>1. QED BY LoanInit, LoanStep, PTL DEF Spec

(* A value a Set node left in a point is always one that a living task still has
   to take out (runs.py, restore_writes). *)
THEOREM MarksOwedAlways == Spec => []MarksAreOwed
<1>1. LoanInv => MarksAreOwed
  BY DEF LoanInv, RunLoan, MarksOwed, MarksAreOwed, Loanable
<1>2. QED BY <1>1, LoanInvariant, PTL

(* When no run is left, commandable and manual points hold again what people had
   put there (runs.py, the comment before restore_writes). *)
THEOREM LoansGivenBack == Spec => []GivesBack
<1>1. ASSUME LoanInv, Quiet,
             NEW p \in (Commandable \cup Manual) \ (poisoned \cup contested)
      PROVE  stored[p] = own[p]
  <2>1. stored[p] \notin Runs
    <3> SUFFICES ASSUME stored[p] \in Runs PROVE FALSE
      OBVIOUS
    <3> DEFINE r == stored[p]
    <3>1. pc[r] \in {"idle", "done"} /\ RunLoan(r) /\ Owes(r, p)
      BY <1>1 DEF LoanInv, RunLoan, MarksOwed, Quiet, Alive, Loanable
    <3>2. writes[r] = <<>>
      BY <3>1 DEF RunLoan, WritesPlaced, Lending, GivingBack
    <3>3. QED BY <3>1, <3>2, PointsInType DEF Owes
  <2>2. QED BY <1>1, <2>1 DEF LoanInv, OwnKept, Loanable
<1>2. LoanInv => GivesBack
  BY <1>1 DEF GivesBack
<1>3. QED BY <1>2, LoanInvariant, PTL

===========================================================================
