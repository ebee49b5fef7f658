----------------------- MODULE FaultDetectionProofs -----------------------
(***************************************************************************)
(* Proofs about FaultDetection for any set of evaluators and any delays,   *)
(* and about the rules themselves (FaultRules) for every reading: which of *)
(* them may find a fault together, each pair by the arithmetic of its two  *)
(* thresholds, and what they find when points are missing.                 *)
(***************************************************************************)
EXTENDS FaultDetection, FaultRules, TLAPS

(* The state machine maps rule states to rule states. *)
LEMMA AdvanceStateType ==
  ASSUME NEW r \in RuleRuntimeState, NEW obs \in Observations, NEW now \in Timestamp
  PROVE  AdvanceState(r, obs, now) \in RuleRuntimeState
<1>1. CASE obs = "unevaluable"
  <2>1. AdvanceState(r, obs, now) = AdvanceUnevaluable(r)
    BY <1>1 DEF AdvanceState
  <2>2. AdvanceUnevaluable(r) \in RuleRuntimeState
    BY DEF AdvanceUnevaluable, RuleRuntimeState, FaultState, OptionalTimestamp
  <2>3. QED BY <2>1, <2>2
<1>2. CASE obs = "present"
  <2>1. AdvanceState(r, obs, now) = AdvancePresent(r, now)
    BY <1>2 DEF AdvanceState
  <2>2. AdvancePresent(r, now) \in RuleRuntimeState
    BY DEF AdvancePresent, RuleRuntimeState, FaultState, OptionalTimestamp
  <2>3. QED BY <2>1, <2>2
<1>3. CASE obs = "absent"
  <2>1. AdvanceState(r, obs, now) = AdvanceAbsent(r, now)
    BY <1>3 DEF AdvanceState
  <2> DEFINE since == IF r.clear_started_at = None THEN now ELSE r.clear_started_at
  <2>2. since \in Timestamp
    BY DEF RuleRuntimeState, OptionalTimestamp, Timestamp
  <2>3. (now - since >= Clear) \/ (now - since < Clear)
    BY <2>2, DelaysAssumption DEF Timestamp
  <2>4. AdvanceAbsent(r, now) \in RuleRuntimeState
    BY <2>2, <2>3 DEF AdvanceAbsent, RuleRuntimeState, FaultState, OptionalTimestamp
  <2>5. QED BY <2>1, <2>4
<1>4. QED BY <1>1, <1>2, <1>3 DEF Observations

---------------------------------------------------------------------------
(* Type correctness. *)
THEOREM TypeCorrect == Spec => []TypeOK
<1>1. Init => TypeOK
  <2>1. FreshRuntime \in RuleRuntimeState
    BY DEF FreshRuntime, RuleRuntimeState, FaultState, OptionalTimestamp
  <2>2. /\ NoContext \in [obs: Observations, stamp: Timestamp]
        /\ NoStreak \in [obs: Observations \cup {"none"}, since: Timestamp]
    BY DEF NoContext, NoStreak, Observations, Timestamp
  <2>3. NoEvaluation \in [previous: FaultState, state: FaultState]
    BY DEF NoEvaluation, FaultState
  <2> SUFFICES ASSUME Init PROVE TypeOK
    OBVIOUS
  <2>4. disturbed \in BOOLEAN
    BY DEF Init
  <2>5. clock \in Timestamp /\ lastEvent \in FaultState /\ lastAlarm \in {"none", "offnormal", "normal"}
    BY DEF Init, Timestamp, FaultState
  <2>6. /\ pc \in [Evaluators -> {"idle", "advance", "record", "publish"}]
        /\ context \in [Evaluators -> [obs: Observations, stamp: Timestamp]]
        /\ evaluation \in [Evaluators -> [previous: FaultState, state: FaultState]]
    BY <2>2, <2>3 DEF Init
  <2>7. runtime \in RuleRuntimeState /\ streak \in [obs: Observations \cup {"none"}, since: Timestamp]
    BY <2>1, <2>2 DEF Init
  <2>8. QED
    BY <2>4, <2>5, <2>6, <2>7 DEF TypeOK
<1>2. TypeOK /\ [Next]_vars => TypeOK'
  <2> SUFFICES ASSUME TypeOK, [Next]_vars
               PROVE  TypeOK'
    OBVIOUS
  <2> USE DEF TypeOK
  <2>1. CASE Tick
    BY <2>1, MaxTimeAssumption DEF Tick, Timestamp
  <2>2. ASSUME NEW e \in Evaluators, Sample(e)
        PROVE  TypeOK'
    BY <2>2 DEF Sample, Timestamp, Observations
  <2>3. ASSUME NEW e \in Evaluators, Advance(e)
        PROVE  TypeOK'
    <3> DEFINE next == AdvanceState(runtime, context[e].obs, context[e].stamp)
    <3>1. next \in RuleRuntimeState
      BY AdvanceStateType
    <3>2. Transition(runtime, next) \in [previous: FaultState, state: FaultState]
      BY <3>1 DEF Transition, RuleRuntimeState
    <3>3. NoContext \in [obs: Observations, stamp: Timestamp]
      BY DEF NoContext, Observations, Timestamp
    <3>4. Extend(streak, context[e]) \in [obs: Observations \cup {"none"}, since: Timestamp]
      BY DEF Extend
    <3>5. runtime' = next /\ streak' = Extend(streak, context[e])
      BY <2>3 DEF Advance
    <3>6. context' = [context EXCEPT ![e] = NoContext]
      BY <2>3 DEF Advance
    <3>7. UNCHANGED <<clock, lastEvent, lastAlarm, disturbed>>
      BY <2>3 DEF Advance
    <3>8. /\ pc' \in [Evaluators -> {"idle", "advance", "record", "publish"}]
          /\ evaluation' \in [Evaluators -> [previous: FaultState, state: FaultState]]
      <4>1. CASE next.state # runtime.state
        <5>1. /\ evaluation' = [evaluation EXCEPT ![e] = Transition(runtime, next)]
              /\ pc' = [pc EXCEPT ![e] = "record"]
          BY <2>3, <4>1 DEF Advance
        <5>2. QED BY <3>2, <5>1
      <4>2. CASE next.state = runtime.state
        <5>1. evaluation' = evaluation /\ pc' = [pc EXCEPT ![e] = "idle"]
          BY <2>3, <4>2 DEF Advance
        <5>2. QED BY <5>1
      <4>3. QED BY <4>1, <4>2
    <3>9. QED
      BY <3>1, <3>3, <3>4, <3>5, <3>6, <3>7, <3>8
  <2>4. ASSUME NEW e \in Evaluators, Record(e)
        PROVE  TypeOK'
    BY <2>4 DEF Record, Return, NoEvaluation, FaultState
  <2>5. ASSUME NEW e \in Evaluators, PublishAlert(e)
        PROVE  TypeOK'
    BY <2>5 DEF PublishAlert, Return, NoEvaluation, FaultState, ToState
  <2>6. ASSUME NEW e \in Evaluators, Fail(e)
        PROVE  TypeOK'
    BY <2>6 DEF Fail, Return, NoEvaluation, NoContext, FaultState, Observations, Timestamp
  <2>7. CASE Restart
    BY <2>7 DEF Restart, FreshRuntime, NoStreak, NoContext, NoEvaluation, Observations,
                FaultState, Timestamp, OptionalTimestamp, RuleRuntimeState
  <2>8. CASE UNCHANGED vars
    BY <2>8 DEF vars
  <2>9. QED
    BY <2>1, <2>2, <2>3, <2>4, <2>5, <2>6, <2>7, <2>8 DEF Next
<1>3. QED
  BY <1>1, <1>2, PTL DEF Spec

---------------------------------------------------------------------------
(* The timers. *)

\* TimersMeasureStreak of any rule state and series.
Timed(r, s) ==
  /\ r.condition_started_at = IF s.obs = "present" THEN s.since ELSE None
  /\ r.clear_started_at =
       IF s.obs = "absent" /\ r.state = "active" THEN s.since ELSE None

(* One evaluation extends the series and keeps both timers on it. *)
LEMMA AdvanceKeepsTimers ==
  ASSUME NEW r \in RuleRuntimeState, NEW c \in [obs: Observations, stamp: Timestamp],
         NEW s \in [obs: Observations \cup {"none"}, since: Timestamp],
         Timed(r, s)
  PROVE  Timed(AdvanceState(r, c.obs, c.stamp), Extend(s, c))
<1> DEFINE t == Extend(s, c)
<1>0. t.obs = c.obs /\ (s.obs = c.obs => t = s) /\ (s.obs # c.obs => t.since = c.stamp)
  BY DEF Extend
<1>1. CASE c.obs = "unevaluable"
  <2>1. AdvanceState(r, c.obs, c.stamp) = AdvanceUnevaluable(r)
    BY <1>1 DEF AdvanceState
  <2>2. Timed(AdvanceUnevaluable(r), t)
    BY <1>0, <1>1 DEF Timed, AdvanceUnevaluable, RuleRuntimeState
  <2>3. QED BY <2>1, <2>2
<1>2. CASE c.obs = "present"
  <2>1. AdvanceState(r, c.obs, c.stamp) = AdvancePresent(r, c.stamp)
    BY <1>2 DEF AdvanceState
  <2>2. Timed(AdvancePresent(r, c.stamp), t)
    BY <1>0, <1>2, NoneAssumption DEF Timed, AdvancePresent, RuleRuntimeState, Timestamp
  <2>3. QED BY <2>1, <2>2
<1>3. CASE c.obs = "absent"
  <2>1. AdvanceState(r, c.obs, c.stamp) = AdvanceAbsent(r, c.stamp)
    BY <1>3 DEF AdvanceState
  <2> DEFINE since == IF r.clear_started_at = None THEN c.stamp ELSE r.clear_started_at
  <2>2. since \in Timestamp
    BY DEF RuleRuntimeState, OptionalTimestamp, Timestamp
  <2>3. (c.stamp - since >= Clear) \/ (c.stamp - since < Clear)
    BY <2>2, DelaysAssumption DEF Timestamp
  <2>4. Timed(AdvanceAbsent(r, c.stamp), t)
    <3>1. CASE r.state = "active"
      <4>1. since = t.since
        BY <1>0, <1>3, <3>1, NoneAssumption DEF Timed, Timestamp
      <4>2. QED
        BY <1>0, <1>3, <2>2, <2>3, <3>1, <4>1 DEF Timed, AdvanceAbsent, RuleRuntimeState
    <3>2. CASE r.state # "active"
      BY <1>0, <1>3, <3>2 DEF Timed, AdvanceAbsent, RuleRuntimeState, FaultState
    <3>3. QED BY <3>1, <3>2
  <2>5. QED BY <2>1, <2>4
<1>4. QED BY <1>1, <1>2, <1>3 DEF Observations

(* The persistence and clear timers always measure exactly the current     *)
(* unbroken series of like evaluations.                                    *)
THEOREM TimersCorrect == Spec => []TimersMeasureStreak
<1>1. Init => TimersMeasureStreak
  BY DEF Init, TimersMeasureStreak, FreshRuntime, NoStreak
<1>2. TypeOK /\ TimersMeasureStreak /\ [Next]_vars => TimersMeasureStreak'
  <2> SUFFICES ASSUME TypeOK, TimersMeasureStreak, [Next]_vars
               PROVE  TimersMeasureStreak'
    OBVIOUS
  <2>1. CASE UNCHANGED <<runtime, streak>>
    BY <2>1 DEF TimersMeasureStreak
  <2>2. ASSUME NEW e \in Evaluators, Advance(e)
        PROVE  TimersMeasureStreak'
    <3>1. Timed(runtime, streak)
      BY DEF Timed, TimersMeasureStreak
    <3>2. Timed(AdvanceState(runtime, context[e].obs, context[e].stamp),
                Extend(streak, context[e]))
      BY <3>1, AdvanceKeepsTimers DEF TypeOK
    <3>3. runtime' = AdvanceState(runtime, context[e].obs, context[e].stamp)
          /\ streak' = Extend(streak, context[e])
      BY <2>2 DEF Advance
    <3>4. QED
      BY <3>2, <3>3 DEF Timed, TimersMeasureStreak
  <2>3. CASE Restart
    BY <2>3 DEF Restart, TimersMeasureStreak, FreshRuntime, NoStreak
  <2>4. QED
    BY <2>1, <2>2, <2>3
    DEF Next, vars, Tick, Sample, Record, PublishAlert, Fail
<1>3. QED
  BY <1>1, <1>2, TypeCorrect, PTL DEF Spec

---------------------------------------------------------------------------
(* What a transition into or out of ACTIVE took. *)

(* _advance_state makes a rule ACTIVE on "present" alone, and only once the *)
(* persistence timer has run.                                               *)
LEMMA ActivatingEvaluation ==
  ASSUME NEW r \in RuleRuntimeState, NEW c \in [obs: Observations, stamp: Timestamp],
         r.state # "active", AdvanceState(r, c.obs, c.stamp).state = "active"
  PROVE  /\ c.obs = "present"
         /\ c.stamp - AdvanceState(r, c.obs, c.stamp).condition_started_at >= Persistence
<1>1. c.obs # "unevaluable"
  BY DEF AdvanceState, AdvanceUnevaluable, RuleRuntimeState
<1>2. c.obs # "absent"
  BY DEF AdvanceState, AdvanceAbsent, RuleRuntimeState, FaultState
<1>3. CASE c.obs = "present"
  <2>1. AdvanceState(r, c.obs, c.stamp) = AdvancePresent(r, c.stamp)
    BY <1>3 DEF AdvanceState
  <2>2. QED
    BY <1>3, <2>1 DEF AdvancePresent
<1>4. QED
  BY <1>1, <1>2, <1>3 DEF Observations

(* A rule becomes ACTIVE only on evidence present without interruption for *)
(* the persistence delay, whatever the evaluators do.                      *)
THEOREM ActivationIsEarned == Spec => ActivationEarned
<1>1. TypeOK /\ TimersMeasureStreak /\ TimersMeasureStreak' /\ [Next]_vars
        => [runtime.state # "active" /\ runtime'.state = "active"
              => AppliedAfter("present", Persistence)]_vars
  <2> SUFFICES ASSUME TypeOK, TimersMeasureStreak', [Next]_vars,
                      runtime.state # "active", runtime'.state = "active"
               PROVE  AppliedAfter("present", Persistence)
    OBVIOUS
  <2>1. runtime' # runtime
    OBVIOUS
  <2>2. ~Restart
    BY DEF Restart, FreshRuntime
  <2>3. PICK e \in Evaluators : Advance(e)
    BY <2>1, <2>2 DEF Next, vars, Tick, Sample, Record, PublishAlert, Fail
  <2>4. /\ runtime' = AdvanceState(runtime, context[e].obs, context[e].stamp)
        /\ pc[e] = "advance"
        /\ streak' = Extend(streak, context[e])
    BY <2>3 DEF Advance
  <2>5. /\ context[e].obs = "present"
        /\ context[e].stamp - runtime'.condition_started_at >= Persistence
    BY <2>4, ActivatingEvaluation DEF TypeOK
  <2>6. streak'.obs = "present"
    BY <2>4, <2>5 DEF Extend
  <2>7. runtime'.condition_started_at = streak'.since
    BY <2>6 DEF TimersMeasureStreak
  <2>8. pc'[e] # "advance"
    BY <2>3 DEF Advance, TypeOK
  <2>9. QED
    BY <2>4, <2>5, <2>6, <2>7, <2>8 DEF AppliedAfter
<1>2. QED
  BY <1>1, TypeCorrect, TimersCorrect, PTL DEF Spec, ActivationEarned

(* _advance_state clears an ACTIVE rule on "absent" alone, and only once   *)
(* clear_seconds have passed since the clear timer's start.                *)
LEMMA ClearingEvaluation ==
  ASSUME NEW r \in RuleRuntimeState, NEW c \in [obs: Observations, stamp: Timestamp],
         r.state = "active", AdvanceState(r, c.obs, c.stamp).state = "cleared"
  PROVE  /\ c.obs = "absent"
         /\ c.stamp - (IF r.clear_started_at = None THEN c.stamp ELSE r.clear_started_at)
              >= Clear
<1>1. c.obs # "unevaluable"
  BY DEF AdvanceState, AdvanceUnevaluable, RuleRuntimeState
<1>2. c.obs # "present"
  BY DEF AdvanceState, AdvancePresent, RuleRuntimeState
<1>3. CASE c.obs = "absent"
  <2> DEFINE since == IF r.clear_started_at = None THEN c.stamp ELSE r.clear_started_at
  <2>1. AdvanceState(r, c.obs, c.stamp) = AdvanceAbsent(r, c.stamp)
    BY <1>3 DEF AdvanceState
  <2>2. since \in Timestamp
    BY DEF RuleRuntimeState, OptionalTimestamp, Timestamp
  <2>3. (c.stamp - since >= Clear) \/ (c.stamp - since < Clear)
    BY <2>2, DelaysAssumption DEF Timestamp
  <2>4. CASE c.stamp - since < Clear
    <3>1. ~(c.stamp - since >= Clear)
      BY <2>2, <2>4, DelaysAssumption DEF Timestamp
    <3>2. AdvanceAbsent(r, c.stamp) =
            [[r EXCEPT !.condition_started_at = None] EXCEPT !.clear_started_at = since]
      BY <2>4, <3>1 DEF AdvanceAbsent, RuleRuntimeState
    <3>3. AdvanceAbsent(r, c.stamp).state = "active"
      BY <3>2 DEF RuleRuntimeState
    <3>4. QED BY <2>1, <3>3
  <2>5. QED BY <1>3, <2>3, <2>4
<1>4. QED
  BY <1>1, <1>2, <1>3 DEF Observations

(* An ACTIVE fault is CLEARED only after the clear delay of uninterrupted, *)
(* evaluable absence.                                                      *)
THEOREM ClearIsEarned == Spec => ClearEarned
<1>1. TypeOK /\ TimersMeasureStreak /\ [Next]_vars
        => [runtime.state = "active" /\ runtime'.state = "cleared"
              => AppliedAfter("absent", Clear)]_vars
  <2> SUFFICES ASSUME TypeOK, TimersMeasureStreak, [Next]_vars,
                      runtime.state = "active", runtime'.state = "cleared"
               PROVE  AppliedAfter("absent", Clear)
    OBVIOUS
  <2>1. runtime' # runtime
    OBVIOUS
  <2>2. ~Restart
    BY DEF Restart, FreshRuntime
  <2>3. PICK e \in Evaluators : Advance(e)
    BY <2>1, <2>2 DEF Next, vars, Tick, Sample, Record, PublishAlert, Fail
  <2>4. /\ runtime' = AdvanceState(runtime, context[e].obs, context[e].stamp)
        /\ pc[e] = "advance"
        /\ streak' = Extend(streak, context[e])
    BY <2>3 DEF Advance
  <2> DEFINE since == IF runtime.clear_started_at = None THEN context[e].stamp
                                                        ELSE runtime.clear_started_at
  <2>5. /\ context[e].obs = "absent"
        /\ context[e].stamp - since >= Clear
    BY <2>4, ClearingEvaluation DEF TypeOK
  <2>6. streak'.obs = "absent" /\ streak'.since = since
    <3>1. CASE streak.obs = "absent"
      BY <2>4, <2>5, <3>1, NoneAssumption
      DEF Extend, TimersMeasureStreak, TypeOK, Timestamp
    <3>2. CASE streak.obs # "absent"
      BY <2>4, <2>5, <3>2 DEF Extend, TimersMeasureStreak
    <3>3. QED BY <3>1, <3>2
  <2>7. pc'[e] # "advance"
    BY <2>3 DEF Advance, TypeOK
  <2>8. QED
    BY <2>4, <2>5, <2>6, <2>7 DEF AppliedAfter
<1>2. QED
  BY <1>1, TypeCorrect, TimersCorrect, PTL DEF Spec, ClearEarned

---------------------------------------------------------------------------
(* What the two tables say.  EventsChain and AlarmOpenIffActivated are     *)
(* about states in which nothing is being reported; Told says what holds   *)
(* on the way there.                                                       *)

\* An ACTIVE rule knows since when.
ActiveIsDated == runtime.state = "active" => runtime.activated_at # None

AlarmTold == lastAlarm = "offnormal" <=> runtime.activated_at # None

\* One evaluator at a time; what it reports is the state of the rule, and a
\* change that is not published leaves the alarm as it was.
Told ==
  ~disturbed =>
    /\ \A e, o \in Evaluators : e # o => pc[e] = "idle" \/ pc[o] = "idle"
    /\ \A e \in Evaluators : Reporting(e) =>
         /\ evaluation[e].state = runtime.state
         /\ pc[e] = "publish" => evaluation[e].state \in {"active", "cleared"}
         /\ evaluation[e].state = "cleared" => runtime.activated_at = None
         /\ evaluation[e].state \in {"normal", "pending"} => AlarmTold

ReportInv == ActiveIsDated /\ Told /\ EventsChain /\ AlarmOpenIffActivated

(* What an evaluation does to the activation time: set when the rule        *)
(* becomes ACTIVE, forgotten when it is CLEARED, otherwise left.            *)
LEMMA AdvanceDates ==
  ASSUME NEW r \in RuleRuntimeState, NEW obs \in Observations, NEW now \in Timestamp,
         r.state = "active" => r.activated_at # None,
         NEW next, next = AdvanceState(r, obs, now)
  PROVE  /\ next.state = "active" => next.activated_at # None
         /\ next.state = "cleared" => next.activated_at = None /\ r.state # "cleared"
         /\ next.state \in {"normal", "pending"} => next.activated_at = r.activated_at
<1>1. CASE obs = "unevaluable"
  <2>1. next = AdvanceUnevaluable(r)
    BY <1>1 DEF AdvanceState
  <2> QED
    BY <2>1 DEF AdvanceUnevaluable, RuleRuntimeState, FaultState
<1>2. CASE obs = "present"
  <2>1. next = AdvancePresent(r, now)
    BY <1>2 DEF AdvanceState
  <2> QED
    BY <2>1, NoneAssumption DEF AdvancePresent, RuleRuntimeState, FaultState, Timestamp
<1>3. CASE obs = "absent"
  <2>1. next = AdvanceAbsent(r, now)
    BY <1>3 DEF AdvanceState
  <2> DEFINE since == IF r.clear_started_at = None THEN now ELSE r.clear_started_at
  <2>2. since \in Nat
    BY DEF RuleRuntimeState, OptionalTimestamp, Timestamp
  <2>3. (now - since >= Clear) <=> ~(now - since < Clear)
    BY <2>2, DelaysAssumption DEF Timestamp
  <2> HIDE DEF since
  <2> DEFINE quiet == [r EXCEPT !.condition_started_at = None]
  <2>4. CASE r.state = "active" /\ now - since >= Clear
    <3>1. next = [quiet EXCEPT !.state = "cleared", !.cleared_at = now,
                               !.activated_at = None, !.clear_started_at = None]
      BY <2>1, <2>3, <2>4 DEF AdvanceAbsent, since
    <3> QED
      BY <2>4, <3>1 DEF RuleRuntimeState
  <2>5. CASE r.state = "active" /\ now - since < Clear
    <3>1. next = [quiet EXCEPT !.clear_started_at = since]
      BY <2>1, <2>3, <2>5 DEF AdvanceAbsent, since
    <3> QED
      BY <2>5, <3>1 DEF RuleRuntimeState
  <2>6. CASE r.state # "active"
    BY <2>1, <2>6 DEF AdvanceAbsent, RuleRuntimeState, FaultState
  <2> QED
    BY <2>3, <2>4, <2>5, <2>6
<1> QED
  BY <1>1, <1>2, <1>3 DEF Observations

(* The states between the evaluation of a rule and its last report.        *)
LEMMA Reports == Spec => []ReportInv
<1>1. Init => ReportInv
  BY DEF Init, ReportInv, ActiveIsDated, Told, AlarmTold, EventsChain, AlarmOpenIffActivated, Reporting,
         FreshRuntime
<1>2. TypeOK /\ ReportInv /\ [Next]_vars => ReportInv'
  <2> SUFFICES ASSUME TypeOK, ReportInv, [Next]_vars PROVE ReportInv'
    OBVIOUS
  <2>0. ActiveIsDated /\ Told /\ EventsChain /\ AlarmOpenIffActivated
    BY DEF ReportInv
  <2>1. CASE Tick \/ UNCHANGED vars
    <3>1. UNCHANGED <<runtime, pc, evaluation, lastEvent, lastAlarm, disturbed>>
      BY <2>1 DEF Tick, vars
    <3> QED
      BY <2>0, <3>1 DEF ReportInv, ActiveIsDated, Told, AlarmTold, EventsChain, AlarmOpenIffActivated, Reporting
  <2>2. ASSUME NEW e \in Evaluators, Sample(e) PROVE ReportInv'
    <3>1. /\ pc[e] = "idle" /\ pc' = [pc EXCEPT ![e] = "advance"]
          /\ UNCHANGED <<runtime, evaluation, lastEvent, lastAlarm>>
          /\ ~disturbed' => ~disturbed /\ \A o \in Evaluators \ {e} : pc[o] = "idle"
      BY <2>2 DEF Sample
    <3>2. /\ pc'[e] = "advance" /\ \A o \in Evaluators \ {e} : pc'[o] = pc[o]
      BY <3>1 DEF TypeOK
    <3> QED
      BY <2>0, <3>1, <3>2 DEF ReportInv, ActiveIsDated, Told, AlarmTold, EventsChain, AlarmOpenIffActivated, Reporting
  <2>3. ASSUME NEW e \in Evaluators, Advance(e) PROVE ReportInv'
    <3> DEFINE next == AdvanceState(runtime, context[e].obs, context[e].stamp)
    <3>1. /\ pc[e] = "advance" /\ runtime' = next
          /\ UNCHANGED <<lastEvent, lastAlarm, disturbed>>
          /\ IF next.state # runtime.state
             THEN /\ evaluation' = [evaluation EXCEPT ![e] = Transition(runtime, next)]
                  /\ pc' = [pc EXCEPT ![e] = "record"]
             ELSE UNCHANGED evaluation /\ pc' = [pc EXCEPT ![e] = "idle"]
      BY <2>3 DEF Advance
    <3>2. /\ next.state = "active" => next.activated_at # None
          /\ next.state = "cleared" => next.activated_at = None /\ runtime.state # "cleared"
          /\ next.state \in {"normal", "pending"} => next.activated_at = runtime.activated_at
      BY <2>0, AdvanceDates DEF ActiveIsDated, TypeOK
    <3>3. next.state \in FaultState /\ runtime.state \in FaultState
      BY AdvanceStateType DEF TypeOK, RuleRuntimeState
    <3> HIDE DEF next
    <3>4. ~disturbed => /\ \A o \in Evaluators \ {e} : pc[o] = "idle"
                        /\ lastEvent = runtime.state /\ AlarmTold
      BY <2>0, <3>1 DEF Told, EventsChain, AlarmOpenIffActivated, AlarmTold, Reporting
    <3>5. \A o \in Evaluators \ {e} : pc'[o] = pc[o]
      BY <3>1 DEF TypeOK
    <3>6. ActiveIsDated'
      BY <3>1, <3>2 DEF ActiveIsDated
    <3>7. CASE next.state # runtime.state
      <4>1. pc'[e] = "record" /\ evaluation'[e] = [previous |-> runtime.state, state |-> next.state]
        BY <3>1, <3>7 DEF TypeOK, Transition
      <4>2. Told'
        BY <3>1, <3>2, <3>4, <3>5, <4>1 DEF Told, Reporting, AlarmTold
      <4>3. EventsChain' /\ AlarmOpenIffActivated'
        BY <3>1, <3>4, <3>5, <4>1 DEF EventsChain, AlarmOpenIffActivated, Reporting
      <4> QED
        BY <3>6, <4>2, <4>3 DEF ReportInv
    <3>8. CASE next.state = runtime.state
      <4>1. pc'[e] = "idle"
        BY <3>1, <3>8 DEF TypeOK
      <4>2. ~disturbed => AlarmTold'
        BY <2>0, <3>1, <3>2, <3>3, <3>4, <3>8 DEF AlarmTold, ActiveIsDated, FaultState
      <4>3. Told'
        BY <3>1, <3>4, <3>5, <4>1 DEF Told, Reporting
      <4>4. EventsChain' /\ AlarmOpenIffActivated'
        BY <3>1, <3>4, <3>5, <3>8, <4>1, <4>2 DEF EventsChain, AlarmOpenIffActivated, AlarmTold, Reporting
      <4> QED
        BY <3>6, <4>3, <4>4 DEF ReportInv
    <3> QED
      BY <3>7, <3>8
  <2>4. ASSUME NEW e \in Evaluators, Record(e) PROVE ReportInv'
    <3>1. /\ pc[e] = "record" /\ lastEvent' = evaluation[e].state
          /\ UNCHANGED <<runtime, lastAlarm, disturbed>>
      BY <2>4 DEF Record
    <3>2. ~disturbed => /\ \A o \in Evaluators \ {e} : pc[o] = "idle"
                        /\ evaluation[e].state = runtime.state
      BY <2>0, <3>1 DEF Told, Reporting
    <3>3. \A o \in Evaluators \ {e} : pc'[o] = pc[o]
      BY <2>4 DEF Record, Return, TypeOK
    <3>4. pc'[e] = IF evaluation[e].state \in {"active", "cleared"} THEN "publish" ELSE "idle"
      BY <2>4 DEF Record, Return, TypeOK
    <3>5. pc'[e] = "publish" => evaluation' = evaluation
      BY <2>4, <3>4 DEF Record
    <3>6. ~disturbed /\ pc'[e] = "idle" => AlarmTold'
      <4>1. evaluation[e].state \in FaultState
        BY DEF TypeOK
      <4> QED
        BY <2>0, <3>1, <3>4, <4>1 DEF Told, Reporting, AlarmTold, FaultState
    <3>7. ActiveIsDated'
      BY <2>0, <3>1 DEF ActiveIsDated
    <3>8. Told'
      BY <2>0, <3>1, <3>2, <3>3, <3>4, <3>5 DEF Told, Reporting, AlarmTold
    <3>9. EventsChain' /\ AlarmOpenIffActivated'
      BY <3>1, <3>2, <3>3, <3>4, <3>6 DEF EventsChain, AlarmOpenIffActivated, Reporting, AlarmTold
    <3> QED
      BY <3>7, <3>8, <3>9 DEF ReportInv
  <2>5. ASSUME NEW e \in Evaluators, PublishAlert(e) PROVE ReportInv'
    <3>1. /\ pc[e] = "publish" /\ lastAlarm' = ToState(evaluation[e].state)
          /\ UNCHANGED <<runtime, lastEvent, disturbed>>
      BY <2>5 DEF PublishAlert
    <3>2. ~disturbed => /\ \A o \in Evaluators \ {e} : pc[o] = "idle"
                        /\ evaluation[e].state = runtime.state
                        /\ evaluation[e].state \in {"active", "cleared"}
                        /\ evaluation[e].state = "cleared" => runtime.activated_at = None
                        /\ lastEvent = runtime.state
      BY <2>0, <3>1 DEF Told, Reporting, EventsChain
    <3>3. pc'[e] = "idle" /\ \A o \in Evaluators \ {e} : pc'[o] = pc[o]
      BY <2>5 DEF PublishAlert, Return, TypeOK
    <3>4. ~disturbed => AlarmTold'
      BY <2>0, <3>1, <3>2 DEF AlarmTold, ToState, ActiveIsDated
    <3> QED
      BY <2>0, <3>1, <3>2, <3>3, <3>4
      DEF ReportInv, ActiveIsDated, Told, EventsChain, AlarmOpenIffActivated, Reporting, AlarmTold
  <2>6. ASSUME NEW e \in Evaluators, Fail(e) PROVE ReportInv'
    BY <2>0, <2>6 DEF Fail, ReportInv, ActiveIsDated, Told, EventsChain, AlarmOpenIffActivated
  <2>7. CASE Restart
    BY <2>7 DEF Restart, ReportInv, ActiveIsDated, Told, EventsChain, AlarmOpenIffActivated, FreshRuntime
  <2> QED
    BY <2>1, <2>2, <2>3, <2>4, <2>5, <2>6, <2>7 DEF Next
<1> QED
  BY <1>1, <1>2, TypeCorrect, PTL DEF Spec

(* The rows of fault_events chain until evaluators overlap, a write fails  *)
(* or the process restarts, for any number of evaluators and any delays.   *)
THEOREM EventsChained == Spec => []EventsChain
<1>1. ReportInv => EventsChain
  BY DEF ReportInv
<1> QED
  BY <1>1, Reports, PTL

(* With nothing being reported, the newest alarm is an unreturned          *)
(* "offnormal" exactly while the rule has an activation time; same proviso. *)
THEOREM AlarmMatchesActivation == Spec => []AlarmOpenIffActivated
<1>1. ReportInv => AlarmOpenIffActivated
  BY DEF ReportInv
<1> QED
  BY <1>1, Reports, PTL
---------------------------------------------------------------------------


\* What is known of a state: nothing was asked yet, or the verdicts are those
\* of the reading.
Asked ==
  /\ reading \in Reading
  /\ \/ verdicts = NoVerdicts
     \/ verdicts = RtuVerdicts(reading)
     \/ verdicts = AhuVerdicts(reading)

\* The state only ever holds the verdicts of its own reading.
LEMMA VerdictsOfReading == FaultRulesSpec => []Asked
<1>1. FaultRulesInit => Asked
  BY DEF FaultRulesInit, Asked, AllMissing, Reading
<1>2. Asked /\ [FaultRulesNext]_frVars => Asked'
  <2> SUFFICES ASSUME Asked, [FaultRulesNext]_frVars PROVE Asked'
    OBVIOUS
  <2>1. CASE UNCHANGED frVars
    BY <2>1 DEF Asked, frVars
  <2>2. ASSUME NEW e \in {"Rooftop_Unit", "Air_Handling_Unit"}, NEW r \in Reading, AskRules(e, r)
        PROVE  Asked'
    BY <2>2 DEF AskRules, VerdictsOf, Asked
  <2> QED
    BY <2>1, <2>2 DEF FaultRulesNext
<1> QED
  BY <1>1, <1>2, PTL DEF FaultRulesSpec

\* Pairs of rules of a rooftop unit.
LEMMA RtuPairs ==
  ASSUME NEW r \in Reading
  PROVE  \A p \in Contradictory :
           ~(/\ p[1] \in DOMAIN RtuVerdicts(r) /\ RtuVerdicts(r)[p[1]] = "present"
             /\ p[2] \in DOMAIN RtuVerdicts(r) /\ RtuVerdicts(r)[p[2]] = "present")
<1> DEFINE V == RtuVerdicts(r)
<1>0. \A s \in Semantics : r[s] \in Int \cup {Missing}
  BY DEF Reading
<1>1. ~(SupplyFanCommandStatusMismatch(r) = "present" /\ SupplyFanFailedToStop(r) = "present")
  BY DEF SupplyFanCommandStatusMismatch, SupplyFanFailedToStop, Verdict
<1>2. ~(CoolingIneffective(r) = "present" /\ HeatingIneffective(r) = "present")
  BY <1>0 DEF CoolingIneffective, HeatingIneffective, Verdict, Semantics, AirSemantics
<1>3. ~(CoolingCommandNoCompressorPower(r) = "present" /\ CompressorPowerWithoutCooling(r) = "present")
  BY <1>0 DEF CoolingCommandNoCompressorPower, CompressorPowerWithoutCooling, Verdict, Semantics,
              AirSemantics
<1>4. ~(GasHeatingCommandNoFuelInput(r) = "present" /\ GasInputWithoutHeating(r) = "present")
  BY <1>0 DEF GasHeatingCommandNoFuelInput, GasInputWithoutHeating, Verdict, Semantics, AirSemantics
<1>5. ~(GasHeatingCommandNoFuelInput(r) = "present" /\ GasHeatingEfficiencyMismatch(r) = "present")
  BY <1>0 DEF GasHeatingCommandNoFuelInput, GasHeatingEfficiencyMismatch, Verdict, Semantics,
              RtuSemantics
<1>6. ~(CoolingCapacityShortfall(r) = "present" /\ CompressorPowerWithoutCooling(r) = "present")
  BY <1>0 DEF CoolingCapacityShortfall, CompressorPowerWithoutCooling, Verdict, Semantics, AirSemantics
<1>7. ~(EconomizerNotUsingFreeCooling(r) = "present" /\ EconomizerExcessiveOutdoorAir(r) = "present")
  BY DEF EconomizerNotUsingFreeCooling, EconomizerExcessiveOutdoorAir, Verdict
<1>8. ~(SupplyStaticPressureHigh(r) = "present" /\ SupplyStaticPressureLow(r) = "present")
  BY <1>0 DEF SupplyStaticPressureHigh, SupplyStaticPressureLow, Verdict, Semantics, AirSemantics
<1> QED
  BY <1>1, <1>2, <1>3, <1>4, <1>5, <1>6, <1>7, <1>8 DEF Contradictory, RtuVerdicts

\* Pairs of rules of an air handler.
LEMMA AhuPairs ==
  ASSUME NEW r \in Reading
  PROVE  \A p \in Contradictory :
           ~(/\ p[1] \in DOMAIN AhuVerdicts(r) /\ AhuVerdicts(r)[p[1]] = "present"
             /\ p[2] \in DOMAIN AhuVerdicts(r) /\ AhuVerdicts(r)[p[2]] = "present")
<1>0. \A s \in Semantics : r[s] \in Int \cup {Missing}
  BY DEF Reading
<1>1. ~(AhuSupplyFanCommandStatusMismatch(r) = "present" /\ AhuSupplyFanFailedToStop(r) = "present")
  BY DEF AhuSupplyFanCommandStatusMismatch, AhuSupplyFanFailedToStop,
         SupplyFanCommandStatusMismatch, SupplyFanFailedToStop, Verdict
<1>2. ~(SupplyAirTemperatureHigh(r) = "present" /\ SupplyAirTemperatureLow(r) = "present")
  BY <1>0 DEF SupplyAirTemperatureHigh, SupplyAirTemperatureLow, Verdict, Semantics, AirSemantics
<1>3. ~(AhuCoolingIneffective(r) = "present" /\ SupplyAirTemperatureLow(r) = "present")
  BY <1>0 DEF AhuCoolingIneffective, CoolingIneffective, SupplyAirTemperatureLow, Verdict, Semantics,
              AirSemantics
<1>4. ~(AhuHeatingIneffective(r) = "present" /\ SupplyAirTemperatureHigh(r) = "present")
  BY <1>0 DEF AhuHeatingIneffective, HeatingIneffective, SupplyAirTemperatureHigh, Verdict, Semantics,
              AirSemantics
<1>5. ~(AhuCoolingIneffective(r) = "present" /\ AhuHeatingIneffective(r) = "present")
  BY <1>0 DEF AhuCoolingIneffective, AhuHeatingIneffective, CoolingIneffective, HeatingIneffective,
              Verdict, Semantics, AirSemantics
<1>6. ~(CoolingCommandNoChilledWaterFlow(r) = "present" /\ CoolingValveLeakage(r) = "present")
  BY <1>0 DEF CoolingCommandNoChilledWaterFlow, CoolingValveLeakage, Verdict, Semantics, AirSemantics
<1>7. ~(CoolingCommandNoChilledWaterFlow(r) = "present" /\ PoorChilledWaterDeltaT(r) = "present")
  BY <1>0 DEF CoolingCommandNoChilledWaterFlow, PoorChilledWaterDeltaT, Verdict, Semantics,
              AhuSemantics
<1>8. ~(AhuEconomizerNotUsingFreeCooling(r) = "present"
          /\ AhuEconomizerExcessiveOutdoorAir(r) = "present")
  BY DEF AhuEconomizerNotUsingFreeCooling, AhuEconomizerExcessiveOutdoorAir,
         EconomizerNotUsingFreeCooling, EconomizerExcessiveOutdoorAir, Verdict
<1>9. ~(AhuSupplyStaticPressureHigh(r) = "present" /\ AhuSupplyStaticPressureLow(r) = "present")
  BY <1>0 DEF AhuSupplyStaticPressureHigh, AhuSupplyStaticPressureLow, SupplyStaticPressureHigh,
              SupplyStaticPressureLow, Verdict, Semantics, AirSemantics
<1> QED
  BY <1>1, <1>2, <1>3, <1>4, <1>5, <1>6, <1>7, <1>8, <1>9 DEF Contradictory, AhuVerdicts

\* No reading whatsoever makes two rules of a device contradict one another.
THEOREM RulesAgree == FaultRulesSpec => []NoContradiction
<1>1. Asked => NoContradiction
  <2> SUFFICES ASSUME Asked, NEW p \in Contradictory, Present(p[1]), Present(p[2]) PROVE FALSE
    BY DEF NoContradiction
  <2>1. CASE verdicts = NoVerdicts
    BY <2>1 DEF NoVerdicts, Present
  <2>2. CASE verdicts = RtuVerdicts(reading)
    BY <2>2, RtuPairs DEF Present, Asked
  <2>3. CASE verdicts = AhuVerdicts(reading)
    BY <2>3, AhuPairs DEF Present, Asked
  <2> QED
    BY <2>1, <2>2, <2>3 DEF Asked
<1> QED
  BY <1>1, VerdictsOfReading, PTL

---------------------------------------------------------------------------
(* A reading that lost points.                                             *)

\* What q says of a point, r says too; q may have lost some.
TellsNoMore(q, r) == \A s \in Semantics : q[s] # Missing => q[s] = r[s]

\* A rule both kinds of unit have says "present" of what is left only if it said
\* so of the whole: it says nothing without one of its points.
LEMMA AirRulesLose ==
  ASSUME NEW r \in Reading, NEW q \in Reading, TellsNoMore(q, r)
  PROVE  /\ (SupplyFanCommandStatusMismatch(q) = "present" => SupplyFanCommandStatusMismatch(r) = "present")
         /\ (SupplyFanFailedToStop(q) = "present" => SupplyFanFailedToStop(r) = "present")
         /\ (SupplyFanPowerStatusMismatch(q) = "present" => SupplyFanPowerStatusMismatch(r) = "present")
         /\ (LowSupplyAirflow(q) = "present" => LowSupplyAirflow(r) = "present")
         /\ (SupplyAirTemperatureDeviation(q) = "present" => SupplyAirTemperatureDeviation(r) = "present")
         /\ (CoolingIneffective(q) = "present" => CoolingIneffective(r) = "present")
         /\ (HeatingIneffective(q) = "present" => HeatingIneffective(r) = "present")
         /\ (SimultaneousHeatingCooling(q) = "present" => SimultaneousHeatingCooling(r) = "present")
         /\ (EconomizerNotUsingFreeCooling(q) = "present" => EconomizerNotUsingFreeCooling(r) = "present")
         /\ (EconomizerExcessiveOutdoorAir(q) = "present" => EconomizerExcessiveOutdoorAir(r) = "present")
         /\ (MixedAirTemperatureOutOfRange(q) = "present" => MixedAirTemperatureOutOfRange(r) = "present")
         /\ (MixedAirTemperatureMismatch(q) = "present" => MixedAirTemperatureMismatch(r) = "present")
         /\ (SupplyStaticPressureHigh(q) = "present" => SupplyStaticPressureHigh(r) = "present")
         /\ (SupplyStaticPressureLow(q) = "present" => SupplyStaticPressureLow(r) = "present")
         /\ (StaticPressureResetMismatch(q) = "present" => StaticPressureResetMismatch(r) = "present")
         /\ (OutdoorAirDamperCommandPositionMismatch(q) = "present" => OutdoorAirDamperCommandPositionMismatch(r) = "present")
<1> USE MissingAssumption DEF TellsNoMore, Verdict, Semantics, AirSemantics
<1>1. SupplyFanCommandStatusMismatch(q) = "present" => SupplyFanCommandStatusMismatch(r) = "present"
  BY DEF SupplyFanCommandStatusMismatch, FanRuns, CommandedOn, On
<1>2. SupplyFanFailedToStop(q) = "present" => SupplyFanFailedToStop(r) = "present"
  BY DEF SupplyFanFailedToStop, FanRuns, CommandedOn, On
<1>3. SupplyFanPowerStatusMismatch(q) = "present" => SupplyFanPowerStatusMismatch(r) = "present"
  BY DEF SupplyFanPowerStatusMismatch, FanRuns, On
<1>4. LowSupplyAirflow(q) = "present" => LowSupplyAirflow(r) = "present"
  BY DEF LowSupplyAirflow, FanRuns, On
<1>5. SupplyAirTemperatureDeviation(q) = "present" => SupplyAirTemperatureDeviation(r) = "present"
  BY DEF SupplyAirTemperatureDeviation, FanRuns, On
<1>6. CoolingIneffective(q) = "present" => CoolingIneffective(r) = "present"
  BY DEF CoolingIneffective, FanRuns, On
<1>7. HeatingIneffective(q) = "present" => HeatingIneffective(r) = "present"
  BY DEF HeatingIneffective, FanRuns, On
<1>8. SimultaneousHeatingCooling(q) = "present" => SimultaneousHeatingCooling(r) = "present"
  BY DEF SimultaneousHeatingCooling
<1>9. EconomizerNotUsingFreeCooling(q) = "present" => EconomizerNotUsingFreeCooling(r) = "present"
  BY DEF EconomizerNotUsingFreeCooling, FanRuns, Favorable, On
<1>10. EconomizerExcessiveOutdoorAir(q) = "present" => EconomizerExcessiveOutdoorAir(r) = "present"
  BY DEF EconomizerExcessiveOutdoorAir, FanRuns, Favorable, On
<1>11. MixedAirTemperatureOutOfRange(q) = "present" => MixedAirTemperatureOutOfRange(r) = "present"
  BY DEF MixedAirTemperatureOutOfRange, FanRuns, On
<1>12. MixedAirTemperatureMismatch(q) = "present" => MixedAirTemperatureMismatch(r) = "present"
  BY DEF MixedAirTemperatureMismatch, FanRuns, On
<1>13. SupplyStaticPressureHigh(q) = "present" => SupplyStaticPressureHigh(r) = "present"
  BY DEF SupplyStaticPressureHigh, FanRuns, On
<1>14. SupplyStaticPressureLow(q) = "present" => SupplyStaticPressureLow(r) = "present"
  BY DEF SupplyStaticPressureLow, FanRuns, On
<1>15. StaticPressureResetMismatch(q) = "present" => StaticPressureResetMismatch(r) = "present"
  BY DEF StaticPressureResetMismatch
<1>16. OutdoorAirDamperCommandPositionMismatch(q) = "present" => OutdoorAirDamperCommandPositionMismatch(r) = "present"
  BY DEF OutdoorAirDamperCommandPositionMismatch
<1> QED BY <1>1, <1>2, <1>3, <1>4, <1>5, <1>6, <1>7, <1>8, <1>9, <1>10, <1>11, <1>12, <1>13, <1>14, <1>15, <1>16

\* The same for the rules of a rooftop unit alone.
LEMMA RtuRulesLose ==
  ASSUME NEW r \in Reading, NEW q \in Reading, TellsNoMore(q, r)
  PROVE  /\ (CoolingCommandNoCompressorPower(q) = "present" => CoolingCommandNoCompressorPower(r) = "present")
         /\ (CoolingCOPOutOfRange(q) = "present" => CoolingCOPOutOfRange(r) = "present")
         /\ (CoolingCapacityShortfall(q) = "present" => CoolingCapacityShortfall(r) = "present")
         /\ (CompressorStageMismatch(q) = "present" => CompressorStageMismatch(r) = "present")
         /\ (GasHeatingCommandNoFuelInput(q) = "present" => GasHeatingCommandNoFuelInput(r) = "present")
         /\ (GasHeatingEfficiencyMismatch(q) = "present" => GasHeatingEfficiencyMismatch(r) = "present")
         /\ (HeatPumpCommandNoHeatingCompressorPower(q) = "present" => HeatPumpCommandNoHeatingCompressorPower(r) = "present")
         /\ (HeatingCOPOutOfRange(q) = "present" => HeatingCOPOutOfRange(r) = "present")
         /\ (OutdoorAirflowDamperMismatch(q) = "present" => OutdoorAirflowDamperMismatch(r) = "present")
<1> USE MissingAssumption DEF TellsNoMore, Verdict, Semantics, AirSemantics, RtuSemantics
<1>1. CoolingCommandNoCompressorPower(q) = "present" => CoolingCommandNoCompressorPower(r) = "present"
  BY DEF CoolingCommandNoCompressorPower
<1>2. CoolingCOPOutOfRange(q) = "present" => CoolingCOPOutOfRange(r) = "present"
  BY DEF CoolingCOPOutOfRange
<1>3. CoolingCapacityShortfall(q) = "present" => CoolingCapacityShortfall(r) = "present"
  BY DEF CoolingCapacityShortfall
<1>4. CompressorStageMismatch(q) = "present" => CompressorStageMismatch(r) = "present"
  BY DEF CompressorStageMismatch
<1>5. GasHeatingCommandNoFuelInput(q) = "present" => GasHeatingCommandNoFuelInput(r) = "present"
  BY DEF GasHeatingCommandNoFuelInput
<1>6. GasHeatingEfficiencyMismatch(q) = "present" => GasHeatingEfficiencyMismatch(r) = "present"
  BY DEF GasHeatingEfficiencyMismatch
<1>7. HeatPumpCommandNoHeatingCompressorPower(q) = "present" => HeatPumpCommandNoHeatingCompressorPower(r) = "present"
  BY DEF HeatPumpCommandNoHeatingCompressorPower
<1>8. HeatingCOPOutOfRange(q) = "present" => HeatingCOPOutOfRange(r) = "present"
  BY DEF HeatingCOPOutOfRange
<1>9. OutdoorAirflowDamperMismatch(q) = "present" => OutdoorAirflowDamperMismatch(r) = "present"
  BY DEF OutdoorAirflowDamperMismatch, FanRuns, On
<1> QED BY <1>1, <1>2, <1>3, <1>4, <1>5, <1>6, <1>7, <1>8, <1>9

\* The same for the rules of an air handler alone.
LEMMA AhuRulesLose ==
  ASSUME NEW r \in Reading, NEW q \in Reading, TellsNoMore(q, r)
  PROVE  /\ (SupplyAirTemperatureHigh(q) = "present" => SupplyAirTemperatureHigh(r) = "present")
         /\ (SupplyAirTemperatureLow(q) = "present" => SupplyAirTemperatureLow(r) = "present")
         /\ (CoolingCommandNoChilledWaterFlow(q) = "present" => CoolingCommandNoChilledWaterFlow(r) = "present")
         /\ (ChilledWaterSupplyTooWarm(q) = "present" => ChilledWaterSupplyTooWarm(r) = "present")
<1> USE MissingAssumption DEF TellsNoMore, Verdict, Semantics, AirSemantics, AhuSemantics
<1>1. SupplyAirTemperatureHigh(q) = "present" => SupplyAirTemperatureHigh(r) = "present"
  BY DEF SupplyAirTemperatureHigh, FanRuns, On
<1>2. SupplyAirTemperatureLow(q) = "present" => SupplyAirTemperatureLow(r) = "present"
  BY DEF SupplyAirTemperatureLow, FanRuns, On
<1>3. CoolingCommandNoChilledWaterFlow(q) = "present" => CoolingCommandNoChilledWaterFlow(r) = "present"
  BY DEF CoolingCommandNoChilledWaterFlow
<1>4. ChilledWaterSupplyTooWarm(q) = "present" => ChilledWaterSupplyTooWarm(r) = "present"
  BY DEF ChilledWaterSupplyTooWarm
<1> QED BY <1>1, <1>2, <1>3, <1>4

\* LosingAPointAddsNoFault: whatever the reading is and whichever point drops
\* out of it, no rule but the tolerant ones finds a fault it had not found.
THEOREM LossAddsNoFault == FaultRulesSpec => []LosingAPointAddsNoFault
<1>1. Asked => LosingAPointAddsNoFault
  <2> SUFFICES ASSUME Asked, verdicts # NoVerdicts, NEW s \in Semantics
               PROVE  LET without == VerdictsOf(IF "stage" \in DOMAIN verdicts THEN "Rooftop_Unit"
                                                ELSE "Air_Handling_Unit", [reading EXCEPT ![s] = Missing])
                      IN \A rule \in DOMAIN verdicts \ Tolerant :
                           without[rule] = "present" => Present(rule)
    BY DEF LosingAPointAddsNoFault
  <2> DEFINE q == [reading EXCEPT ![s] = Missing]
  <2>1. reading \in Reading /\ q \in Reading /\ TellsNoMore(q, reading)
    BY DEF Asked, Reading, TellsNoMore
  <2> HIDE DEF q
  <2>2. CASE verdicts = RtuVerdicts(reading)
    <3>1. VerdictsOf(IF "stage" \in DOMAIN verdicts THEN "Rooftop_Unit" ELSE "Air_Handling_Unit", q)
            = RtuVerdicts(q)
      BY <2>2 DEF RtuVerdicts, VerdictsOf
    <3>2. ASSUME NEW rule \in DOMAIN verdicts \ Tolerant, RtuVerdicts(q)[rule] = "present"
          PROVE  Present(rule)
      BY <2>1, <2>2, <3>2, AirRulesLose, RtuRulesLose DEF RtuVerdicts, Tolerant, Present
    <3> QED BY <3>1, <3>2 DEF q
  <2>3. CASE verdicts = AhuVerdicts(reading)
    <3>1. VerdictsOf(IF "stage" \in DOMAIN verdicts THEN "Rooftop_Unit" ELSE "Air_Handling_Unit", q)
            = AhuVerdicts(q)
      BY <2>3 DEF AhuVerdicts, VerdictsOf
    <3>2. ASSUME NEW rule \in DOMAIN verdicts \ Tolerant, AhuVerdicts(q)[rule] = "present"
          PROVE  Present(rule)
      BY <2>1, <2>3, <3>2, AirRulesLose, AhuRulesLose
         DEF AhuVerdicts, Tolerant, Present, AhuSupplyFanCommandStatusMismatch, AhuSupplyFanFailedToStop,
               AhuSupplyFanPowerStatusMismatch, AhuLowSupplyAirflow, AhuSupplyAirTemperatureDeviation,
               AhuCoolingIneffective, AhuHeatingIneffective, AhuSimultaneousHeatingCooling,
               AhuEconomizerNotUsingFreeCooling, AhuEconomizerExcessiveOutdoorAir,
               AhuMixedAirTemperatureOutOfRange, AhuMixedAirTemperatureMismatch,
               AhuSupplyStaticPressureHigh, AhuSupplyStaticPressureLow, AhuStaticPressureResetMismatch,
               AhuOutdoorAirDamperCommandPositionMismatch
    <3> QED BY <3>1, <3>2 DEF q
  <2> QED BY <2>2, <2>3 DEF Asked
<1> QED BY <1>1, VerdictsOfReading, PTL
===========================================================================
