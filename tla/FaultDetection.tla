-------------------------- MODULE FaultDetection --------------------------
(***************************************************************************)
(* The life of one (device, rule) pair of FaultDetectionEngine:            *)
(* bacnet-simulator/src/fault_detection/engine.py.                         *)
(*                                                                         *)
(* evaluate_device is a coroutine.  The tick loop runs it once per tick,   *)
(* and every POST /fault-detection/devices/{id}/evaluate runs another one. *)
(* It suspends after sampling the points, after the state machine has      *)
(* advanced (to record the event) and after that (to log the alarm), so    *)
(* two evaluators of one device interleave at those points.                *)
(*                                                                         *)
(* What a rule says of the points is one of three observations; messages,  *)
(* evidence and severity play no part in what follows.                     *)
(***************************************************************************)
EXTENDS Integers

CONSTANTS
  Evaluators,    \* the coroutines: the tick loop's and the API requests'
  Persistence,   \* FaultDefinition.persistence_seconds
  Clear,         \* FaultDefinition.clear_seconds
  MaxTime,       \* bound on the wall clock
  None           \* Python's None

ASSUME DelaysAssumption == Persistence \in Nat /\ Clear \in Nat
ASSUME MaxTimeAssumption == MaxTime \in Nat
ASSUME NoneAssumption == None \notin Nat

Observations == {"present", "absent", "unevaluable"}
FaultState == {"normal", "pending", "active", "cleared"}
Timestamp == Nat
OptionalTimestamp == Timestamp \cup {None}

\* One row of _runtime; last_message and last_evaluable are never read.
RuleRuntimeState ==
  [state: FaultState,
   condition_started_at: OptionalTimestamp,
   clear_started_at: OptionalTimestamp,
   activated_at: OptionalTimestamp,
   cleared_at: OptionalTimestamp]

VARIABLES
  clock,       \* time.time()
  runtime,     \* the pair's RuleRuntimeState
  pc,          \* where each evaluator is suspended
  context,     \* the observation and timestamp each evaluator holds
  evaluation,  \* the transition each evaluator is reporting
  lastEvent,   \* state in the newest fault_events row
  lastAlarm,   \* to_state in the newest alarm_log row
  streak,      \* history: the unbroken series of like evaluations applied
  disturbed    \* history: an overlap, a failed write or a restart happened

vars == <<clock, runtime, pc, context, evaluation, lastEvent, lastAlarm,
          streak, disturbed>>

FreshRuntime ==
  [state |-> "normal", condition_started_at |-> None, clear_started_at |-> None,
   activated_at |-> None, cleared_at |-> None]

NoStreak == [obs |-> "none", since |-> 0]

\* The locals of an evaluator that holds none.
NoContext == [obs |-> "absent", stamp |-> 0]
NoEvaluation == [previous |-> "normal", state |-> "normal"]

Init ==
  /\ clock = 0
  /\ runtime = FreshRuntime
  /\ pc = [e \in Evaluators |-> "idle"]
  /\ context = [e \in Evaluators |-> NoContext]
  /\ evaluation = [e \in Evaluators |-> NoEvaluation]
  /\ lastEvent = "normal"
  /\ lastAlarm = "none"
  /\ streak = NoStreak
  /\ disturbed = FALSE

---------------------------------------------------------------------------
(* _advance_state, by the kind of result.                                  *)

\* Mutant: losing the sensor does not restart the persistence timer.
AdvanceUnevaluableKeepsTimer(r) ==
  [r EXCEPT !.clear_started_at = None,
            !.state = IF @ \in {"pending", "cleared"} THEN "normal" ELSE @,
            !.cleared_at = IF r.state = "cleared" THEN None ELSE @]

\* Mutant: losing the sensor does not restart the clear timer.
AdvanceUnevaluableKeepsClear(r) ==
  [r EXCEPT !.condition_started_at = None,
            !.state = IF @ \in {"pending", "cleared"} THEN "normal" ELSE @,
            !.cleared_at = IF r.state = "cleared" THEN None ELSE @]

AdvanceUnevaluable(r) ==
  [r EXCEPT !.condition_started_at = None,
            !.clear_started_at = None,
            !.state = IF @ \in {"pending", "cleared"} THEN "normal" ELSE @,
            !.cleared_at = IF r.state = "cleared" THEN None ELSE @]

\* Mutant: the condition's return does not restart the clear timer.
AdvancePresentKeepsClear(r, now) ==
  LET started == IF r.condition_started_at = None THEN now ELSE r.condition_started_at
      persisted == now - started >= Persistence
  IN  [r EXCEPT !.state = IF persisted THEN "active" ELSE "pending",
                !.condition_started_at = started, !.cleared_at = None,
                !.activated_at = IF persisted /\ @ = None THEN now ELSE @]

AdvancePresent(r, now) ==
  LET started == IF r.condition_started_at = None THEN now ELSE r.condition_started_at
      persisted == now - started >= Persistence
  IN  [state |-> IF persisted THEN "active" ELSE "pending",
       condition_started_at |-> started,
       clear_started_at |-> None,
       activated_at |-> IF persisted /\ r.activated_at = None THEN now ELSE r.activated_at,
       cleared_at |-> None]

\* Mutant: a fault is cleared without forgetting when it was activated.
AdvanceAbsentKeepsActivation(r, now) ==
  LET quiet == [r EXCEPT !.condition_started_at = None]
      since == IF r.clear_started_at = None THEN now ELSE r.clear_started_at
  IN  CASE r.state = "active" /\ now - since >= Clear ->
             [quiet EXCEPT !.state = "cleared", !.cleared_at = now, !.clear_started_at = None]
        [] r.state = "active" /\ now - since < Clear ->
             [quiet EXCEPT !.clear_started_at = since]
        [] OTHER -> [quiet EXCEPT !.state = "normal", !.clear_started_at = None,
                                  !.cleared_at = None]

AdvanceAbsent(r, now) ==
  LET quiet == [r EXCEPT !.condition_started_at = None]
      since == IF r.clear_started_at = None THEN now ELSE r.clear_started_at
  IN  CASE r.state = "active" /\ now - since >= Clear ->
             [quiet EXCEPT !.state = "cleared", !.cleared_at = now,
                           !.activated_at = None, !.clear_started_at = None]
        [] r.state = "active" /\ now - since < Clear ->
             [quiet EXCEPT !.clear_started_at = since]
        [] r.state = "pending" ->
             [quiet EXCEPT !.state = "normal", !.clear_started_at = None]
        [] r.state = "cleared" ->
             [quiet EXCEPT !.state = "normal", !.clear_started_at = None,
                           !.cleared_at = None]
        [] r.state = "normal" -> quiet

AdvanceState(r, obs, now) ==
  CASE obs = "unevaluable" -> AdvanceUnevaluable(r)
    [] obs = "present" -> AdvancePresent(r, now)
    [] obs = "absent" -> AdvanceAbsent(r, now)

---------------------------------------------------------------------------
(* The evaluators.                                                         *)

\* The wall clock.
Tick ==
  /\ clock < MaxTime
  /\ clock' = clock + 1
  /\ UNCHANGED <<runtime, pc, context, evaluation, lastEvent, lastAlarm, streak, disturbed>>

\* evaluate_device starts: _build_context samples the points and the clock.
Sample(e) ==
  /\ pc[e] = "idle"
  /\ \E obs \in Observations :
       context' = [context EXCEPT ![e] = [obs |-> obs, stamp |-> clock]]
  /\ pc' = [pc EXCEPT ![e] = "advance"]
  /\ disturbed' = (disturbed \/ \E o \in Evaluators \ {e} : pc[o] # "idle")
  /\ UNCHANGED <<clock, runtime, evaluation, lastEvent, lastAlarm, streak>>

\* Mutant: the previous state is read after it was replaced.
LateTransition(before, after) == [previous |-> after.state, state |-> after.state]

\* What an evaluator reports: the state before and after _advance_state.
Transition(before, after) == [previous |-> before.state, state |-> after.state]

\* The series of like evaluations, once an evaluation of context c is applied.
Extend(s, c) ==
  IF s.obs = c.obs THEN s ELSE [obs |-> c.obs, since |-> c.stamp]

\* After the rule configs were read: _advance_state, without a suspension.
Advance(e) ==
  LET c == context[e]
      next == AdvanceState(runtime, c.obs, c.stamp)
  IN  /\ pc[e] = "advance"
      /\ runtime' = next
      /\ context' = [context EXCEPT ![e] = NoContext]
      /\ IF next.state # runtime.state
           THEN /\ evaluation' = [evaluation EXCEPT ![e] = Transition(runtime, next)]
                /\ pc' = [pc EXCEPT ![e] = "record"]
           ELSE /\ UNCHANGED evaluation
                /\ pc' = [pc EXCEPT ![e] = "idle"]
      /\ streak' = Extend(streak, c)
      /\ UNCHANGED <<clock, lastEvent, lastAlarm, disturbed>>

\* The coroutine ends and its reported transition with it.
Return(e) ==
  /\ evaluation' = [evaluation EXCEPT ![e] = NoEvaluation]
  /\ pc' = [pc EXCEPT ![e] = "idle"]

\* record_fault_evaluation inserts the transition into fault_events.
Record(e) ==
  /\ pc[e] = "record"
  /\ lastEvent' = evaluation[e].state
  /\ IF evaluation[e].state \in {"active", "cleared"}
       THEN /\ UNCHANGED evaluation
            /\ pc' = [pc EXCEPT ![e] = "publish"]
       ELSE Return(e)
  /\ UNCHANGED <<clock, runtime, context, lastAlarm, streak, disturbed>>

\* Mutant: the alarm log gets the rule's own state name.
OwnState(state) == state

\* The to_state that _publish_alert gives an ACTIVE or CLEARED evaluation.
ToState(state) == IF state = "active" THEN "offnormal" ELSE "normal"

\* _publish_alert logs the alarm.
PublishAlert(e) ==
  /\ pc[e] = "publish"
  /\ lastAlarm' = ToState(evaluation[e].state)
  /\ Return(e)
  /\ UNCHANGED <<clock, runtime, context, lastEvent, streak, disturbed>>

\* A database call of the evaluator raises; tick_loop logs it and goes on.
Fail(e) ==
  /\ pc[e] # "idle"
  /\ context' = [context EXCEPT ![e] = NoContext]
  /\ Return(e)
  /\ disturbed' = TRUE
  /\ UNCHANGED <<clock, runtime, lastEvent, lastAlarm, streak>>

\* The process restarts: _runtime is memory only, the two tables are not.
Restart ==
  /\ runtime' = FreshRuntime
  /\ pc' = [e \in Evaluators |-> "idle"]
  /\ context' = [e \in Evaluators |-> NoContext]
  /\ evaluation' = [e \in Evaluators |-> NoEvaluation]
  /\ streak' = NoStreak
  /\ disturbed' = TRUE
  /\ UNCHANGED <<clock, lastEvent, lastAlarm>>

Next ==
  \/ Tick
  \/ \E e \in Evaluators :
       Sample(e) \/ Advance(e) \/ Record(e) \/ PublishAlert(e) \/ Fail(e)
  \/ Restart

Spec == Init /\ [][Next]_vars

---------------------------------------------------------------------------
(* Properties.                                                             *)

TypeOK ==
  /\ clock \in Timestamp
  /\ runtime \in RuleRuntimeState
  /\ pc \in [Evaluators -> {"idle", "advance", "record", "publish"}]
  /\ context \in [Evaluators -> [obs: Observations, stamp: Timestamp]]
  /\ evaluation \in [Evaluators -> [previous: FaultState, state: FaultState]]
  /\ lastEvent \in FaultState
  /\ lastAlarm \in {"none", "offnormal", "normal"}
  /\ streak \in [obs: Observations \cup {"none"}, since: Timestamp]
  /\ disturbed \in BOOLEAN

\* The timers of _advance_state measure exactly the current series of like
\* evaluations, whatever the evaluators, failures and restarts before it: the
\* persistence timer a series of "present", the clear timer one of "absent"
\* that began while the fault was active.
TimersMeasureStreak ==
  /\ runtime.condition_started_at =
       IF streak.obs = "present" THEN streak.since ELSE None
  /\ runtime.clear_started_at =
       IF streak.obs = "absent" /\ runtime.state = "active" THEN streak.since ELSE None

\* The evaluation applied by this step was stamped at least delay after the
\* first of an unbroken series of obs.
AppliedAfter(obs, delay) ==
  \E e \in Evaluators :
    /\ pc[e] = "advance" /\ pc'[e] # "advance"
    /\ streak'.obs = obs
    /\ context[e].stamp - streak'.since >= delay

\* A rule becomes ACTIVE only on evidence present without interruption for
\* persistence_seconds: losing the sensor or one quiet evaluation restarts it.
ActivationEarned ==
  [][runtime.state # "active" /\ runtime'.state = "active"
       => AppliedAfter("present", Persistence)]_vars

\* An ACTIVE fault is CLEARED only after clear_seconds of uninterrupted,
\* evaluable absence: missing evidence is not proof of recovery.
ClearEarned ==
  [][runtime.state = "active" /\ runtime'.state = "cleared"
       => AppliedAfter("absent", Clear)]_vars

Reporting(e) == pc[e] \in {"record", "publish"}

\* fault_events chains: the transition being recorded starts from the state the
\* newest row left, and with no report under way that row is the rule's state.
\* Holds until evaluators overlap, a write fails or the process restarts.
EventsChain ==
  ~disturbed =>
    /\ \A e \in Evaluators : pc[e] = "record" => lastEvent = evaluation[e].previous
    /\ (\A e \in Evaluators : pc[e] # "record") => lastEvent = runtime.state

\* The newest alarm of the rule is an unreturned "offnormal" exactly while the
\* rule has an activation time, even when the rule has fallen back to PENDING
\* or NORMAL.  Same proviso.
AlarmOpenIffActivated ==
  (~disturbed /\ \A e \in Evaluators : ~Reporting(e)) =>
    (lastAlarm = "offnormal" <=> runtime.activated_at # None)

\* What _advance_state says of an active fault: it is not silently cleared.  A
\* rule whose newest alarm is "offnormal" has not gone back to NORMAL.
NotSilentlyCleared ==
  (~disturbed /\ \A e \in Evaluators : ~Reporting(e)) =>
    (lastAlarm = "offnormal" => runtime.state # "normal")
===========================================================================
