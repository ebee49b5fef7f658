--------------------------- MODULE AlarmReporting ---------------------------
(***************************************************************************)
(* Intrinsic reporting of one analog object, and an Event Enrollment with  *)
(* the out-of-range algorithm, which runs the same state machine           *)
(* (bacnet/alarms.py; _evaluate_alarm and _evaluate_enrollment in          *)
(* simulation/engine.py; alarm_log in db/database.py).  Objects do not     *)
(* interact.  A tick evaluates an object and, on a transition, awaits the  *)
(* write of the log before it goes on; reloads, resets, edits of the       *)
(* configuration and acknowledgements happen in between.  Change of state  *)
(* is this machine with Deadband = 0 and no low limit.  Notifications are  *)
(* sent and forgotten: they change nothing here.                           *)
(***************************************************************************)
EXTENDS Integers, Sequences

CONSTANTS
  PresentValues, HighLimit, LowLimit, Deadband,
  TimeDelay, TimeDelayNormal,
  NoState,     \* no pending state, no entry to write
  MaxElapsed,  \* bound on the simulation clock
  MaxEntries   \* bound on alarm_log

ASSUME AlarmAssumption ==
  /\ PresentValues \subseteq Int /\ HighLimit \in Int /\ LowLimit \in Int /\ Deadband \in Nat
  /\ TimeDelay \in Nat /\ TimeDelayNormal \in Nat /\ MaxElapsed \in Nat /\ MaxEntries \in Nat
  /\ NoState \notin {"normal", "high-limit", "low-limit"}
  /\ NoState \notin [from : {"normal", "high-limit", "low-limit"},
                     to : {"normal", "high-limit", "low-limit"}]

AlarmStates == {"normal", "high-limit", "low-limit"}
Transitions == {"to-normal", "to-offnormal"}

VARIABLES
  elapsed,       \* SimState.elapsed_seconds, in ticks
  confirmed,     \* AlarmRuntime.confirmed_state
  pending,       \* AlarmRuntime.pending_state
  pendingSince,  \* AlarmRuntime.pending_since
  config,        \* object_alarm_configs: enabled, event_enable
  writing,       \* the entry whose log_alarm is awaited
  alarmLog,      \* alarm_log
  gap,           \* history: a change of state since the newest entry is not in the log
  held           \* history: the target of the last evaluations, and for how long

arVars == <<elapsed, confirmed, pending, pendingSince, config, writing, alarmLog, gap, held>>

\* transition_name
TransitionName(to) == IF to = "normal" THEN "to-normal" ELSE "to-offnormal"

AlarmInit ==
  /\ elapsed = 0
  /\ confirmed = "normal" /\ pending = NoState /\ pendingSince = 0
  /\ config = [enabled |-> TRUE, eventEnable |-> Transitions]
  /\ writing = NoState /\ alarmLog = <<>>
  /\ gap = FALSE
  /\ held = [target |-> "normal", for |-> 0]

\* _analog_target_state
Target(value) ==
  CASE confirmed = "high-limit" /\ value >= HighLimit - Deadband -> "high-limit"
    [] confirmed = "low-limit" /\ value <= LowLimit + Deadband -> "low-limit"
    [] OTHER -> IF value >= HighLimit THEN "high-limit"
                ELSE IF value <= LowLimit THEN "low-limit" ELSE "normal"

Delay(target) == IF target = "normal" THEN TimeDelayNormal ELSE TimeDelay

\* The delay is over: pending since this tick or an earlier one.
Since(target, now) == IF pending # target THEN now ELSE pendingSince
DelayOver(target, now) == now - Since(target, now) >= Delay(target)

\* How long the target has been the same, in ticks that passed; counted no
\* further than any delay reaches.
Later(n) == IF n < TimeDelay + TimeDelayNormal THEN n + 1 ELSE n
Held(target) ==
  held' = IF held.target = target THEN [held EXCEPT !.for = Later(@)]
          ELSE [target |-> target, for |-> 0]

\* Mutant: a return to the confirmed state leaves the pending one in place.
StaysPending(target, now) ==
  /\ target = confirmed
  /\ UNCHANGED <<confirmed, pending, pendingSince, writing, gap>>

\* _confirm_transition: nothing to confirm.
Stays(target, now) ==
  /\ target = confirmed
  /\ pending' = NoState
  /\ UNCHANGED <<confirmed, pendingSince, writing, gap>>

Waits(target, now) ==
  /\ target # confirmed /\ ~DelayOver(target, now)
  /\ pending' = target
  /\ pendingSince' = Since(target, now)
  /\ UNCHANGED <<confirmed, writing, gap>>

Enabled(target) == TransitionName(target) \in config.eventEnable

\* Mutant: from_state is read after the state was confirmed.
ConfirmsLate(target, now) ==
  /\ target # confirmed /\ DelayOver(target, now)
  /\ confirmed' = target /\ pending' = NoState
  /\ pendingSince' = Since(target, now)
  /\ writing' = IF Enabled(target) THEN [from |-> target, to |-> target] ELSE NoState
  /\ gap' = ~Enabled(target)

\* Mutant: a transition that event_enable masks is reported with the next one.
ConfirmsQuietly(target, now) ==
  /\ target # confirmed /\ DelayOver(target, now)
  /\ confirmed' = target /\ pending' = NoState
  /\ pendingSince' = Since(target, now)
  /\ writing' = IF Enabled(target) THEN [from |-> confirmed, to |-> target] ELSE NoState
  /\ gap' = FALSE

\* A transition: it moves the state whether or not event_enable has it
\* reported.
Confirms(target, now) ==
  /\ target # confirmed /\ DelayOver(target, now)
  /\ confirmed' = target /\ pending' = NoState
  /\ pendingSince' = Since(target, now)
  /\ writing' = IF Enabled(target) THEN [from |-> confirmed, to |-> target] ELSE NoState
  /\ gap' = ~Enabled(target)

\* A tick.  Configuration rows that are disabled are not read; an object of a
\* mirrored device is not evaluated either.
Evaluated(value) ==
  /\ writing = NoState /\ elapsed < MaxElapsed /\ Len(alarmLog) < MaxEntries
  /\ elapsed' = elapsed + 1
  /\ config.enabled
  /\ LET target == Target(value)
     IN /\ Held(target)
        /\ Stays(target, elapsed') \/ Waits(target, elapsed') \/ Confirms(target, elapsed')
  /\ UNCHANGED <<config, alarmLog>>

NotEvaluated ==
  /\ writing = NoState /\ elapsed < MaxElapsed
  /\ elapsed' = elapsed + 1
  /\ held' = [held EXCEPT !.for = Later(@)]
  /\ UNCHANGED <<confirmed, pending, pendingSince, config, writing, alarmLog, gap>>

\* db.log_alarm
LogAlarm ==
  /\ writing # NoState
  /\ alarmLog' = Append(alarmLog, [from |-> writing.from, to |-> writing.to, acked |-> FALSE])
  /\ writing' = NoState
  /\ UNCHANGED <<elapsed, confirmed, pending, pendingSince, config, gap, held>>

\* It raises: the tick ends, the entry is gone.
LogFails ==
  /\ writing # NoState
  /\ writing' = NoState /\ gap' = TRUE
  /\ UNCHANGED <<elapsed, confirmed, pending, pendingSince, config, alarmLog, held>>

\* PUT .../alarm-config
SetAlarmConfig ==
  /\ config' \in [enabled : BOOLEAN, eventEnable : SUBSET Transitions]
  /\ UNCHANGED <<elapsed, confirmed, pending, pendingSince, writing, alarmLog, gap, held>>

\* POST /alarms/{id}/ack
AckAlarm(i) ==
  /\ i \in DOMAIN alarmLog
  /\ alarmLog' = [alarmLog EXCEPT ![i] = [@ EXCEPT !.acked = TRUE]]
  /\ UNCHANGED <<elapsed, confirmed, pending, pendingSince, config, writing, gap, held>>

\* SimEngine.reset(): the clock starts again, the runtimes stay.
ResetClock ==
  /\ elapsed' = 0
  /\ UNCHANGED <<confirmed, pending, pendingSince, config, writing, alarmLog, gap, held>>

\* reload() empties _alarm_runtime.
Reload ==
  /\ confirmed' = "normal" /\ pending' = NoState /\ pendingSince' = 0
  /\ gap' = (gap \/ confirmed # "normal")
  /\ UNCHANGED <<elapsed, config, writing, alarmLog, held>>

Restart ==
  /\ elapsed' = 0
  /\ confirmed' = "normal" /\ pending' = NoState /\ pendingSince' = 0
  /\ writing' = NoState
  /\ gap' = (gap \/ confirmed # "normal" \/ writing # NoState)
  /\ UNCHANGED <<config, alarmLog, held>>

AlarmNext ==
  \/ \E value \in PresentValues : Evaluated(value)
  \/ NotEvaluated \/ LogAlarm \/ LogFails \/ SetAlarmConfig
  \/ \E i \in DOMAIN alarmLog : AckAlarm(i)
  \/ ResetClock \/ Reload \/ Restart

AlarmSpec == AlarmInit /\ [][AlarmNext]_arVars

---------------------------------------------------------------------------
\* Where the log ends: the state its readers believe the object to be in.
Told == IF alarmLog = <<>> THEN "normal" ELSE alarmLog[Len(alarmLog)].to

\* The newest entry names the state the object is in, and an entry that is
\* being written starts where the log ends, unless a change in between was
\* masked by event_enable, not written, or forgotten by a reload or restart.
LogTellsState ==
  ~gap => IF writing = NoState THEN confirmed = Told ELSE confirmed = writing.to

\* A transition is confirmed only when the value has asked for it at every
\* evaluation of at least the configured delay, whatever resets of the clock
\* and pauses of the evaluation came in between.
TransitionEarned ==
  [][confirmed' # confirmed /\ elapsed' > elapsed =>
       held'.target = confirmed' /\ held'.for >= Delay(confirmed')]_arVars

Log == INSTANCE AlarmLog WITH
         States <- AlarmStates, Normal <- "normal", Nothing <- NoState,
         state <- confirmed, log <- alarmLog, owed <- writing

\* Reporting keeps the promise of AlarmLog: one entry per reported change, in
\* order, from the state that was left, never changed but for its
\* acknowledgement.
KeepsAlarmLog == Log!AlarmLogSpec
=============================================================================
