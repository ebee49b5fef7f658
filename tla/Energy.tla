------------------------------- MODULE Energy -------------------------------
(***************************************************************************)
(* Energy accounting (energy/engine.py, energy/context.py and the boiler   *)
(* model).  Two callers evaluate: the tick, and POST /energy/evaluate,     *)
(* which the tick's gate on the clock does not cover.  Both run on the     *)
(* event loop and await the database between finding the accumulator of a  *)
(* configuration and adding to it; reset() and an edit may come there.     *)
(*                                                                         *)
(* Only boilers are ever accounted.  build_chiller_snapshot,               *)
(* build_ahu_snapshot and build_lighting_snapshot pass fields that the     *)
(* dataclasses of energy/equipment do not have, a TypeError that           *)
(* evaluate_all logs; an rtu configuration is not dispatched at all.       *)
(* History, the audit log and the serialized results are left out.         *)
(***************************************************************************)
EXTENDS Integers, Sequences, FiniteSetsExt

CONSTANTS
  EnergyCallers,  \* "tick", "route"
  EnergyKeys,     \* (device, model type, instance) of the configurations
  IsBoiler,       \* [EnergyKeys -> BOOLEAN]
  RatedInputs,    \* rated_fuel_input_kw an operator may choose
  RunningPercent, \* running_fuel_fraction
  EfficiencyPercent,
  PlantReadings,  \* [gas, flow, delta]: points of the plant, NoReading if absent
  NoReading,
  NoEnergyConfig,
  Elapsed,        \* elapsed_seconds of a call
  MaxCalls,       \* bound on evaluations
  MaxEnergyEdits  \* bound on edits and resets

\* A plant has one of finitely many readings, among them that of a plant whose
\* gas and flow points are not mapped.
ASSUME EnergyAssumption ==
  /\ IsFiniteSet(EnergyCallers) /\ IsBoiler \in [EnergyKeys -> BOOLEAN]
  /\ NoReading \notin Int /\ NoEnergyConfig \notin EnergyKeys
  /\ PlantReadings \subseteq [gas: Int \cup {NoReading}, flow: Int \cup {NoReading},
                             delta: Int \cup {NoReading}]
  /\ IsFiniteSet(PlantReadings)
  /\ \E reading \in PlantReadings : reading.gas = NoReading /\ reading.flow = NoReading
  /\ RatedInputs \subseteq Nat /\ IsFiniteSet(RatedInputs) /\ RatedInputs # {} /\ NoEnergyConfig \notin RatedInputs
  /\ RunningPercent \in 0..150 /\ EfficiencyPercent \in 1..100
  /\ Elapsed \subseteq Nat \ {0} /\ MaxCalls \in Nat /\ MaxEnergyEdits \in Nat

VARIABLES
  configs, \* energy_model_configs: the parameters of an enabled row, or NoEnergyConfig
  models,  \* _models: the number of each key's accumulator, 0 for none
  totals,  \* by number: the accumulator's parameters and total
  latest,  \* _latest: the keys that have a result
  working, \* by caller: rows left, and the accumulator found for the row at hand
  allowed, \* history: the simulated time the totals may stand for
  energyCalls, energyEdits

enVars == <<configs, models, totals, latest, working, allowed, energyCalls, energyEdits>>

Off == [rows |-> {}, elapsed |-> 0, key |-> NoEnergyConfig, model |-> 0, busy |-> FALSE]

EnergyInit ==
  /\ configs = [k \in EnergyKeys |-> CHOOSE r \in RatedInputs : TRUE]
  /\ models = [k \in EnergyKeys |-> 0]
  /\ totals = <<>>
  /\ latest = {}
  /\ working = [c \in EnergyCallers |-> Off]
  /\ allowed = 0
  /\ energyCalls = 0
  /\ energyEdits = 0

\* BoilerEnergyModel.evaluate on what build_boiler_snapshot gives it: never a
\* firing rate, so the third of its four methods is never used.  The running
\* status is not given either: a boiler is never off.
FuelInput(rated, reading) ==
  IF reading.gas # NoReading /\ reading.gas >= 0 THEN reading.gas
  ELSE IF reading.flow # NoReading /\ reading.flow >= 0 /\ reading.delta # NoReading
       THEN (reading.flow * reading.delta * 100) \div EfficiencyPercent
       ELSE (rated * RunningPercent) \div 100

\* The most a boiler can be charged for.
MostFuel == LET all == {FuelInput(r, p) : r \in RatedInputs, p \in PlantReadings}
            IN CHOOSE m \in all : \A f \in all : f <= m

\* evaluate_all, up to the rows it reads.
BeginEvaluation(c, elapsed) ==
  /\ ~working[c].busy /\ energyCalls < MaxCalls
  /\ working' = [working EXCEPT ![c] =
       [Off EXCEPT !.rows = {<<k, configs[k]>> : k \in {k \in EnergyKeys : configs[k] # NoEnergyConfig}},
                   !.elapsed = elapsed, !.busy = TRUE]]
  /\ allowed' = allowed + elapsed
  /\ energyCalls' = energyCalls + 1
  /\ UNCHANGED <<configs, models, totals, latest, energyEdits>>

\* evaluate_boiler, _chiller, _ahu, _lighting: the accumulator of the key, or
\* a new one when the parameters are not those it was made with; then the read
\* of the device's objects.
FindModel(c) ==
  /\ working[c].busy /\ working[c].model = 0
  /\ \E row \in working[c].rows :
       LET key == row[1]
           fits == models[key] # 0 /\ totals[models[key]].config = row[2]
           number == IF fits THEN models[key] ELSE Len(totals) + 1
       IN /\ totals' = IF fits THEN totals ELSE Append(totals, [config |-> row[2], total |-> 0])
          /\ models' = [models EXCEPT ![key] = number]
          /\ working' = [working EXCEPT ![c] =
               [working[c] EXCEPT !.rows = @ \ {row}, !.key = key, !.model = number]]
  /\ UNCHANGED <<configs, latest, allowed, energyCalls, energyEdits>>

\* The values the points have now, and the accumulator's evaluate().
AddInterval(c, reading) ==
  LET w == working[c]
      interval == FuelInput(totals[w.model].config, reading) * w.elapsed
  IN /\ w.model # 0
     /\ IF IsBoiler[w.key]
        THEN /\ totals' = [totals EXCEPT ![w.model].total = @ + interval]
             /\ latest' = latest \cup {w.key}
        ELSE UNCHANGED <<totals, latest>>
     /\ working' = [working EXCEPT ![c] = [w EXCEPT !.key = NoEnergyConfig, !.model = 0]]
     /\ UNCHANGED <<configs, models, allowed, energyCalls, energyEdits>>

EndEvaluation(c) ==
  /\ working[c].busy /\ working[c].model = 0 /\ working[c].rows = {}
  /\ working' = [working EXCEPT ![c] = Off]
  /\ UNCHANGED <<configs, models, totals, latest, allowed, energyCalls, energyEdits>>

EnergyEdit == energyEdits < MaxEnergyEdits /\ energyEdits' = energyEdits + 1

\* PUT and DELETE /energy/models/{id}; a deleted or disabled configuration
\* keeps its accumulator and its last result.
EditConfig(k, config) ==
  /\ EnergyEdit
  /\ configs' = [configs EXCEPT ![k] = config]
  /\ UNCHANGED <<models, totals, latest, working, allowed, energyCalls>>

\* The time of the evaluations under way.
InFlight == MapThenSumSet(LAMBDA c : working[c].elapsed, EnergyCallers)

\* Mutant: reset() drops the results and leaves the accumulators.
ResetLatestOnly ==
  /\ EnergyEdit
  /\ latest' = {}
  /\ allowed' = InFlight
  /\ UNCHANGED <<configs, models, totals, working, energyCalls>>

\* reset() of /sim/stop.  An evaluation under way goes on after it and charges
\* its interval to the totals that were just cleared.
ResetEnergy ==
  /\ EnergyEdit
  /\ totals' = [n \in 1..Len(totals) |->
                 IF \E k \in EnergyKeys : models[k] = n THEN [totals[n] EXCEPT !.total = 0]
                 ELSE totals[n]]
  /\ latest' = {}
  /\ allowed' = InFlight
  /\ UNCHANGED <<configs, models, working, energyCalls>>

EnergyNext ==
  \/ \E c \in EnergyCallers, elapsed \in Elapsed : BeginEvaluation(c, elapsed)
  \/ \E c \in EnergyCallers : FindModel(c) \/ EndEvaluation(c)
  \/ \E c \in EnergyCallers, reading \in PlantReadings : AddInterval(c, reading)
  \/ \E k \in EnergyKeys, config \in RatedInputs \cup {NoEnergyConfig} : EditConfig(k, config)
  \/ ResetEnergy

EnergySpec == EnergyInit /\ [][EnergyNext]_enVars
---------------------------------------------------------------------------
\* A total never stands for more energy than the simulated time it was asked
\* to account for, at the largest input: no interval is charged twice to an
\* accumulator, whatever evaluations overlap and edits come between, and a reset leaves at most
\* the intervals of the evaluations it found under way.
NeverOvercharged ==
  \A k \in EnergyKeys : models[k] # 0 => totals[models[k]].total <= MostFuel * allowed
=============================================================================
