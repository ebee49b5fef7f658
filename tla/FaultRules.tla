---------------------------- MODULE FaultRules ----------------------------
(***************************************************************************)
(* The fault rules of an air handler (fault_detection/rules/ahu.py), and   *)
(* which rules are asked about a device (fault_detection/registry.py).     *)
(* ahu.py repeats most formulas of rtu.py under the same class names; such *)
(* a rule is the operator of RtuRules here.                                *)
(***************************************************************************)
EXTENDS RtuRules

VARIABLES
  reading,   \* the points of the device, by canonical semantic
  verdicts   \* what each of its rules says of them

frVars == <<reading, verdicts>>

AhuSupplyFanCommandStatusMismatch(r) == SupplyFanCommandStatusMismatch(r)
AhuSupplyFanFailedToStop(r) == SupplyFanFailedToStop(r)
AhuSupplyFanPowerStatusMismatch(r) == SupplyFanPowerStatusMismatch(r)
AhuLowSupplyAirflow(r) == LowSupplyAirflow(r)
AhuSupplyAirTemperatureDeviation(r) == SupplyAirTemperatureDeviation(r)

SupplyAirTemperatureHigh(r) ==
  Verdict({r["sat"], r["satSetpoint"], r["fanStatus"]},
          FanRuns(r) /\ r["sat"] - r["satSetpoint"] > 20)

SupplyAirTemperatureLow(r) ==
  Verdict({r["sat"], r["satSetpoint"], r["fanStatus"]},
          FanRuns(r) /\ r["satSetpoint"] - r["sat"] > 20)

AhuCoolingIneffective(r) == CoolingIneffective(r)
AhuHeatingIneffective(r) == HeatingIneffective(r)
AhuSimultaneousHeatingCooling(r) == SimultaneousHeatingCooling(r)

CoolingCommandNoChilledWaterFlow(r) ==
  Verdict({r["coolCommand"], r["chwFlow"]}, r["coolCommand"] >= 50 /\ r["chwFlow"] < 5)

\* One of flow and load is enough.
CoolingValveLeakage(r) ==
  Verdict({r["coolCommand"], IF r["chwFlow"] = Missing THEN r["coolLoad"] ELSE r["chwFlow"]},
          r["coolCommand"] <= 5 /\ ~(Quiet(r["chwFlow"], 5) /\ Quiet(r["coolLoad"], 50)))

ChilledWaterSupplyTooWarm(r) ==
  Verdict({r["coolCommand"], r["chwSupply"]}, r["coolCommand"] > 20 /\ r["chwSupply"] > 100)

PoorChilledWaterDeltaT(r) ==
  Verdict({r["coolCommand"], r["chwSupply"], r["chwReturn"]},
          /\ r["coolCommand"] > 20
          /\ r["chwFlow"] = Missing \/ r["chwFlow"] >= 5
          /\ r["chwReturn"] - r["chwSupply"] < 20)

AhuEconomizerNotUsingFreeCooling(r) == EconomizerNotUsingFreeCooling(r)
AhuEconomizerExcessiveOutdoorAir(r) == EconomizerExcessiveOutdoorAir(r)
AhuMixedAirTemperatureOutOfRange(r) == MixedAirTemperatureOutOfRange(r)
AhuMixedAirTemperatureMismatch(r) == MixedAirTemperatureMismatch(r)
AhuSupplyStaticPressureHigh(r) == SupplyStaticPressureHigh(r)
AhuSupplyStaticPressureLow(r) == SupplyStaticPressureLow(r)
AhuStaticPressureResetMismatch(r) == StaticPressureResetMismatch(r)
AhuOutdoorAirDamperCommandPositionMismatch(r) == OutdoorAirDamperCommandPositionMismatch(r)

\* AHU_FAULT_RULES
AhuVerdicts(r) ==
  [fanMismatch |-> AhuSupplyFanCommandStatusMismatch(r),
   failedToStop |-> AhuSupplyFanFailedToStop(r),
   fanPower |-> AhuSupplyFanPowerStatusMismatch(r), lowAirflow |-> AhuLowSupplyAirflow(r),
   satOff |-> AhuSupplyAirTemperatureDeviation(r),
   satHigh |-> SupplyAirTemperatureHigh(r), satLow |-> SupplyAirTemperatureLow(r),
   coolingIneffective |-> AhuCoolingIneffective(r), heatingIneffective |-> AhuHeatingIneffective(r),
   simultaneous |-> AhuSimultaneousHeatingCooling(r),
   noChwFlow |-> CoolingCommandNoChilledWaterFlow(r), leakage |-> CoolingValveLeakage(r),
   chwWarm |-> ChilledWaterSupplyTooWarm(r), chwDeltaT |-> PoorChilledWaterDeltaT(r),
   noFreeCooling |-> AhuEconomizerNotUsingFreeCooling(r),
   tooMuchOutdoorAir |-> AhuEconomizerExcessiveOutdoorAir(r),
   mixRange |-> AhuMixedAirTemperatureOutOfRange(r), mixOff |-> AhuMixedAirTemperatureMismatch(r),
   pressureHigh |-> AhuSupplyStaticPressureHigh(r), pressureLow |-> AhuSupplyStaticPressureLow(r),
   resetOff |-> AhuStaticPressureResetMismatch(r),
   damperStuck |-> AhuOutdoorAirDamperCommandPositionMismatch(r)]

\* for_equipment: a device is only asked the rules of its own kind.
VerdictsOf(equipment, r) ==
  CASE equipment = "Rooftop_Unit" -> RtuVerdicts(r)
    [] equipment = "Air_Handling_Unit" -> AhuVerdicts(r)

AllMissing == [s \in Semantics |-> Missing]
NoVerdicts == [fanMismatch |-> "none"]

FaultRulesInit ==
  /\ reading = AllMissing
  /\ verdicts = NoVerdicts

\* evaluate_device asks every rule about the same snapshot.
AskRules(equipment, r) ==
  /\ verdicts = NoVerdicts
  /\ reading' = r
  /\ verdicts' = VerdictsOf(equipment, r)

FaultRulesNext ==
  \E equipment \in {"Rooftop_Unit", "Air_Handling_Unit"}, r \in Reading : AskRules(equipment, r)

FaultRulesSpec == FaultRulesInit /\ [][FaultRulesNext]_frVars

---------------------------------------------------------------------------
Present(rule) == rule \in DOMAIN verdicts /\ verdicts[rule] = "present"

\* Two findings a technician cannot both act on.
Contradictory ==
  {<<"fanMismatch", "failedToStop">>, <<"satHigh", "satLow">>,
   <<"coolingIneffective", "satLow">>, <<"heatingIneffective", "satHigh">>,
   <<"coolingIneffective", "heatingIneffective">>,
   <<"noCompressorPower", "powerWithoutCooling">>, <<"noFuel", "fuelWithoutHeating">>,
   <<"noFuel", "gasEfficiency">>, <<"noChwFlow", "leakage">>, <<"noChwFlow", "chwDeltaT">>,
   <<"shortfall", "powerWithoutCooling">>, <<"noFreeCooling", "tooMuchOutdoorAir">>,
   <<"pressureHigh", "pressureLow">>}

\* No snapshot makes two rules of a device contradict one another: their
\* thresholds leave no overlap, whatever the points say and whichever are
\* missing.
NoContradiction == \A p \in Contradictory : ~(Present(p[1]) /\ Present(p[2]))

\* These rules read a point they can do without, and count it as zero or
\* quiet when it is missing.
Tolerant == {"powerWithoutCooling", "fuelWithoutHeating", "totalPower", "leakage", "chwDeltaT"}

\* "Missing points MUST NOT silently become 0 or False" (rtu.py): for every
\* other rule, a point that drops out of the snapshot never makes a fault out
\* of a reading that showed none.
LosingAPointAddsNoFault ==
  verdicts # NoVerdicts =>
    \A s \in Semantics :
      LET without == VerdictsOf(IF "stage" \in DOMAIN verdicts THEN "Rooftop_Unit" ELSE "Air_Handling_Unit",
                                [reading EXCEPT ![s] = Missing])
      IN \A rule \in DOMAIN verdicts \ Tolerant :
           without[rule] = "present" => Present(rule)
=============================================================================
