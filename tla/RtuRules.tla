---------------------------- MODULE RtuRules ----------------------------
(***************************************************************************)
(* The fault rules of a rooftop unit (fault_detection/rules/rtu.py).  Each *)
(* rule looks at one reading of the unit and says "present", "absent" or   *)
(* "unevaluable"; FaultDetection turns a series of such answers into       *)
(* events.                                                                 *)
(*                                                                         *)
(* A reading gives every canonical semantic a number or Missing.           *)
(* Commands, positions and statuses are in percent, temperatures and COPs  *)
(* in tenths, powers in 0.01 kW, flows in 0.01 m3/s (chilled water in      *)
(* 0.01 l/s), pressures in Pa.  Thresholds are the defaults of the code.   *)
(***************************************************************************)
EXTENDS Integers

CONSTANT Missing
ASSUME MissingAssumption == Missing \notin Int

AirSemantics ==
  {"fanCommand", "fanStatus", "fanPower", "supplyFlow", "sat", "satSetpoint",
   "coolCommand", "heatCommand", "coolLoad", "outTemp", "retTemp", "mixTemp",
   "damper", "damperCommand", "pressure", "pressureSetpoint", "vavDamper"}
RtuSemantics ==
  {"compressorPower", "coolPLR", "coolCOP", "coolCapacity", "stage", "gasPower",
   "heatLoad", "hpPower", "heatPLR", "heatCOP", "outFlow", "totalPower"}
AhuSemantics == {"chwFlow", "chwSupply", "chwReturn"}

\* CANONICAL_SEMANTICS of both kinds of unit.
Semantics == AirSemantics \cup RtuSemantics \cup AhuSemantics
Reading == [Semantics -> Int \cup {Missing}]

Larger(a, b) == IF a > b THEN a ELSE b
Smaller(a, b) == IF a < b THEN a ELSE b
Distance(a, b) == IF a > b THEN a - b ELSE b - a
Clamp(lo, x, hi) == Larger(lo, Smaller(hi, x))

\* _not_evaluable and _result: a rule without one of its points says nothing.
Verdict(needed, fault) ==
  IF Missing \in needed THEN "unevaluable" ELSE IF fault THEN "present" ELSE "absent"

\* bool(_bool_from_signal(x, threshold)); a missing signal is not on.
On(x, threshold) == x # Missing /\ x > threshold
\* _fan_running
FanRuns(r) == On(r["fanStatus"], 50)
CommandedOn(r) == On(r["fanCommand"], 5)
\* An optional point counts as quiet when it is missing.
Quiet(x, most) == x = Missing \/ x <= most
\* ... and adds nothing to a sum.
OrZero(x) == IF x = Missing THEN 0 ELSE x

---------------------------------------------------------------------------
(* Supply fan.                                                             *)

SupplyFanCommandStatusMismatch(r) ==
  Verdict({r["fanCommand"], r["fanStatus"]}, CommandedOn(r) /\ ~FanRuns(r))

SupplyFanFailedToStop(r) ==
  Verdict({r["fanCommand"], r["fanStatus"]}, ~CommandedOn(r) /\ FanRuns(r))

\* Mutant: a missing status is a fan that is off.
PowerStatusMismatchWithoutStatus(r) ==
  Verdict({r["fanPower"]}, IF FanRuns(r) THEN r["fanPower"] < 5 ELSE r["fanPower"] > 2)

SupplyFanPowerStatusMismatch(r) ==
  Verdict({r["fanPower"], r["fanStatus"]},
          IF FanRuns(r) THEN r["fanPower"] < 5 ELSE r["fanPower"] > 2)

LowSupplyAirflow(r) ==
  Verdict({r["supplyFlow"], r["fanStatus"]}, FanRuns(r) /\ r["supplyFlow"] < 10)

---------------------------------------------------------------------------
(* Supply-air temperature.                                                 *)

SupplyAirTemperatureDeviation(r) ==
  Verdict({r["sat"], r["satSetpoint"], r["fanStatus"]},
          FanRuns(r) /\ Distance(r["sat"], r["satSetpoint"]) > 20)

CoolingIneffective(r) ==
  Verdict({r["coolCommand"], r["sat"], r["satSetpoint"], r["fanStatus"]},
          FanRuns(r) /\ r["coolCommand"] >= 80 /\ r["sat"] > r["satSetpoint"] + 20)

HeatingIneffective(r) ==
  Verdict({r["heatCommand"], r["sat"], r["satSetpoint"], r["fanStatus"]},
          FanRuns(r) /\ r["heatCommand"] >= 80 /\ r["sat"] < r["satSetpoint"] - 20)

SimultaneousHeatingCooling(r) ==
  Verdict({r["heatCommand"], r["coolCommand"]}, r["heatCommand"] > 10 /\ r["coolCommand"] > 10)

---------------------------------------------------------------------------
(* DX cooling.                                                             *)

CoolingCommandNoCompressorPower(r) ==
  Verdict({r["coolCommand"], r["compressorPower"]},
          r["coolCommand"] > 20 /\ r["compressorPower"] < 10)

CompressorPowerWithoutCooling(r) ==
  Verdict({r["coolCommand"], r["compressorPower"]},
          r["coolCommand"] <= 5 /\ r["compressorPower"] > 10 /\ Quiet(r["coolLoad"], 50))

CoolingCOPOutOfRange(r) ==
  Verdict({r["coolCOP"], r["coolPLR"]}, r["coolPLR"] > 5 /\ r["coolCOP"] \notin 15 .. 80)

CoolingCapacityShortfall(r) ==
  Verdict({r["coolCommand"], r["coolLoad"], r["coolCapacity"]},
          /\ r["coolCommand"] >= 80 /\ r["coolCapacity"] > 10
          /\ 100 * r["coolLoad"] < 65 * r["coolCapacity"])

CompressorStageMismatch(r) ==
  Verdict({r["stage"], r["coolPLR"]}, (r["coolPLR"] > 5) # (r["stage"] >= 1))

---------------------------------------------------------------------------
(* Gas and heat-pump heating.                                              *)

GasHeatingCommandNoFuelInput(r) ==
  Verdict({r["heatCommand"], r["gasPower"]}, r["heatCommand"] > 20 /\ r["gasPower"] < 10)

GasInputWithoutHeating(r) ==
  Verdict({r["heatCommand"], r["gasPower"]},
          r["heatCommand"] <= 5 /\ r["gasPower"] > 10 /\ Quiet(r["heatLoad"], 50))

\* Delivered over input, tested from 1 kW of input on.
GasHeatingEfficiencyMismatch(r) ==
  Verdict({r["heatLoad"], r["gasPower"]},
          /\ r["gasPower"] >= 100
          /\ 100 * r["heatLoad"] < 65 * r["gasPower"] \/ r["heatLoad"] > r["gasPower"])

HeatPumpCommandNoHeatingCompressorPower(r) ==
  Verdict({r["heatCommand"], r["hpPower"]}, r["heatCommand"] > 20 /\ r["hpPower"] < 10)

HeatingCOPOutOfRange(r) ==
  Verdict({r["heatCOP"], r["heatPLR"]}, r["heatPLR"] > 5 /\ r["heatCOP"] \notin 10 .. 60)

---------------------------------------------------------------------------
(* Economizer, mixing and ventilation.                                     *)

OutdoorAirDamperCommandPositionMismatch(r) ==
  Verdict({r["damperCommand"], r["damper"]}, Distance(r["damperCommand"], r["damper"]) > 10)

MixedAirTemperatureOutOfRange(r) ==
  Verdict({r["outTemp"], r["retTemp"], r["mixTemp"], r["fanStatus"]},
          /\ FanRuns(r)
          /\ \/ r["mixTemp"] < Smaller(r["outTemp"], r["retTemp"]) - 10
             \/ r["mixTemp"] > Larger(r["outTemp"], r["retTemp"]) + 10)

MixedAirTemperatureMismatch(r) ==
  LET share == Clamp(0, r["damper"], 100)
      mixed == share * r["outTemp"] + (100 - share) * r["retTemp"]
  IN Verdict({r["outTemp"], r["retTemp"], r["mixTemp"], r["damper"], r["fanStatus"]},
             FanRuns(r) /\ Distance(100 * r["mixTemp"], mixed) > 2000)

\* Outdoor air is cool enough to cool with.
Favorable(r) == r["outTemp"] < r["retTemp"] - 10

EconomizerNotUsingFreeCooling(r) ==
  Verdict({r["outTemp"], r["retTemp"], r["damper"], r["coolCommand"], r["fanStatus"]},
          FanRuns(r) /\ Favorable(r) /\ r["coolCommand"] > 20 /\ r["damper"] <= 20)

EconomizerExcessiveOutdoorAir(r) ==
  Verdict({r["outTemp"], r["retTemp"], r["damper"], r["fanStatus"]},
          FanRuns(r) /\ ~Favorable(r) /\ r["damper"] > 30)

OutdoorAirflowDamperMismatch(r) ==
  LET expected == Larger(0, r["supplyFlow"]) * Clamp(0, r["damper"], 100)
  IN Verdict({r["outFlow"], r["supplyFlow"], r["damper"], r["fanStatus"]},
             FanRuns(r) /\ Distance(100 * r["outFlow"], expected) > 10 * Larger(5, r["supplyFlow"]))

---------------------------------------------------------------------------
(* Static pressure and total power.                                        *)

SupplyStaticPressureHigh(r) ==
  Verdict({r["pressure"], r["pressureSetpoint"], r["fanStatus"]},
          FanRuns(r) /\ r["pressure"] - r["pressureSetpoint"] > 75)

\* Mutant: the deviation is taken without its sign.
SupplyStaticPressureOff(r) ==
  Verdict({r["pressure"], r["pressureSetpoint"], r["fanStatus"]},
          FanRuns(r) /\ Distance(r["pressure"], r["pressureSetpoint"]) > 75)

SupplyStaticPressureLow(r) ==
  Verdict({r["pressure"], r["pressureSetpoint"], r["fanStatus"]},
          FanRuns(r) /\ r["pressureSetpoint"] - r["pressure"] > 75)

\* 200 Pa up to a damper at 60 %, 500 Pa from 90 % on.
StaticPressureResetMismatch(r) ==
  Verdict({r["vavDamper"], r["pressureSetpoint"]},
          Distance(r["pressureSetpoint"], 200 + 10 * Clamp(0, r["vavDamper"] - 60, 30)) > 50)

TotalElectricPowerComponentMismatch(r) ==
  LET parts == OrZero(r["fanPower"]) + OrZero(r["compressorPower"]) + OrZero(r["hpPower"])
  IN Verdict({r["totalPower"], r["fanPower"]},
             10 * Distance(r["totalPower"], parts) > Larger(250, Larger(r["totalPower"], parts)))

\* RTU_FAULT_RULES: the gas rules and the heat-pump rules together.
RtuVerdicts(r) ==
  [fanMismatch |-> SupplyFanCommandStatusMismatch(r), failedToStop |-> SupplyFanFailedToStop(r),
   fanPower |-> SupplyFanPowerStatusMismatch(r), lowAirflow |-> LowSupplyAirflow(r),
   satOff |-> SupplyAirTemperatureDeviation(r),
   coolingIneffective |-> CoolingIneffective(r), heatingIneffective |-> HeatingIneffective(r),
   simultaneous |-> SimultaneousHeatingCooling(r),
   noCompressorPower |-> CoolingCommandNoCompressorPower(r),
   powerWithoutCooling |-> CompressorPowerWithoutCooling(r),
   coolCOP |-> CoolingCOPOutOfRange(r), shortfall |-> CoolingCapacityShortfall(r),
   stage |-> CompressorStageMismatch(r), noFuel |-> GasHeatingCommandNoFuelInput(r),
   fuelWithoutHeating |-> GasInputWithoutHeating(r), gasEfficiency |-> GasHeatingEfficiencyMismatch(r),
   noHeatPumpPower |-> HeatPumpCommandNoHeatingCompressorPower(r),
   heatCOP |-> HeatingCOPOutOfRange(r),
   damperStuck |-> OutdoorAirDamperCommandPositionMismatch(r),
   mixRange |-> MixedAirTemperatureOutOfRange(r), mixOff |-> MixedAirTemperatureMismatch(r),
   noFreeCooling |-> EconomizerNotUsingFreeCooling(r),
   tooMuchOutdoorAir |-> EconomizerExcessiveOutdoorAir(r),
   outFlow |-> OutdoorAirflowDamperMismatch(r),
   pressureHigh |-> SupplyStaticPressureHigh(r), pressureLow |-> SupplyStaticPressureLow(r),
   resetOff |-> StaticPressureResetMismatch(r), totalPower |-> TotalElectricPowerComponentMismatch(r)]
=============================================================================
