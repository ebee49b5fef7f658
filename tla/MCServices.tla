---------------------------- MODULE MCServices ----------------------------
(***************************************************************************)
(* The smaller modules side by side.  They share no variable: a behaviour  *)
(* picks one of them (part) and only that one moves, so that the run       *)
(* explores the sum and not the product of their states.                   *)
(***************************************************************************)
EXTENDS FaultRules, AlarmReporting, TrendLog, Replay, Projects, Modbus, Energy, MappingContract,
        Site, Waves, Schedules, PacketCapture, PointValues, ExternalDevices, TLC

CONSTANTS d1, d2, o1, o2, plant, spare

VARIABLE part

---------------------------------------------------------------------------
(* Rules: readings of one group of points at a time; the others are missing *)

Group(sets) == {[s \in Semantics |-> IF s \in DOMAIN f THEN f[s] ELSE Missing] : f \in sets}
M == {Missing}
Readings ==
  Group([fanCommand : M \cup {0, 100}, fanStatus : M \cup {0, 100}, fanPower : M \cup {0, 3, 60},
         supplyFlow : M \cup {0, 50}])
  \cup Group([fanStatus : M \cup {0, 100}, sat : M \cup {100, 130, 160}, satSetpoint : M \cup {130},
              coolCommand : M \cup {0, 90}, heatCommand : M \cup {0, 90}])
  \cup Group([coolCommand : M \cup {0, 30, 90}, compressorPower : M \cup {0, 200},
              coolLoad : M \cup {0, 100, 200}, coolCapacity : M \cup {200}])
  \cup Group([coolPLR : M \cup {0, 50}, coolCOP : M \cup {10, 30}, stage : M \cup {0, 1}])
  \cup Group([coolCommand : M \cup {0, 60}, chwFlow : M \cup {0, 9}, coolLoad : M \cup {0, 100},
              chwSupply : M \cup {60, 120}, chwReturn : M \cup {70, 160}])
  \cup Group([heatCommand : M \cup {0, 50}, gasPower : M \cup {0, 200}, heatLoad : M \cup {0, 150, 300},
              hpPower : M \cup {0, 200}])
  \cup Group([heatPLR : M \cup {0, 50}, heatCOP : M \cup {5, 30}])
  \cup Group([fanStatus : M \cup {100}, outTemp : M \cup {100, 300}, retTemp : M \cup {220},
              mixTemp : M \cup {80, 160, 220}, damper : M \cup {10, 50}, coolCommand : M \cup {50},
              damperCommand : M \cup {10}])
  \cup Group([fanStatus : M \cup {100}, outFlow : M \cup {0, 50}, supplyFlow : M \cup {0, 100},
              damper : M \cup {10, 50}])
  \cup Group([fanStatus : M \cup {0, 100}, pressure : M \cup {100, 300, 500},
              pressureSetpoint : M \cup {200, 300}, vavDamper : M \cup {50, 75, 95}])
  \cup Group([totalPower : M \cup {0, 100, 300}, fanPower : M \cup {100}, compressorPower : M \cup {0, 200},
              hpPower : M \cup {0, 200}])

RulesNext == \E equipment \in {"Rooftop_Unit", "Air_Handling_Unit"}, r \in Readings : AskRules(equipment, r)

---------------------------------------------------------------------------
(* Projects: a row of every table that refers to another *)

Line(table, id, name, refs) == [table |-> table, id |-> id, name |-> name, refs |-> refs]
SampleProject ==
  {Line("locations", 1, "site", [parent |-> NoProjectRow]), Line("locations", 2, "floor", [parent |-> 1]),
   Line("devices", 3, "ahu", [location |-> 2, source |-> NoProjectRow]),
   Line("devices", 4, "twin", [location |-> NoProjectRow, source |-> 3]),
   Line("objects", 5, "sat", [owner |-> 3]), Line("objects", 6, "flow", [owner |-> 3]),
   Line("objects", 7, "copy", [owner |-> 4]),
   Line("trendLogs", 8, "log", [owner |-> 3, point |-> 6]),
   Line("schedules", 9, "hours", [owner |-> 3]), Line("targets", 10, "hours", [schedule |-> 9, point |-> 5]),
   Line("models", 11, "fmu", [createdFrom |-> 3]), Line("mappings", 12, "sat", [owner |-> 11, point |-> 7]),
   Line("aggregates", 13, "avg", [owner |-> 11, point |-> 5, weight |-> 6]),
   Line("entities", 14, "sat", [object |-> 5]), Line("entities", 15, "floor", [place |-> 2]),
   Line("relationships", 16, "isPointOf", [entity |-> 14, peer |-> 15])}

(* Modbus: a profile with a register at the address, and one without *)
SamplePoints == [x \in {plant, spare} |-> IF x = plant THEN {"holding"} ELSE {}]

(* Energy: a plant whose gas, flow and temperature difference are there or not *)
SampleBoilers == [k \in {"boiler", "chiller"} |-> k = "boiler"]
SamplePlant == {[gas |-> 6, flow |-> NoReading, delta |-> NoReading],
                [gas |-> -1, flow |-> 2, delta |-> 2],
                [gas |-> NoReading, flow |-> NoReading, delta |-> 2]}

(* Mappings: an output, an exposed input and an aggregate that may meet at a point *)
Body(m, a, e, src, en) == [mappings |-> m, aggregates |-> a, exposures |-> e, sources |-> src, enabled |-> en]
Out(v, pt) == [variable |-> v, direction |-> "output", point |-> pt]
In(v, pt) == [variable |-> v, direction |-> "input", point |-> pt]
SourceOfX(kind) == [v \in {"x"} |-> kind]
NoSources == [v \in {} |-> 0]
SampleBodies ==
  {Body({Out("y", "p")} \cup i, {}, e, NoSources, TRUE) :
     i \in {{}, {In("x", "q")}}, e \in {{}, {[variable |-> "x", point |-> "q"]}}}
  \cup {Body({Out("y", "q")}, a, {}, s, FALSE) :
          a \in {{}, {[variable |-> "x", points |-> {"p"}, weights |-> {"q"}]}},
          s \in {NoSources, SourceOfX("aggregate"), SourceOfX("constant")}}
  \cup {Body({}, {}, {[variable |-> "x", point |-> pt]}, NoSources, TRUE) : pt \in {"p", "q"}}
  \cup {Body({Out("y", "b"), In("x", "p")}, {}, {}, SourceOfX("point"), TRUE)}

SampleHost == [o \in {o1, o2} |-> IF o = o1 THEN d1 ELSE d2]

(* Waves: a chain a -> b -> c; and two that feed one, which shows what it   *)
(* read at a point the third claims too; and from one to the other          *)
SampleWirings == [id \in {"a", "b", "c"} |->
  CASE id = "a" -> {[NoWiring EXCEPT !.ins = {3}, !.outs = {1}]}
    [] id = "b" -> {[NoWiring EXCEPT !.all = {1, 3}, !.outs = {2}], [NoWiring EXCEPT !.outs = {2}]}
    [] id = "c" -> {[NoWiring EXCEPT !.ins = {2}, !.outs = {3}],
                    [NoWiring EXCEPT !.averaged = {1, 2}, !.shown = {<<1, 2>>, <<1, 3>>}]}]

(* Packets: whole ones, one that names no point, one cut in every layer *)
Bytes(h, n, pdu, s, a, r) == [header |-> h, network |-> n, pdu |-> pdu, service |-> s, invoke |-> 1,
                              about |-> a, rest |-> r, size |-> 1]
Fits(pdu, s, a) == Bytes("fits", "fits", pdu, s, a, "fits")
SampleIncoming == {Fits("Request", "ReadProperty", "p1"), Fits("Request", "Other", Absent),
                   Bytes("length", "fits", "Unconfirmed", "I-Am", "d1", "fits"),
                   Bytes("fits", "cut", "Request", "ReadProperty", "p1", "fits"),
                   Bytes("fits", "fits", "Request", "WriteProperty", "p1", "cut")}
SampleOutgoing == {Fits("ComplexACK", "Other", Absent), Bytes("fits", "fits", "Error", "Other", Absent, "cut"),
                   Fits("Request", "ReadProperty", "p1")}

SampleSource == [t \in Twins |-> "d1"]

---------------------------------------------------------------------------
Parts == {"rules", "alarms", "trend", "replay", "projects", "modbus", "energy", "contract",
          "site", "waves", "schedules", "packets", "points", "externals"}
everything == <<part, frVars, arVars, tlVars, rpVars, pjVars, mbVars, enVars, mcVars,
                siteVars, wavesVars, schedulesVars, captureVars, pointVars, externalVars>>

Still(name, vars) == IF part = name THEN TRUE ELSE UNCHANGED vars
Moves(name) ==
  /\ part = name /\ UNCHANGED part
  /\ Still("rules", frVars) /\ Still("alarms", arVars)
  /\ Still("trend", tlVars) /\ Still("replay", rpVars)
  /\ Still("projects", pjVars) /\ Still("modbus", mbVars)
  /\ Still("energy", enVars) /\ Still("contract", mcVars)
  /\ Still("site", siteVars) /\ Still("waves", wavesVars)
  /\ Still("schedules", schedulesVars) /\ Still("packets", captureVars)
  /\ Still("points", pointVars) /\ Still("externals", externalVars)

\* Of the parts that do not move one initial state is enough; a point starts
\* with the least number, and gets the others by edits.
OneStart ==
  /\ part = "trend" \/ (log.size = Max(BufferSizes) /\ ~log.stop)
  /\ part = "points" \/ ~output
  /\ stored.params = Min(Numbers)
  /\ part = "externals" \/ (inventory = [i \in Externals |-> NoRecord]
                            /\ field[CHOOSE h \in Hosts : TRUE].devices = Externals)

Init ==
  /\ part \in Parts
  /\ FaultRulesInit /\ AlarmInit /\ TrendInit /\ ReplayInit /\ ProjectsInit /\ ModbusInit /\ EnergyInit
  /\ ContractInit /\ SiteInit /\ WavesInit /\ SchedulesInit /\ CaptureInit /\ PointValuesInit /\ ExternalsInit
  /\ OneStart

Next ==
  \/ Moves("rules") /\ RulesNext
  \/ Moves("alarms") /\ AlarmNext
  \/ Moves("trend") /\ TrendNext
  \/ Moves("replay") /\ ReplayNext
  \/ Moves("projects") /\ ProjectsNext
  \/ Moves("modbus") /\ ModbusNext
  \/ Moves("energy") /\ EnergyNext
  \/ Moves("contract") /\ ContractNext
  \/ Moves("site") /\ SiteNext
  \/ Moves("waves") /\ WavesNext
  \/ Moves("schedules") /\ SchedulesNext
  \/ Moves("packets") /\ CaptureNext
  \/ Moves("points") /\ PointValuesNext
  \/ Moves("externals") /\ ExternalsNext

Spec == Init /\ [][Next]_everything
=============================================================================
