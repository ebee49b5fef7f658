------------------------------- MODULE Modbus -------------------------------
(***************************************************************************)
(* One address of the Modbus simulator (modbus-simulator/simulator.py):    *)
(* a block per register type and unit, the thread of each block that       *)
(* rewrites it every second, the server's thread that writes it for a      *)
(* Modbus client, and the Flask routes.  Nothing takes a lock; the tables  *)
(* of held writes and of overrides are module globals, keyed by (register  *)
(* type, address) and by address: neither has the unit.                    *)
(***************************************************************************)
EXTENDS Integers

CONSTANTS
  Units,         \* slaves of the server
  RegisterTypes, \* "holding", "coil"
  Profiles,
  Points,        \* [Profiles -> SUBSET RegisterTypes]: types at which a profile has the address
  ClientValues,  \* values a Modbus client writes
  NoValue,       \* no entry
  MaxRoutes      \* bound on calls of the routes and on writes

ASSUME ModbusAssumption ==
  /\ Points \in [Profiles -> SUBSET RegisterTypes]
  /\ NoValue \notin ClientValues /\ MaxRoutes \in Nat

VARIABLES
  heldWrites,    \* MANUAL_WRITE_OVERRIDES
  overridden,    \* the address is in REGISTER_OVERRIDES
  activeProfile, \* ACTIVE_PROFILE
  disabledUnits, \* DISABLED_SLAVES
  answered,      \* values[idx] of each block: what was written, "profile" or "override" for noise
                 \* around the base of either, or "built", what __init__ gave it
  indexed,       \* the profile of each block's _dp_index; NoValue before its first pass
  passing,       \* the pass of each block: where it takes the value from
  modbusWrite,   \* the write the server's thread is in, or NoValue
  calm,          \* history: blocks that finished a pass nothing changed under
  routeCalls

mbVars == <<heldWrites, overridden, activeProfile, disabledUnits, answered, indexed, passing, modbusWrite, calm,
            routeCalls>>

Blocks == RegisterTypes \X Units
TypeOf(b) == b[1]

\* The blocks that have not yet made a pass since something they show changed.
Disturbed(bs) == [b \in Blocks |-> b \notin bs /\ calm[b]]
BlocksOf(type) == {b \in Blocks : TypeOf(b) = type}

ModbusInit ==
  /\ heldWrites = [t \in RegisterTypes |-> NoValue]
  /\ overridden = FALSE
  /\ activeProfile = CHOOSE p \in Profiles : TRUE
  /\ disabledUnits = {}
  /\ answered = [b \in Blocks |-> "built"]
  /\ indexed = [b \in Blocks |-> NoValue]
  /\ passing = [b \in Blocks |-> "rest"]
  /\ modbusWrite = NoValue
  /\ calm = [b \in Blocks |-> FALSE]
  /\ routeCalls = 0

\* Mutant: an override comes before a held write.
OverrideFirst(type) ==
  IF overridden THEN "override" ELSE IF heldWrites[type] # NoValue THEN "held" ELSE "profile"

\* Where _update_registers takes the value from.
SourceOf(type) ==
  IF heldWrites[type] # NoValue THEN "held" ELSE IF overridden THEN "override" ELSE "profile"

\* _update_registers, up to the tests of the tables: a block follows a switch
\* of the profile here, and leaves an address its profile does not have alone.
BeginPass(b) ==
  /\ passing[b] = "rest"
  /\ indexed' = [indexed EXCEPT ![b] = activeProfile]
  /\ passing' = [passing EXCEPT ![b] =
       IF TypeOf(b) \in Points[activeProfile] THEN SourceOf(TypeOf(b)) ELSE "rest"]
  /\ calm' = [calm EXCEPT ![b] = TypeOf(b) \in Points[activeProfile]]
  /\ UNCHANGED <<heldWrites, overridden, activeProfile, disabledUnits, answered, modbusWrite, routeCalls>>

\* The entry is read a second time: one that a route removed in between is a
\* KeyError, which _simulation_loop logs; the pass ends there.
EndPass(b) ==
  /\ passing[b] # "rest"
  /\ LET type == TypeOf(b)
         gone == \/ passing[b] = "held" /\ heldWrites[type] = NoValue
                 \/ passing[b] = "override" /\ ~overridden
     IN /\ answered' = IF gone THEN answered
                    ELSE [answered EXCEPT ![b] = IF passing[b] = "held" THEN heldWrites[type] ELSE passing[b]]
        /\ calm' = [calm EXCEPT ![b] = calm[b] /\ ~gone]
  /\ passing' = [passing EXCEPT ![b] = "rest"]
  /\ UNCHANGED <<heldWrites, overridden, activeProfile, disabledUnits, indexed, modbusWrite, routeCalls>>

\* setValues: the block first.  A disabled unit refuses the request.
WriteBlock(b, v) ==
  /\ modbusWrite = NoValue /\ b[2] \notin disabledUnits /\ routeCalls < MaxRoutes
  /\ answered' = [answered EXCEPT ![b] = v]
  /\ modbusWrite' = [block |-> b, value |-> v]
  /\ calm' = Disturbed({b})
  /\ routeCalls' = routeCalls + 1
  /\ UNCHANGED <<heldWrites, overridden, activeProfile, disabledUnits, indexed, passing>>

\* Then MANUAL_WRITE_OVERRIDES, for the type and address of every unit.
HoldWrite ==
  /\ modbusWrite # NoValue
  /\ heldWrites' = [heldWrites EXCEPT ![TypeOf(modbusWrite.block)] = modbusWrite.value]
  /\ calm' = Disturbed(BlocksOf(TypeOf(modbusWrite.block)))
  /\ modbusWrite' = NoValue
  /\ UNCHANGED <<overridden, activeProfile, disabledUnits, answered, indexed, passing, routeCalls>>

Route == routeCalls < MaxRoutes /\ routeCalls' = routeCalls + 1

\* POST /api/overrides, PUT and DELETE /api/overrides/{address}.
SetOverride(on) ==
  /\ Route
  /\ overridden' = on
  /\ calm' = Disturbed(Blocks)
  /\ UNCHANGED <<heldWrites, activeProfile, disabledUnits, answered, indexed, passing, modbusWrite>>

\* DELETE /api/overrides, the only route that lets go of a held write.
ClearOverrides ==
  /\ Route
  /\ overridden' = FALSE
  /\ heldWrites' = [t \in RegisterTypes |-> NoValue]
  /\ calm' = Disturbed(Blocks)
  /\ UNCHANGED <<activeProfile, disabledUnits, answered, indexed, passing, modbusWrite>>

\* POST /api/profile drops the overrides, .../switch/{name} keeps them; held
\* writes stay in both.
SwitchProfile(p, keep) ==
  /\ Route
  /\ activeProfile' = p
  /\ overridden' = (overridden /\ keep)
  /\ calm' = Disturbed(Blocks)
  /\ UNCHANGED <<heldWrites, disabledUnits, answered, indexed, passing, modbusWrite>>

\* POST /api/slaves/{id}/enable, .../disable and /api/slave/{id}/toggle.
SetUnitDisabled(u, off) ==
  /\ Route
  /\ disabledUnits' = IF off THEN disabledUnits \cup {u} ELSE disabledUnits \ {u}
  /\ UNCHANGED <<heldWrites, overridden, activeProfile, answered, indexed, passing, modbusWrite, calm>>

ModbusNext ==
  \/ \E b \in Blocks : BeginPass(b) \/ EndPass(b)
  \/ \E b \in Blocks, v \in ClientValues : WriteBlock(b, v)
  \/ HoldWrite \/ ClearOverrides
  \/ \E on \in BOOLEAN : SetOverride(on)
  \/ \E p \in Profiles, keep \in BOOLEAN : SwitchProfile(p, keep)
  \/ \E u \in Units, off \in BOOLEAN : SetUnitDisabled(u, off)

ModbusSpec == ModbusInit /\ [][ModbusNext]_mbVars

---------------------------------------------------------------------------
\* "re-asserts the written value instead of overwriting it with fresh noise":
\* once a block made a whole pass under unchanged tables, it shows the held
\* write if there is one, whatever override was set before or after it, and
\* nothing that was written or overridden when all that has been cleared.
HeldWritesStay ==
  \A b \in Blocks :
    calm[b] /\ passing[b] = "rest" =>
      answered[b] = IF heldWrites[TypeOf(b)] # NoValue THEN heldWrites[TypeOf(b)]
                 ELSE IF overridden THEN "override" ELSE "profile"
=============================================================================
