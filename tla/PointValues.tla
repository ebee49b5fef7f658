----------------------------- MODULE PointValues -----------------------------
(***************************************************************************)
(* The value of one object: its row, the behaviours built from it, its     *)
(* priority array, and the value the engine answers with.  BACnet          *)
(* WriteProperty (bacnet/app.py, SimEngine.write_object), the Set and the  *)
(* priority array routes (api/routers/objects.py) and the tick             *)
(* (simulation/engine.py, simulation/providers/builtin.py) all change it,  *)
(* each with awaits in between.                                            *)
(*                                                                         *)
(* A reload is one step, without a write or a tick under way: its own      *)
(* steps, and a write that straddles it, are in EngineReload.              *)
(***************************************************************************)
EXTENDS Naturals

CONSTANTS
  Numbers,          \* values a client may ask for
  States,           \* numberOfStates: a value is brought into 1..States
  PointWriters,     \* WriteProperty, Set and priority writes in flight
  Commanded, Least, \* slots of the priority array: an operator's, the last one
  Unset,
  MaxPointEdits, MaxPointTicks \* bounds

ASSUME PointValuesAssumption ==
  /\ Numbers \subseteq Nat /\ States \in Nat \ {0} /\ Unset \notin Numbers
  /\ {Commanded, Least} \subseteq Nat /\ Commanded < Least
  /\ {MaxPointEdits, MaxPointTicks} \subseteq Nat

VARIABLES
  output,     \* an output has a priority array; a value has only its last slot
  stored,     \* the row: behavior, behavior_params, manual_value
  claimed,    \* a model is registered for the point
  source,     \* the provider's PointConfig and behaviour; the engine's two
  liveObject, \* the live object
  answer,     \* _prev_values
  beat,       \* the tick
  pointCalls, \* by writer
  claim,      \* ghost: the value the last write left, and whether a tick has begun since
  pointEdits, pointTicks

pointVars == <<output, stored, claimed, source, liveObject, answer, beat, pointCalls, claim, pointEdits, pointTicks>>

Value == Numbers \cup 1..States
Row == [behavior: {"constant", "raw", "manual"}, params: Numbers, manual: Numbers \cup {Unset}]

\* make_behavior: behavior_params say it, manual_value only where they do not.
Make(row) == [manual |-> row.behavior = "manual", value |-> row.params]
NoBehavior == [manual |-> FALSE, value |-> Unset]

\* _update_value
InStates(v) == IF v < 1 THEN 1 ELSE IF v > States THEN States ELSE v

\* What a client reads.
PresentValue(w) == IF w.slots[Commanded] # Unset THEN w.slots[Commanded]
              ELSE IF w.slots[Least] # Unset THEN w.slots[Least] ELSE w.default
Serve(v) == liveObject' = [liveObject EXCEPT !.slots[Least] = InStates(v)]

NoCall == [pc |-> "idle", value |-> Unset, row |-> Unset, alone |-> FALSE]
NoBeat == [pc |-> "idle", row |-> Unset, value |-> Unset]
NoClaim == [value |-> Unset, settled |-> FALSE]

\* _create_object, and initialize of a new BuiltInSimulationProvider.
BuiltPoint(row, v) ==
  /\ source' = [config |-> row, inner |-> Make(row), kept |-> Make(row), shared |-> TRUE]
  /\ liveObject' = [slots |-> [s \in {Commanded, Least} |-> Unset], default |-> InStates(v)]
  /\ answer' = Unset

PointValuesInit ==
  /\ output \in BOOLEAN
  /\ \E n \in Numbers : stored = [behavior |-> "constant", params |-> n, manual |-> Unset]
  /\ claimed = FALSE
  /\ source = [config |-> stored, inner |-> Make(stored), kept |-> Make(stored), shared |-> TRUE]
  /\ liveObject = [slots |-> [s \in {Commanded, Least} |-> Unset], default |-> InStates(stored.params)]
  /\ answer = Unset
  /\ beat = NoBeat
  /\ pointCalls = [w \in PointWriters |-> NoCall]
  /\ claim = NoClaim
  /\ pointEdits = 0 /\ pointTicks = 0

PointEdit == pointEdits < MaxPointEdits /\ pointEdits' = pointEdits + 1
NoWrite == \A w \in PointWriters : pointCalls[w].pc = "idle"
PointAtRest == NoWrite /\ beat.pc = "idle"

---------------------------------------------------------------------------
(* The built-in provider *)

\* Mutant: a manual value never outlives its configuration.
SyncedAfresh(src, row) ==
  IF src.config = row /\ src.inner # NoBehavior THEN src ELSE [src EXCEPT !.config = row, !.inner = Make(row)]

\* sync_point_configs: with the same configuration the behaviour stays, and a
\* manual one keeps its value when another manual one takes its place.
Synced(src, row) ==
  LET made == Make(row)
      kept == IF made.manual /\ src.inner.manual THEN src.inner ELSE made
  IN IF src.config = row /\ src.inner # NoBehavior THEN src ELSE [src EXCEPT !.config = row, !.inner = kept]

\* set_inputs: only a manual behaviour takes it.
Given(src, v) == IF src.inner.manual THEN [src EXCEPT !.inner.value = v] ELSE src

---------------------------------------------------------------------------
(* WriteProperty: a value of the written type for presentValue *)

Enter(w, call) ==
  /\ pointCalls[w].pc = "idle" /\ PointEdit
  /\ pointCalls' = [x \in PointWriters |-> IF x = w THEN [call EXCEPT !.alone = NoWrite]
                                 ELSE [pointCalls[x] EXCEPT !.alone = FALSE]]
  /\ claim' = NoClaim
  /\ UNCHANGED <<output, stored, claimed, source, liveObject, answer, beat, pointTicks>>

StartWriteProperty(w, v) == Enter(w, [NoCall EXCEPT !.pc = "store", !.value = v])

\* Database.write_object.  Whatever priority the client gave is left out.
StoreWritten(w) ==
  /\ pointCalls[w].pc = "store"
  /\ stored' = [behavior |-> "manual", params |-> pointCalls[w].value, manual |-> pointCalls[w].value]
  /\ pointCalls' = [pointCalls EXCEPT ![w].pc = "install"]
  /\ UNCHANGED <<output, claimed, source, liveObject, answer, beat, claim, pointEdits, pointTicks>>

\* The tuple in _objects gets a new behaviour, _point_behaviors keeps the old
\* one; then the row is read again.
InstallWritten(w) ==
  /\ pointCalls[w].pc = "install"
  /\ source' = [source EXCEPT !.shared = FALSE]
  /\ pointCalls' = [pointCalls EXCEPT ![w].pc = "read"]
  /\ UNCHANGED <<output, stored, claimed, liveObject, answer, beat, claim, pointEdits, pointTicks>>

ReadAgain(w) ==
  /\ pointCalls[w].pc = "read"
  /\ pointCalls' = [pointCalls EXCEPT ![w] = [@ EXCEPT !.pc = "finish", !.row = stored]]
  /\ UNCHANGED <<output, stored, claimed, source, liveObject, answer, beat, claim, pointEdits, pointTicks>>

\* Writers that were in flight together leave no claim.
Done(w, v, counts) ==
  /\ pointCalls' = [pointCalls EXCEPT ![w] = NoCall]
  /\ claim' = IF counts /\ pointCalls[w].alone THEN [NoClaim EXCEPT !.value = v] ELSE NoClaim

\* _prev_values waits for the next tick.
FinishWriteProperty(w) ==
  /\ pointCalls[w].pc = "finish"
  /\ source' = IF claimed THEN source ELSE Given(Synced(source, pointCalls[w].row), pointCalls[w].value)
  /\ Serve(pointCalls[w].value)
  /\ Done(w, pointCalls[w].value, stored.behavior = "manual")
  /\ UNCHANGED <<output, stored, claimed, answer, beat, pointEdits, pointTicks>>

\* A null, which bacpypes3 gives up the slot for.
Relinquish(s) ==
  /\ output /\ liveObject.slots[s] # Unset
  /\ liveObject' = [liveObject EXCEPT !.slots[s] = Unset]
  /\ claim' = NoClaim
  /\ UNCHANGED <<output, stored, claimed, source, answer, beat, pointCalls, pointEdits, pointTicks>>

---------------------------------------------------------------------------
(* Routes *)

StartSetValue(w, v) == Enter(w, [NoCall EXCEPT !.pc = "set", !.value = v])

\* Database.set_manual_value: neither behavior nor behavior_params.
StoreSet(w) ==
  /\ pointCalls[w].pc = "set"
  /\ stored' = [stored EXCEPT !.manual = pointCalls[w].value]
  /\ pointCalls' = [pointCalls EXCEPT ![w].pc = "apply"]
  /\ UNCHANGED <<output, claimed, source, liveObject, answer, beat, claim, pointEdits, pointTicks>>

\* SimEngine.set_manual_value.  A tick that has read its rows may bring the
\* provider back to the row without the value, which then has nothing to take it
\* from: such a Set leaves no claim.
ApplySet(w) ==
  LET v == pointCalls[w].value
      config == [behavior |-> "manual", params |-> v, manual |-> v]
      told == IF source.shared /\ source.kept.manual THEN [source EXCEPT !.kept.value = v]
              ELSE IF source.shared THEN [source EXCEPT !.shared = FALSE] ELSE source
  IN /\ pointCalls[w].pc = "apply"
     /\ source' = IF claimed THEN told ELSE Given(Synced(told, config), v)
     /\ Serve(v)
     /\ answer' = InStates(v)
     /\ Done(w, v, beat.pc # "step" /\ stored.behavior = "manual")
     /\ UNCHANGED <<output, stored, claimed, beat, pointEdits, pointTicks>>

StartWritePriority(w, v) == output /\ Enter(w, [NoCall EXCEPT !.pc = "command", !.value = v])

\* SimEngine.write_priority: a state is not brought into its range.
FinishWritePriority(w, s) ==
  LET next == [liveObject EXCEPT !.slots[s] = pointCalls[w].value]
  IN /\ pointCalls[w].pc = "command"
     /\ liveObject' = next
     /\ answer' = PresentValue(next)
     /\ pointCalls' = [pointCalls EXCEPT ![w] = NoCall]
     /\ claim' = NoClaim
     /\ UNCHANGED <<output, stored, claimed, source, beat, pointEdits, pointTicks>>

\* update_object, with the reload that follows: a claimed point keeps its last
\* value where the behaviour has none of its own.
EditPoint(row) ==
  /\ PointEdit /\ PointAtRest
  /\ row.manual = stored.manual
  /\ stored' = row
  /\ BuiltPoint(row, IF claimed /\ row.behavior \in {"raw", "constant"} /\ answer # Unset THEN answer ELSE row.params)
  /\ claim' = NoClaim
  /\ UNCHANGED <<output, claimed, beat, pointCalls, pointTicks>>

\* A model is registered for the point, or unregistered.
Claim ==
  /\ PointEdit /\ claimed' = ~claimed
  /\ claim' = NoClaim
  /\ UNCHANGED <<output, stored, source, liveObject, answer, beat, pointCalls, pointTicks>>

\* BuiltInSimulationProvider.reset: behaviours anew, from the configurations.
ResetPoint ==
  /\ PointEdit
  /\ source' = IF source.inner = NoBehavior THEN source ELSE [source EXCEPT !.inner = Make(source.config)]
  /\ claim' = NoClaim
  /\ UNCHANGED <<output, stored, claimed, liveObject, answer, beat, pointCalls, pointTicks>>

---------------------------------------------------------------------------
(* The tick *)

TickReads ==
  /\ beat.pc = "idle" /\ pointTicks < MaxPointTicks
  /\ pointTicks' = pointTicks + 1
  /\ beat' = [NoBeat EXCEPT !.pc = "step", !.row = stored]
  /\ claim' = [claim EXCEPT !.settled = claim.value # Unset]
  /\ UNCHANGED <<output, stored, claimed, source, liveObject, answer, pointCalls, pointEdits>>

\* The provider is brought up to the rows that were read and steps; the other
\* providers step in a thread.
TickSteps(v) ==
  LET src == IF claimed THEN [source EXCEPT !.inner = NoBehavior, !.config = Unset] ELSE Synced(source, beat.row)
  IN /\ beat.pc = "step"
     /\ source' = src
     /\ beat' = [beat EXCEPT !.pc = "serve", !.value = IF claimed THEN v ELSE src.inner.value]
     /\ UNCHANGED <<output, stored, claimed, liveObject, answer, pointCalls, claim, pointEdits, pointTicks>>

\* _apply_fmu_behavior: on a claimed point only a manual behaviour overrides
\* the model, and it is the one of _point_behaviors.
TickServes ==
  LET v == IF claimed /\ beat.row.behavior = "manual" THEN source.kept.value ELSE beat.value
  IN /\ beat.pc = "serve"
     /\ Serve(v)
     /\ beat' = [beat EXCEPT !.pc = "remember", !.value = InStates(v)]
     /\ UNCHANGED <<output, stored, claimed, source, answer, pointCalls, claim, pointEdits, pointTicks>>

\* After the awaits of alarms and trend logs.
TickRemembers ==
  /\ beat.pc = "remember"
  /\ answer' = beat.value
  /\ beat' = NoBeat
  /\ UNCHANGED <<output, stored, claimed, source, liveObject, pointCalls, claim, pointEdits, pointTicks>>

PointValuesNext ==
  \/ \E w \in PointWriters :
       \/ \E v \in Numbers : StartWriteProperty(w, v) \/ StartSetValue(w, v) \/ StartWritePriority(w, v)
       \/ StoreWritten(w) \/ InstallWritten(w) \/ ReadAgain(w) \/ FinishWriteProperty(w)
       \/ StoreSet(w) \/ ApplySet(w)
       \/ \E s \in {Commanded, Least} : FinishWritePriority(w, s)
  \/ \E s \in {Commanded, Least} : Relinquish(s)
  \/ \E row \in Row : EditPoint(row)
  \/ Claim \/ ResetPoint
  \/ TickReads \/ (\E v \in Numbers : TickSteps(v)) \/ TickServes \/ TickRemembers

PointValuesSpec == PointValuesInit /\ [][PointValuesNext]_pointVars

---------------------------------------------------------------------------
\* "switches the object to manual, persists, updates live" (write_object): once
\* a tick has begun after a write that no other one overlapped, a manual point
\* of the built-in provider is served with the value written, whatever rows
\* that tick and the ones before it had read; and what the engine answers
\* with is what is served to it.
WrittenIsServed ==
  PointAtRest /\ ~claimed /\ claim.settled =>
    /\ liveObject.slots[Least] = InStates(claim.value)
    /\ answer = InStates(claim.value)

\* The same of a point a model writes: "Already an absolute override --
\* identical to the non-FMU case" (_apply_fmu_behavior).
OverrideIsServed ==
  PointAtRest /\ claimed /\ claim.settled => liveObject.slots[Least] = InStates(claim.value)
=============================================================================
