--------------------------- MODULE EngineReload ---------------------------
(***************************************************************************)
(* SimEngine's object table while the BACnet stack is rebuilt from the     *)
(* database: bacnet-simulator/src/simulation/engine.py.                    *)
(*                                                                         *)
(* Everything here runs on one asyncio event loop, so a coroutine is only  *)
(* interrupted where it awaits: each action below is the code between two  *)
(* awaits.  Device and object edits start reload() and add_object_hot() as *)
(* tasks nobody waits for; they share the table with the tick loop, with   *)
(* write_object(), which handles BACnet WriteProperty requests, and with   *)
(* the writes of the REST API.                                             *)
(*                                                                         *)
(* A BACnet object is "current" if it is registered in the running         *)
(* application and "stale" if it was made for one that has been closed.    *)
(* Its present value is "seed" (computed from behavior_params when the     *)
(* object is built) or "live" (computed by a tick).                        *)
(***************************************************************************)
EXTENDS Naturals, Sequences, FiniteSets

CONSTANTS
  Devices,       \* simulated devices
  Points,        \* object ids; the database never uses one twice
  InitialRows,   \* the ids that have a row at the start
  DeviceOf,      \* the device of each point
  Owned,         \* points a registered FMU provider owns
  Reloads,       \* reload() tasks that may be alive together
  Writes,        \* writes that await and may be alive together
  MaxEdits       \* bound on the edits that start a reload

ASSUME PointsAssumption ==
  /\ DeviceOf \in [Points -> Devices]
  /\ Owned \subseteq InitialRows /\ InitialRows \subseteq Points
  /\ IsFiniteSet(Points) /\ Points # {}
  /\ Points \cap Reloads = {}
ASSUME EditsAssumption == MaxEdits \in Nat

VARIABLES
  db,          \* the rows of the objects table
  raw,         \* the owned points whose row has behavior raw or constant
  unused,      \* the ids no row has had yet
  enabled,     \* the devices with the enabled flag
  edits,       \* how many such edits were made
  up,          \* self.app is not None
  objects,     \* self._objects: the BACnet object each key maps to
  present,     \* present value in the running application
  prevValues,  \* the owned points in self._prev_values; the value is always live
  preserved,   \* the owned points in self._reload_preserved_values
  lock,        \* self._reload_lock: its holder, then its waiters
  reload,      \* each reload task: program counter and locals
  hot,         \* the add_object_hot task of each point
  write,       \* each call of write_object or write_priority
  tick,        \* the tick: program counter and locals
  contended,   \* history: an edit asked for a reload while one was alive
  straddled    \* history: a teardown happened inside a write_object call

vars == <<db, raw, unused, enabled, edits, up, objects, present, prevValues, preserved,
          lock, reload, hot, write, tick, contended, straddled>>

dbVars == <<db, raw, unused, enabled, edits>>

Keys == {p \in Points : objects[p] # "none"}
RowsOf(d) == {p \in db : DeviceOf[p] = d}

\* owed is history: the live owned points when the reload was started.
IdleReload == [pc |-> "idle", todo |-> {}, rows |-> {}, raw |-> {}, owed |-> {}]
IdleWrite == [pc |-> "idle", point |-> CHOOSE p \in Points : TRUE, object |-> "none"]
IdleTick == [pc |-> "idle", rows |-> {}, size |-> 0, cursor |-> 0, storing |-> {}]

\* The stack is up and serves every row of the enabled devices.
Init ==
  /\ db = InitialRows /\ raw = Owned /\ unused = Points \ InitialRows
  /\ enabled = Devices /\ edits = 0
  /\ up = TRUE
  /\ objects = [p \in Points |-> IF p \in InitialRows THEN "current" ELSE "none"]
  /\ present = [p \in Points |-> IF p \in InitialRows THEN "seed" ELSE "none"]
  /\ prevValues = {} /\ preserved = {}
  /\ lock = <<>>
  /\ reload = [r \in Reloads |-> IdleReload]
  /\ hot = [p \in Points |-> "idle"]
  /\ write = [w \in Writes |-> IdleWrite]
  /\ tick = IdleTick
  /\ contended = FALSE /\ straddled = FALSE

---------------------------------------------------------------------------
(* The clients' edits.  Each one starts a task when the row is committed.  *)

\* POST object: add_object_hot when the device is enabled.
CreateRow(p) ==
  /\ p \in unused
  /\ db' = db \cup {p} /\ unused' = unused \ {p}
  /\ hot' = [hot EXCEPT ![p] = IF DeviceOf[p] \in enabled THEN "started" ELSE "idle"]
  /\ UNCHANGED <<raw, enabled, edits, up, objects, present, prevValues, preserved, lock,
                 reload, write, tick, contended, straddled>>

\* Any other edit ends with create_task(engine.reload()).  The loop starts tasks
\* in the order they were made, so the hot-adds made before have started.
AskReload(r) ==
  /\ edits < MaxEdits
  /\ reload[r].pc = "idle"
  /\ \A p \in Points : hot[p] # "started"
  /\ edits' = edits + 1
  /\ reload' = [reload EXCEPT ![r].pc = "started"]
  /\ contended' = (contended \/ \E o \in Reloads \ {r} : reload[o].pc # "idle")
  /\ UNCHANGED <<unused, up, objects, present, prevValues, preserved, lock,
                 hot, write, tick, straddled>>

DeleteRow(r, p) ==
  /\ p \in db
  /\ db' = db \ {p}
  /\ AskReload(r) /\ UNCHANGED <<raw, enabled>>
ToggleDevice(r, d) ==
  /\ enabled' = IF d \in enabled THEN enabled \ {d} ELSE enabled \cup {d}
  /\ AskReload(r) /\ UNCHANGED <<db, raw>>
\* A point is given another behavior: update_object, restore-behavior.
ChangeBehavior(r, p) ==
  /\ p \in db \cap Owned
  /\ raw' = IF p \in raw THEN raw \ {p} ELSE raw \cup {p}
  /\ AskReload(r) /\ UNCHANGED <<db, enabled>>
\* An edit of a trend log, a schedule or a calendar.
OtherEdit(r) == AskReload(r) /\ UNCHANGED <<db, raw, enabled>>

---------------------------------------------------------------------------
(* reload() and start().                                                   *)

\* Mutant: reload() and add_object_hot() run without the lock.
NoLock == TRUE

\* async with self._reload_lock does not wait.
LockFree == lock = <<>>

\* The task holds the lock: it is granted to the longest waiter.
Holds(task) == lock # <<>> /\ Head(lock) = task

\* Mutant: the table outlives the application it was made for.
KeptTable == [p \in Points |-> IF objects[p] = "none" THEN "none" ELSE "stale"]

\* self._objects.clear()
ClearedTable == [p \in Points |-> "none"]

\* A write_object call that will put the object it took back in the table.
Reinstalls(w) ==
  write[w].pc \in {"storing", "stored"} /\ write[w].object = "current"

\* From the first statement under the lock to the first await: the teardown.
\* With no application there is nothing to tear down, and start() follows.
Teardown(r, owed) ==
  /\ reload' = [reload EXCEPT ![r] =
       [@ EXCEPT !.pc = IF up THEN "closing" ELSE "starting", !.owed = owed]]
  /\ IF up
       THEN /\ objects' = ClearedTable
            /\ present' = [p \in Points |-> "none"]
            /\ prevValues' = {}
            /\ write' = [w \in Writes |->
                 IF write[w].object = "current" THEN [write[w] EXCEPT !.object = "stale"]
                                                ELSE write[w]]
            /\ straddled' = (straddled \/ \E w \in Writes : Reinstalls(w))
       ELSE UNCHANGED <<objects, present, prevValues, write, straddled>>

\* The task starts: it snapshots _prev_values before it asks for the lock, and
\* runs on into the teardown if the lock is free.
StartReload(r) ==
  LET owed == raw \cap prevValues
  IN  /\ reload[r].pc = "started"
      /\ preserved' = prevValues
      /\ lock' = Append(lock, r)
      /\ IF LockFree
           THEN Teardown(r, owed)
           ELSE /\ reload' = [reload EXCEPT ![r] = [@ EXCEPT !.pc = "waiting", !.owed = owed]]
                /\ UNCHANGED <<objects, present, prevValues, write, straddled>>
      /\ UNCHANGED <<dbVars, up, hot, tick, contended>>

\* A waiting task gets the lock, in FIFO order.
AcquireReload(r) ==
  /\ reload[r].pc = "waiting" /\ Holds(r)
  /\ Teardown(r, reload[r].owed)
  /\ UNCHANGED <<dbVars, up, preserved, lock, hot, tick, contended>>

\* await self.app.close() is over: no application until start() makes one.
CloseApp(r) ==
  /\ reload[r].pc = "closing"
  /\ up' = FALSE
  /\ reload' = [reload EXCEPT ![r].pc = "starting"]
  /\ UNCHANGED <<dbVars, objects, present, prevValues, preserved, lock, hot,
                 write, tick, contended, straddled>>

\* start() ends: drop the snapshot, release the lock.
Finish(r) ==
  /\ reload' = [reload EXCEPT ![r] = IdleReload]
  /\ preserved' = {}
  /\ lock' = Tail(lock)

\* start() has read the devices: with none enabled the stack stays idle.
MakeApp(r) ==
  /\ reload[r].pc = "starting"
  /\ IF enabled = {}
       THEN up' = FALSE /\ Finish(r)
       ELSE /\ up' = TRUE
            /\ reload' = [reload EXCEPT ![r] = [@ EXCEPT !.pc = "building", !.todo = enabled]]
            /\ UNCHANGED <<preserved, lock>>
  /\ UNCHANGED <<dbVars, objects, present, prevValues, hot, write, tick,
                 contended, straddled>>

\* The worker thread has read the rows of the next device.
ReadRows(r, d) ==
  /\ reload[r].pc = "building" /\ d \in reload[r].todo
  /\ reload' = [reload EXCEPT ![r] =
       [@ EXCEPT !.pc = "creating", !.todo = reload[r].todo \ {d}, !.rows = RowsOf(d),
                 !.raw = RowsOf(d) \cap raw]]
  /\ UNCHANGED <<dbVars, up, objects, present, prevValues, preserved, lock,
                 hot, write, tick, contended, straddled>>

\* Mutant: every object is re-seeded from its behavior_params.
AlwaysSeed(p, rawRows) == "seed"

\* Mutant: the value is left out when it is not restored.
NoSeed(p, rawRows) == IF p \in preserved \cap rawRows THEN "live" ELSE "unset"

\* The value _create_object gives a new object, when these rows are raw and owned.
SeedValue(p, rawRows) == IF p \in preserved \cap rawRows THEN "live" ELSE "seed"

\* _create_object and add_object for a set of rows.  The application refuses
\* an object whose name it already has, and the table keeps its entry.
Register(rows, rawRows) ==
  LET new == {p \in rows : present[p] = "none"}
  IN  /\ objects' = [p \in Points |-> IF p \in new THEN "current" ELSE objects[p]]
      /\ present' = [p \in Points |->
                       IF p \in new THEN SeedValue(p, rawRows) ELSE present[p]]

CreateObjects(r) ==
  /\ reload[r].pc = "creating"
  /\ Register(reload[r].rows, reload[r].raw)
  /\ reload' = [reload EXCEPT ![r] = [@ EXCEPT !.pc = "building", !.rows = {}, !.raw = {}]]
  /\ UNCHANGED <<dbVars, up, prevValues, preserved, lock, hot, write, tick,
                 contended, straddled>>

\* Every device is built; the providers go on and the devices are announced.
FinishReload(r) ==
  /\ reload[r].pc = "building" /\ reload[r].todo = {}
  /\ Finish(r)
  /\ UNCHANGED <<dbVars, up, objects, present, prevValues, hot, write, tick,
                 contended, straddled>>

---------------------------------------------------------------------------
(* add_object_hot().                                                       *)

\* Under the lock, without an await.  With no application left,
\* self.app._virtual_devices raises.  No model owns a point this new.
AddObject(p) == IF up THEN Register({p}, {}) ELSE UNCHANGED <<objects, present>>

\* Mutant: add_object_hot gives up when a reload is under way.
StartHotAddUnlessBusy(p) ==
  /\ hot[p] = "started"
  /\ hot' = [hot EXCEPT ![p] = "idle"]
  /\ IF LockFree THEN AddObject(p) ELSE UNCHANGED <<objects, present>>
  /\ UNCHANGED <<dbVars, up, prevValues, preserved, lock, reload, write, tick,
                 contended, straddled>>

\* The task starts.  With no application it returns before it asks for the lock.
StartHotAdd(p) ==
  /\ hot[p] = "started"
  /\ IF up /\ ~LockFree
       THEN /\ hot' = [hot EXCEPT ![p] = "waiting"]
            /\ lock' = Append(lock, p)
            /\ UNCHANGED <<objects, present>>
       ELSE /\ hot' = [hot EXCEPT ![p] = "idle"]
            /\ UNCHANGED lock
            /\ AddObject(p)
  /\ UNCHANGED <<dbVars, up, prevValues, preserved, reload, write, tick,
                 contended, straddled>>

AcquireHotAdd(p) ==
  /\ hot[p] = "waiting" /\ Holds(p)
  /\ hot' = [hot EXCEPT ![p] = "idle"]
  /\ lock' = Tail(lock)
  /\ AddObject(p)
  /\ UNCHANGED <<dbVars, up, prevValues, preserved, reload, write, tick,
                 contended, straddled>>

---------------------------------------------------------------------------
(* The writes.                                                             *)

TakeObject(w, p, label) ==
  /\ write[w].pc = "idle"
  /\ p \in Keys
  /\ write' = [write EXCEPT ![w] = [pc |-> label, point |-> p, object |-> objects[p]]]
  /\ UNCHANGED <<dbVars, up, objects, present, prevValues, preserved, lock,
                 reload, hot, tick, contended, straddled>>

\* write_object takes the BACnet object out of the table and awaits the database,
\* which makes the row's behavior manual, if there still is a row.
StartWrite(w, p) == TakeObject(w, p, "storing")

StoreWrite(w) ==
  /\ write[w].pc = "storing"
  /\ IF write[w].point \in db
       THEN /\ raw' = raw \ {write[w].point}
            /\ write' = [write EXCEPT ![w].pc = "stored"]
       ELSE /\ write' = [write EXCEPT ![w] = IdleWrite]
            /\ UNCHANGED raw
  /\ UNCHANGED <<db, unused, enabled, edits, up, objects, present, prevValues,
                 preserved, lock, reload, hot, tick, contended, straddled>>

\* _objects[obj_id] = (bacnet_obj, new_b); then the row is read back.
InstallWrite(w) ==
  /\ write[w].pc = "stored"
  /\ objects' = [objects EXCEPT ![write[w].point] = write[w].object]
  /\ write' = [write EXCEPT ![w].pc = "updating"]
  /\ UNCHANGED <<dbVars, up, present, prevValues, preserved, lock, reload, hot,
                 tick, contended, straddled>>

\* _update_value on the object taken at the start.
UpdateWrite(w) ==
  /\ write[w].pc = "updating"
  /\ present' = [present EXCEPT ![write[w].point] =
                   IF write[w].object = "current" THEN "live" ELSE @]
  /\ write' = [write EXCEPT ![w] = IdleWrite]
  /\ UNCHANGED <<dbVars, up, objects, prevValues, preserved, lock, reload, hot,
                 tick, contended, straddled>>

\* write_priority takes the object and awaits the row; then it writes the slot of
\* the object it took, and _prev_values.
StartPriorityWrite(w, p) == TakeObject(w, p, "resolving")

EndPriorityWrite(w) ==
  LET p == write[w].point
  IN  /\ write[w].pc = "resolving"
      /\ write' = [write EXCEPT ![w] = IdleWrite]
      /\ present' = [present EXCEPT ![p] =
                       IF p \in db /\ write[w].object = "current" THEN "live" ELSE @]
      /\ prevValues' = prevValues \cup ({p} \cap db \cap Owned)
      /\ UNCHANGED <<dbVars, up, objects, preserved, lock, reload, hot, tick,
                     contended, straddled>>

\* set_manual_value, and the injection of a mirrored or replayed value, run
\* without an await.
SetManualValue(p) ==
  /\ p \in Keys
  /\ present' = [present EXCEPT ![p] = IF objects[p] = "current" THEN "live" ELSE @]
  /\ prevValues' = prevValues \cup ({p} \cap Owned)
  /\ UNCHANGED <<dbVars, up, objects, preserved, lock, reload, hot, write, tick,
                 contended, straddled>>

---------------------------------------------------------------------------
(* tick(), while the simulation clock runs.                                *)

\* The rows of list(self._objects) are read one by one.
StartTick ==
  /\ tick.pc = "idle"
  /\ tick' = [IdleTick EXCEPT !.pc = "stepping", !.rows = Keys \cap db]
  /\ UNCHANGED <<dbVars, up, objects, present, prevValues, preserved, lock,
                 reload, hot, write, contended, straddled>>

\* The providers have stepped in their thread: iterate self._objects.items().
BeginLoop ==
  /\ tick.pc = "stepping"
  /\ tick' = [tick EXCEPT !.pc = "looping", !.size = Cardinality(Keys)]
  /\ UNCHANGED <<dbVars, up, objects, present, prevValues, preserved, lock,
                 reload, hot, write, contended, straddled>>

\* One entry: write its value, then await the alarm and trend-log calls.  The
\* iterator is an index into the dict, so a table rebuilt to the same size is
\* iterated on, in its new order.
TickObject(p) ==
  /\ tick.pc = "looping" /\ tick.storing = {}
  /\ tick.cursor < tick.size /\ Cardinality(Keys) = tick.size
  /\ p \in Keys
  /\ present' = [present EXCEPT ![p] =
       IF p \in tick.rows /\ objects[p] = "current" THEN "live" ELSE @]
  /\ tick' = [tick EXCEPT !.cursor = @ + 1, !.storing = {p} \cap tick.rows]
  /\ UNCHANGED <<dbVars, up, objects, prevValues, preserved, lock, reload, hot,
                 write, contended, straddled>>

\* self._prev_values[obj_id] = written_val
TickStore ==
  /\ tick.storing # {}
  /\ prevValues' = prevValues \cup (tick.storing \cap Owned)
  /\ tick' = [tick EXCEPT !.storing = {}]
  /\ UNCHANGED <<dbVars, up, objects, present, preserved, lock, reload, hot,
                 write, contended, straddled>>

\* The loop is over, or "dictionary changed size during iteration" ended it.
EndTick ==
  /\ tick.pc = "looping" /\ tick.storing = {}
  /\ tick.cursor = tick.size \/ Cardinality(Keys) # tick.size
  /\ tick' = IdleTick
  /\ UNCHANGED <<dbVars, up, objects, present, prevValues, preserved, lock,
                 reload, hot, write, contended, straddled>>

---------------------------------------------------------------------------
Edit ==
  \/ \E p \in Points : CreateRow(p)
  \/ \E r \in Reloads :
       \/ \E p \in Points : DeleteRow(r, p)
       \/ \E p \in Points : ChangeBehavior(r, p)
       \/ \E d \in Devices : ToggleDevice(r, d)
       \/ OtherEdit(r)

ReloadStep(r) ==
  \/ StartReload(r) \/ AcquireReload(r) \/ CloseApp(r) \/ MakeApp(r)
  \/ (\E d \in Devices : ReadRows(r, d))
  \/ CreateObjects(r) \/ FinishReload(r)

HotStep(p) == StartHotAdd(p) \/ AcquireHotAdd(p)

WriteStep(w) ==
  \/ \E p \in Points : StartWrite(w, p) \/ StartPriorityWrite(w, p)
  \/ StoreWrite(w) \/ InstallWrite(w) \/ UpdateWrite(w) \/ EndPriorityWrite(w)

TickStep ==
  \/ StartTick \/ BeginLoop \/ TickStore \/ EndTick
  \/ \E p \in Points : TickObject(p)

Next ==
  \/ Edit
  \/ \E r \in Reloads : ReloadStep(r)
  \/ \E p \in Points : HotStep(p) \/ SetManualValue(p)
  \/ \E w \in Writes : WriteStep(w)
  \/ TickStep

Spec == Init /\ [][Next]_vars

---------------------------------------------------------------------------
(* Properties.                                                             *)

ReloadPC == {"idle", "started", "waiting", "closing", "starting", "building", "creating"}
ReloadTask == [pc: ReloadPC, todo: SUBSET Devices, rows: SUBSET Points,
               raw: SUBSET Points, owed: SUBSET Points]
WriteCall == [pc: {"idle", "storing", "stored", "updating", "resolving"}, point: Points,
              object: {"none", "current", "stale"}]
TickRun == [pc: {"idle", "stepping", "looping"}, rows: SUBSET Points, size: Nat,
            cursor: Nat, storing: SUBSET Points]

TypeOK ==
  /\ db \subseteq Points /\ raw \subseteq Owned /\ unused \subseteq Points
  /\ enabled \subseteq Devices /\ edits \in 0..MaxEdits
  /\ up \in BOOLEAN
  /\ objects \in [Points -> {"none", "current", "stale"}]
  /\ present \in [Points -> {"none", "seed", "live"}]
  /\ prevValues \subseteq Owned /\ preserved \subseteq Owned
  /\ lock \in Seq(Reloads \cup Points)
  /\ reload \in [Reloads -> ReloadTask]
  /\ hot \in [Points -> {"idle", "started", "waiting"}]
  /\ write \in [Writes -> WriteCall]
  /\ tick \in TickRun
  /\ contended \in BOOLEAN /\ straddled \in BOOLEAN

Rebuilding(r) == reload[r].pc \in {"closing", "starting", "building", "creating"}

\* The lock does what its comment promises: two reloads never tear down or
\* rebuild the application at once.
OneRebuild == \A r, s \in Reloads : Rebuilding(r) /\ Rebuilding(s) => r = s

\* reload() restores each provider-owned raw/constant point's actual live value
\* instead of re-seeding it: a point that was live when a reload was started and
\* is still such a point never shows a seed value while that reload rebuilds.
RestoresLiveValues ==
  \A r \in Reloads : Rebuilding(r) =>
    \A p \in reload[r].owed \cap raw : present[p] # "seed"

\* The same, as long as no edit asked for a reload while one was alive.
RestoresWhenAlone == contended \/ RestoresLiveValues

NoStaleObject == \A p \in Points : objects[p] # "stale"

\* The table holds only objects of the running application, so what a tick or a
\* write changes is what a BACnet client reads, as long as no teardown happened
\* inside a write_object call.
NoStaleUnlessStraddled == straddled \/ NoStaleObject

\* The objects the database says the simulator serves.
Served == {p \in db : DeviceOf[p] \in enabled}

Quiet ==
  /\ \A r \in Reloads : reload[r].pc = "idle"
  /\ \A p \in Points : hot[p] = "idle"
  /\ \A w \in Writes : write[w].pc = "idle"

\* Hot-adds and reloads never lose or resurrect an object: when no task is left,
\* the table and the application hold exactly the enabled rows.
ServesDatabase ==
  Quiet => /\ {p \in Points : present[p] # "none"} = Served
           /\ straddled \/ Keys = Served

\* write_object "persists, updates live": when every task is done, what the
\* table maps a served point to is the object a BACnet client reads.
WritesUpdateLive == Quiet => \A p \in Served : objects[p] # "stale"
===========================================================================
