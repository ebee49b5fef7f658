# A TLA+ model of the BACnet simulator

The repository holds four protocol simulators. The BACnet one is by far the
largest, and the only one in which long-lived coroutines, worker threads,
requests and a database share state that matters; this project models its core.
Paths below are relative to the repository; `B/` stands for
`bacnet-simulator/src/`.

| module | what it is |
|---|---|
| `FaultDetection` | the life of one (device, rule) pair of the fault detection engine |
| `EngineReload` | the object table of `SimEngine` while the BACnet stack is rebuilt |
| `FunctionalTests` | runs of saved functional tests and what their Set nodes leave behind |
| `Providers` | the registry of simulation providers, model configurations, the recovery sweep |
| `Waves` | one tick of the registered providers, staged in waves of threads |
| `MappingContract` | what the model routes accept as mappings, exposures and aggregates |
| `PointValues` | the row, the behavior, the priority array and the answer of one object |
| `AlarmReporting`, `AlarmLog` | delayed confirmation of alarms; the log it keeps, as an abstract specification |
| `RtuRules`, `FaultRules` | the threshold rules of rooftop units and air handlers |
| `TrendLog`, `Replay` | trend log ring buffers; replay recordings and their playback |
| `Energy` | accumulators of the energy engine and the boiler model |
| `Schedules` | calendars, schedules, their reload and their writes |
| `Site` | locations, devices, equipment and the Brick graph beside them |
| `Projects` | saving and loading a project with its translation of ids |
| `ExternalDevices` | discovery of a real network and the twins that mirror it |
| `PacketCapture` | the packet list, its decoders, filters and pairing of answers |
| `Modbus` | one address of the Modbus simulator, a separate process |
| `*Proofs` | theorems, checked by TLAPS: `FaultDetection` (and the rules), `EngineReload`, `FunctionalTests`, `Providers`, `Services` (`AlarmReporting`, `MappingContract`, `Modbus`, `TrendLog`, `PacketCapture`, `Projects`), `Device` (`ExternalDevices`, `Schedules`, `PointValues`, `Site`), `Tick` (`Replay`, `Waves`, `Energy`); `FiniteInduction` has what the last three use of induction |
| `MC*` | small instances for TLC; one `.cfg` per question |

## 1. The system

### Components

**SimEngine** (`B/simulation/engine.py`). State: `_objects` (row id to BACnet
object and behavior), `_prev_values`, the snapshot `_reload_preserved_values`, the
running application `app`, `clock_state`, `elapsed_seconds`, the alarm and trend
caches, the provider registry. Operations: `start`, `reload`, `stop`,
`add_object_hot`, `tick`, `write_object` (BACnet WriteProperty),
`write_priority`, `set_manual_value`, value injection, `pause`, `resume`, `reset`.
Hard: every edit of the configuration starts a `reload()` nobody waits for; a
reload awaits hundreds of times while the tick loop and the writes use the same
table. Correct when the table holds the objects of the running application, one
per enabled row, and a rebuild does not lose the values a provider computed.

**Tick loop and the other loops** (`B/simulation/runtime.py`). One sequential loop
calls `tick`, then fault detection, energy and recordings; other tasks poll
mirrored devices, sample external devices, play recordings and heal models.

**Providers** (`B/simulation/providers/`, the registry in `engine.py`). A provider
owns output points and steps once per tick, in waves of worker threads. Hard: the
registry is changed by requests and by the recovery thread during a step. Correct
when each point has at most one owner and a removed provider leaves nothing.

**Model configurations and self-healing** (`B/simulation/models/`). A periodic
sweep in a thread reloads models whose session is lost, with a circuit breaker.
Hard: it works from a picture of the registry that is seconds old. Correct when a
healthy model is never restarted and a failing one is not retried for ever.

**Fault detection** (`B/fault_detection/`). Per (device, rule) a runtime state
with two timers, kept in memory; transitions go to `fault_events` and to the
alarm log. Hard: coroutines evaluating one device overlap; reports can fail after
the state has advanced; a restart forgets. Correct when a fault is activated and
cleared only on uninterrupted evidence of the configured length and the two
tables tell the same story.

**Functional tests** (`B/functional_tests/`). A run walks a saved graph, may
overwrite points, waits in simulated time, can be cancelled, and puts points back.
Hard: preparation in a thread, execution in a task, restores that rebuild the
stack, other runs and people writing the same points, crashes. Correct when a run
leaves nothing behind, every run ends, and a test is not run twice at once.

**Alarms** (`B/bacnet/alarms.py`, `notifications.py`). Intrinsic and algorithmic
reporting with delayed confirmation in simulated time. Hard: rewound clocks,
reloads that clear the runtime state, masked transitions. Correct when the log
chains and no alarm is reported twice.

**Trend logs and recordings** (`B/bacnet/trend_logs.py`, `B/db/database.py`). Ring
buffers with sequence numbers, sampled by loops and cleared by requests. Correct
when numbers never repeat, counts agree with the rows, and a recording can be
stepped through.

**Point values** (`B/simulation/behaviors.py`, `builtin.py`, `B/bacnet/app.py`). A value
is stored in a row, computed by a behavior or a model, commanded through a
priority array, and answered from the object. Hard: three writers and the tick
await between their steps. Correct when what was written last is what is served.

**Mappings** (`B/simulation/models/store.py`). Which points a model reads, writes and
exposes. Hard: judged before an await, stored after it. Correct when a point has
one writer.

**Energy** (`B/energy/`). Accumulators per equipment, filled by the tick and by POST
requests. Correct when no interval is charged twice.

**Rules** (`B/fault_detection/rules/`). Threshold formulas over readings that may be
missing. Correct when two rules do not contradict one another and a missing
reading makes no fault.

**Schedules and calendars** (`B/bacnet/schedule.py`, `calendar.py`). Rows edited by
requests, live objects built by reloads. Correct when the live ones follow the
rows once the reloads are done.

**Site and semantics** (`B/semantics/`, `B/db/database.py`). Flat fields of rows and
a Brick graph about the same rows, each edited by its own panel. Correct when the
two agree.

**Projects** (`B/db/database.py`). Snapshot of the tables; loading inserts the rows
under new ids. Correct when references still meet their rows.

**External devices** (`B/bacnet/client/`, `B/simulation/runtime.py`). Discovery, reads
and twins. Correct when a twin shows what its device last answered.

**Packet capture** (`B/bacnet/packet_capture.py`). A bounded list with counters,
decoders that meet cut packets, pairing of answers. Correct when counters add up
and no answer is shown for another client's request.

**Modbus simulator** (`src/modbus-simulator/`). A thread per block, a server thread,
Flask routes, no lock. Correct when a client's write stays.

**Functional test definitions, REST plumbing, settings, migrations, MQTT and OPC UA
simulators, admin interfaces**: see *Not modelled*.

### How they interact

Almost everything runs on one asyncio event loop, so a coroutine is interrupted
only where it awaits. Blocking calls (SQLite, provider steps, preparing a run) go
to worker threads, and the coroutine is suspended meanwhile. Shared state: the
tables of the database, `SimEngine`'s dictionaries, and the registry of runs.
`reload()` and `add_object_hot()` are serialized by `_reload_lock`; the tick loop
and the writes take no lock.

## 2. What is modelled

An action is the code between two awaits, worker-thread calls included, so
the interleavings of the model are those of the event loop. Each database call is
one step. History variables (named so in the modules) never feed back into a guard.

### FaultDetection

`runtime` is the pair's `RuleRuntimeState`. Each evaluator goes through
`Sample` (`_build_context`: observation and timestamp are taken together) →
`Advance` (`_advance_state`, atomic) → `Record` (the event row) → `PublishAlert`
(the alarm), and is suspended between them. `Fail` is a database call that
raises; the tick loop logs and goes on. `Restart` loses `_runtime` and keeps the
tables. What a rule says is `present`, `absent` or `unevaluable`, chosen freely.
Pairs share no state, so one pair stands for all. The clock is any
non-decreasing integer. `_publish_alert` without a database and the texts are
left out. `disturbed` remembers that evaluators overlapped, a write failed or the
process restarted.

### EngineReload

Modelled: `db` rows, enabled devices, `_objects`, present values in the running
application, `_prev_values` and the reload snapshot (the points a registered
provider owns), the FIFO of `asyncio.Lock`, each reload, hot-add, write and the
tick with its locals. An object is `current` or `stale`, a present value `seed`
or `live`. `contended` remembers that an edit asked for a reload while another was
alive; `straddled` that a teardown happened inside a `write_object` call between
taking and putting back the object.

Choices a reader should know: ids are AUTOINCREMENT, so a point is created once;
the `enabled` flag of a single object is left out; the order in which a tick
visits the table is free; a dictionary that changed size ends the tick's loop as
`EndTick`; the check of the device and the insert of a row are one step;
`start()` raising half way, `stop()`, schedules, calendars and alarm calls inside
`tick` are left out; which points have a provider does not change during a run.

### FunctionalTests

A run: `CheckActive`, `BuildCache`, `CreateRow` (three calls of `prepare_run`),
`MarkRunning`, the walk (`Observe`, `Wait`, `SetPriority`, `SetStored` then
`SetLive`, ...), one of `Finish`, `TimeOut`, `SeeCancel`, `Abort`, `Raise`, and the
restores (`Relinquish`, `RestoreManual`, `RestoreBehavior` with its rebuild, each
followed by `Report`). A value is `base`, `operator` or the run that wrote it.
`finished` stands for passed, failed and inconclusive. `stored` is the
`manual_value` column of a non-commandable point and the priority slot of a
commandable one. `Faults` names what can go wrong around a run: the process dies,
a database call raises, somebody edits the configuration, the clock is paused. A
restore whose database call raises leaves the point as it is and goes on to the next.

Choices: what a node observes only decides the next node, so the walk is free; the
cancel flag is kept only while the walk reads it; the present value of a
non-commandable point follows its row at the next tick and is not kept; the await
inside `write_priority` is folded into its step, because a slot written on an
object that has been torn down is as empty as one wiped afterwards; `write_object`
(which makes a point manual) belongs to EngineReload.

### Providers

`db` is the table of model configurations, `reg` and `owner` are `_providers` and
`_point_output_owner`, keyed by (type, model) as in `provider_runtime_id`. Three
actors: one request at a time (`req`: create, save, apply, toggle, reload, delete,
reconcile, pause, resume, reset, cut where the registry lock is released), the
recovery sweep (`sweep`: begin, one look, then release and register per model), and
the steps of a tick (`Step`), whose answers are good, an HTTP error, a lost session
or silence. One `register` or `unregister` call is atomic, as under the lock.
`stale` are objects a reset still works on after they left the registry. `drift`
(history) collects models whose engine side may differ from their row: saved
without apply, or touched by a request that overlapped a sweep.

### The services around the core

Each of these is a specification of its own with its own variables; actions are
cut at the awaits as above.

*Waves.* `BeginRound` to `EndRound` is one tick: providers are staged by who reads whose
output, a wave steps in threads, its outputs are merged before the next wave
reads. A value is the number of the tick that computed it. Registrations and removals
come in between, each one step; a registration brings the points configured by
then (`Wirings`), also for an id the pass has staged already (`stepping.staged`). The
staging was made of the points of before; what a wave reads and which outputs are kept
go by the points of now, while the pass still asks the object it began with, which is
stopped (`Leave`). Not modelled is a staging in the middle of a registration, between
the lines that enter the provider (336) and its points (338-339): the code would stage
it as one without points, in the first wave, and then read with the points just set.
`EarlierIsSeen` says nothing of a provider caught in those lines.

*MappingContract.* A request is judged against the rows of then (`Accepted`) and
stored after an await, where only the unique indexes still look at it.

*PointValues.* `WriteProperty`, the Set route, the priority array routes and the tick,
each with its locals; behaviors are constant, raw, manual or owned by a model;
multi-state numbers are clamped where the code clamps them. A reload is one step
and does not meet a write or a tick: that is EngineReload's subject.

*AlarmReporting.* `Evaluated` is one evaluation with the value of the tick, `LogAlarm`
and `LogFails` the write it awaits. Edits, acknowledgements, a reset clock, reloads
and restarts come in between. Limits, deadband and both delays are constants.

*FaultRules.* The state is a reading and the verdicts on it: the rules are operators
over whole numbers (tenths of degrees and percents), `Missing` for a point that is not there.

*TrendLog.* The tick and the trigger route each read the row, insert, read back and
show the counts; requests clear, shrink and rebuild. *Replay.* A sampler with cap
and mode, and a playback whose look-up, injection and commit are separate steps.

*Energy.* An evaluation finds the accumulator, awaits the database and adds. The
arithmetic of the boiler is over whole numbers.

*Schedules.* Rows, the reload's own reads of them (each a step), the live objects,
and the tasks a schedule starts to write its targets.

*Site.* Rows with flat classes, entities and relationships; every drawer and panel
operation with its mirror in the other representation, cascades included.
*Projects.* A row is a table, a name and references by foreign keys of the schema;
save, the three commits of a load with the id maps, a crash or a clear between them,
and the connection route that rewrites the payload. *ExternalDevices.* The session lock, Who-Is, reads per point,
the inventory, and the sweep that injects answers into twins. A sweep whose
session fails leaves that device out (`SweepMisses`). *PacketCapture.* A packet
is what each decoding layer makes of it. *Modbus.* Blocks by type and unit, their
threads, held writes and overrides.

### How the modules relate

`FunctionalTests` sees `reload()` as `TearDown` ... `Rebuild`, which is what
`EngineReload` shows of it from outside: at most one task rebuilds (`OneRebuild`),
and after a teardown no object keeps its priority array (`NoStaleUnlessStraddled`).
`Up` of FunctionalTests stands for "the point is in the table". `MappingContract` is what
`Providers` takes for granted of a submitted configuration, in the shape of
`MayClaim`; `Waves` is the inside of `Step`.

`AlarmReporting` implements `AlarmLog`: `Log` maps `confirmed`, `alarmLog` and
`writing` to its state, log and owed entry, and the property `KeepsAlarmLog` is the
abstract specification. A confirmed transition is a `Move`, the write of its entry a
`Deliver`; a reload, a restart or a failed write is a `Forget`.

`MCServices` puts the fourteen smaller specifications side by side. They share no
variable, so a behavior picks one of them (`part`) and only that one moves: the run
explores the sum of their states, and every invariant is checked of all of them.

## 3. What TLC checks

| run | instance | distinct states | question |
|---|---|---|---|
| `fdd` | 2 evaluators, delays 2 and 1, clock to 4 | 219,617 | are the timers right, are activation and clearing earned, do events chain |
| `fdd_silent` | 1 evaluator, delays 2 and 0 | violation | is an active fault never silently cleared |
| `reload` | 1 device, 2 points, 2 reloads, 1 write, 2 edits | 3,791,717 | is the table right whatever interleaves |
| `reload_queued` | the same without writes | violation | does every reload restore live values |
| `reload_write` | the same | violation | does a BACnet write update the live object |
| `tests` | 2 runs, 2 tests, 2 points, 2 steps, every fault but a pause | 2,995,382 | is what is borrowed given back |
| `tests_live` | 1 run, 2 points, 3 steps, every fault | 26,028 | does every run end, and every cancelled one |
| `providers` | 2 models, 2 types, 1 point, breaker after 1 failure | 722,235 | is ownership exact, is nothing old registered, does the sweep heal |
| `services` | fourteen parts, bounds below | 763,310 | do the services keep their promises |
| `override` | one point, two writers, 2 ticks | violation | is a BACnet write to a model's point served |
| `tests_rerun` | 2 runs of one test, no fault | violation | is nothing left when a test is run again at once |
| `tests_behavior` | 1 run on a point with a behavior, no fault | violation | is nothing left in a computed point |

### Properties that hold

*Fault detection.* `TimersMeasureStreak`: each timer is set exactly while the
evaluations applied form a series of its kind, and holds the start of that
series; this survives overlap, failure and restart. `ActivationEarned` and
`ClearEarned` (action properties): ACTIVE needs an unbroken series of `present`
at least `persistence_seconds` long, CLEARED one of `absent` at least
`clear_seconds` long. `EventsChain`, `AlarmOpenIffActivated`: without disturbance
each recorded transition starts where the last one ended, and an alarm is open
exactly while the rule has an activation time.

*Reload.* `OneRebuild`: the lock does what its comment says. `NoStaleUnlessStraddled`:
no object of a closed application is in the table unless a write straddled a
teardown. `RestoresWhenAlone`: a reload no other overlaps shows no seed value of
a point that was live. `ServesDatabase`: when all tasks are done, exactly the
enabled rows are served, however hot-adds, deletes and reloads interleaved.

*Functional tests.* `MarksAreOwed`: a value a Set node wrote is always one that a
living task will take out. `GivesBack`: when no run is left, points hold what
people had put there. `RowsTrackTasks`: the row is active exactly as long as the
task. `OneActiveUnlessRaced`. `CancelEnds`, `RunsEnd`: liveness, below. The
provisos are explicit: `poisoned` (a fault or a stale snapshot got at the point),
`contested` (a person and a run both meant to change it), `stranded`, `raced`.

*Providers.* `OwnershipAgrees`: the owner table and the providers' own output sets say
the same after every register and unregister, the failed ones included.
`RegisteredIsConfigured`: between requests whatever is registered is an enabled row
under its key, but for the models in `drift`. `ConflictMeansDrift`: a configuration
the API accepted finds its points free. `Heals`: liveness, below.

*Services.* `EarlierIsSeen`: a provider that reads an earlier one's point reads what this
tick has of it, whatever is registered meanwhile. Of one that was replaced before it
read, this is so for the points it was staged with: its id may have got a point since
that a wave still to come writes, and the run reaches that state; the value is read
for an object that is stopped and computes nothing with it. `OneWriterPerPoint`, with the one asymmetry the code has.
`WrittenIsServed`: what a write that was not overlapped left is served once a tick
has begun after it. `LogTellsState`, `TransitionEarned`, `KeepsAlarmLog`: the newest entry
names the state, delays hold through resets of the clock, the log refines its
abstract specification. `NoContradiction`, `LosingAPointAddsNoFault`: of the rules.
`SequenceNeverReused`, `PlaysInOrder`: of the buffers. `NeverOvercharged`: a total never
exceeds what the simulated time could cost. `SchedulesAreCurrent`: live schedules
follow the rows when no reload is owed. `ClassesAgree`: flat fields and graph agree
and parents have no cycle. `RestoredAsSaved`: a load gives back what was saved, after
cut loads too, unless a clear came between its last two commits. `TwinsFollow`: twins show the last answers. `CaptureAddsUp`,
`AnswersKeepTheirRequest`: of the packet list. `HeldWritesStay`: a Modbus client's write is
shown again and again until cleared. Their provisos (`gap`, `overlapped`, `raced`,
`mappingRaced`, `relinked`, `claim.settled`) name the exact interleaving that breaks
the promise; for each of them the run reaches states in which the proviso is needed.

### Where code and words disagree

Six runs expect a violation; `PROJECT.json` quotes the sentences. (1) An ACTIVE
fault that loses its sensor for one evaluation becomes PENDING when the sensor is
back and can then become NORMAL without a CLEARED event. (2) A second reload
overwrites the snapshot the first is about to use. (3) A BACnet write that a
reload overtakes puts a dead object into the table. (4) A functional test started
between the final state of the previous run and its restores snapshots that run's
value. (5) The restore of a point with a behavior leaves the run's
`manual_value` in the row. (6) A BACnet write to a point a model owns is undone by
the next tick.

Others were met while modelling and are findings without a run, because the
specification states what the code does: a seek during an injection is recorded as
applied; two moves can close a cycle of locations; outputs are not checked against
exposures; chiller, AHU and lighting energy models raise on every evaluation; a
later-registered provider can be seen in the same tick; overlapping triggers reuse a
sequence number; `save_project` leaves out tables that a load wipes; held Modbus
writes are shared by all units; five rules count a missing point as zero; the
frozen-sensor rule needs a sample exactly as old as its window; a device that
answered nothing is touched as seen.

### Bounds

Two evaluators and two reloads are enough for one task to overtake another, two
edits for a delete to meet a create or a toggle to be undone, a write for every
order of its four steps against a teardown. A clock of 4 with a persistence of 2
lets a series be interrupted and completed. Two runs sharing one point and two
steps let each run set, be overtaken and restore; three steps in the liveness
instance let one run set two points. `MaxTime`, `MaxEdits` and `MaxSteps`
(`MAX_STEPS` of the executor) are the only numeric bounds of the core. Tasks and runs are
symmetric in the safety runs only.

Two models and two types let a model change its key while another wants its point;
a breaker of one failure opens and closes within a behavior. In `services` each part
has the two actors whose race matters: two writers of a point with two edits and two
ticks (a write ends while one tick runs and the next one settles it), two requests
for mappings, the tick and the trigger of a log of one or two
records, two evaluations of energy with two edits, three providers and as many
registrations (all three in a chain, or two and one of them again with other points), two
calendars of one name, two locations that two callers move into one another, two classes
and one equipment, a project with a row of each table and four edits, two hosts that answer for one
device, two clients whose invoke ids collide in a list of two, two units of one
register. `MaxElapsed` of 3 with delays of 2 and 1 lets an alarm be confirmed, cleared and a delay
be interrupted; readings of rules are explored one group of related points at a
time, the other points being missing, with values on both sides of each threshold.
Bounds on behaviors are named `Max...` in the modules and appear only in guards.

`CHECK_DEADLOCK` stays on in the core runs: ticks, operators or restarts can always
act. It is off in `services` and `override`, whose actors stop at their bounds.

### Fairness

In `tests_live`: the event loop runs every ready task, worker threads
return and an edit's rebuild ends: weak fairness of each run's next step and of
`EditRebuild`. A wait is passed by simulated time or by a cancellation, so the
step is fair only while the clock runs or the run is cancelled (`Timely`).
`TearDown` waits for `asyncio.Lock`, which is FIFO, so a stream of edits cannot
starve it: strong fairness. Failures, operators, edits and the clock are not
fair. `RunsEnd` therefore asks that the clock eventually keeps running;
`CancelEnds` asks nothing.

In `providers`: the recovery loop is a thread that runs for ever, so its next step is
weakly fair (`SweepBegin`, `SweepRegister`, the visit of a model); `health()` of the
runtime answers now and then, so `SweepLook` is strongly fair against
`SweepUnreachable`. Requests, ticks and what the runtime answers are not fair. `Heals`
therefore speaks of behaviors in which from some time on nobody edits the model, no
request is left half way, the clock runs and the breaker is closed: then the model is
found healthy again and again.

## 4. What is proved

All theorems are for every value of the constants, under the assumptions declared
in the modules: sets of tasks and points are disjoint where names matter, delays
and bounds are naturals, what no reading may be (`Missing`, `NoReading`, `Absent`) is
not a value, plants have finitely many readings and a plant whose points are not
mapped is one of them; the tables of a site are finite and no row is in two of them; the rows of a project
are finite, have ids of their own and refer to each other by the schema. No step is
left without a proof. Every invariant below was first checked by TLC on the run's
instance.

*FaultDetectionProofs.* `TypeCorrect`; `TimersCorrect` (`TimersMeasureStreak` is
inductive together with the types); `ActivationIsEarned` and `ClearIsEarned` follow
from it, since the timer that `_advance_state` compares is the start of the series.
`EventsChained` and `AlarmMatchesActivation` speak of states in which nothing is
being reported; `ReportInv` adds what holds on the way there (`Told`: one evaluator
at a time, reporting the state of the rule, and a change that is not published
leaves the alarm as it was) and `ActiveIsDated`. Of the rules: `RulesAgree`, because
the thresholds of contradictory rules leave no overlap for any numbers whatsoever,
and `LossAddsNoFault`, rule by rule: a verdict on a reading with a point missing is
the verdict on the whole reading, or no fault (`TellsNoMore`).

*EngineReloadProofs.* `TypeCorrect` and `RebuildsExclude` rest on `LockHeld`: a task
between teardown and the end of `start()` is the head of the lock's queue.
`NoStaleObjects` adds that, until a teardown straddles a write, no write that
still has to put an object back holds a stale one. `RestoresAlone` uses two
invariants: `RegisteredInv` (what is in the table has a value in the application,
and from a teardown until the new application is built nothing has) and `AloneInv` (while no
edit has asked for a reload during another: there is only one, the points it owes
are in the snapshot, what it read about rows being raw is still good for those
that are raw now, and no owed point shows a seed value). `ServesRows`
(`ServesDatabase`) speaks only of the end; `ServeInv` says what holds on the way
there, by what is still in the lock's queue: an object that should be gone has a
reload ahead of it (`Extra`), one that is missing has its own hot-add or a reload
that will build it (`Missing`), a rebuild that reads old rows has another reload
behind it (`Reading`), a stack that is down has been asked up (`DownAsked`), and what
waits in the queue is exactly what is under way (`LockExact`, `HotServed`).

*FunctionalTestsProofs.* `TypeCorrect`; `RowsTracked`, with what the rows of runs not
yet scheduled are; `OneActive`, from `RaceInv`: two runs of a test that are being
prepared or active together have been noted in `raced`. `MarksOwedAlways` and
`LoansGivenBack`: `GivesBack` speaks only of states without runs, so it is not
inductive; `LoanInv` says what holds on the way there: a stack that is down has
empty slots (`DownWiped`), a value that is not a run's is the people's (`OwnKept`),
and of each run, where its writes can be (`WritesPlaced`), that its snapshot holds
what people had put there (`SnapshotKept`), that the restore it reports is done
(`LastRestored`), that a slot it will relinquish was empty (`SlotsLent`) and that its
values are owed (`MarksOwed`).

*ProvidersProofs.* `TypeCorrect` and `OwnershipIsExact`. Ownership alone is not inductive:
a registration must come from an enabled row (`Asked`, `Tried`), the sweep must count
failures only while the breaker is closed, and a reset must not set the status of an
object that left the registry (`Found`, kept up by `stale`). `UnregisterKeeps`,
`RegisterKeeps` and `RestatusKeeps` are the three ways the registry ever changes; each
action cites one of them. `RegistryTellsRows` and `ConflictsNeedDrift` rest on
`Truthful`: for every place where a request may be cut it says what the registry has
of a model that did not drift: what its row says, or what the request is about to
take out, put in or reconcile; and the claims of configured rows are disjoint, so
only a drifted model can stand in the way.

*ServicesProofs.* `OneWriter` (`OneWriterPerPoint`): what waits for its thread is coherent
in itself, and its exposures meet no output of another model unless a second save
overtook it (`JudgedWell`); rows that lose bindings break nothing (`Shrinking`, for
toggles and deleted points). `HeldWritesKept` (`HeldWritesStay`): a pass under unchanged
tables still takes the value from where it would take it now (`ChoiceHolds`).
`NumbersFresh` (`SequenceNeverReused`): the records are sorted by pairs, not only
neighbour by neighbour, and a row that was read is the row there still is unless
calls overlapped (`ReadIsFresh`). `CapturesAddUp` (`CaptureAddsUp`) needs only that the
list keeps its bound and that no time of the capture is ahead of the clock (`Timely`).
`AnswersPaired` (`AnswersKeepTheirRequest`): no id is used twice, and an answer bears the
invoke id of the request it answers, if that is still listed (`PairedUp`); the last
request before an answer then exists in either order of a stable sort (`LastOfTime`)
and is the right one unless its client asked again. `LoadsGiveBack` (`RestoredAsSaved`)
needs of the rows what the schema says of them (`Keyed`). In the middle of a load the
live rows are a closed set beside those still to come, whose ids are above all in use
(`LoadUnderWay`), and what was last saved is what is stored unless a route wrote it
over (`SavedIsStored`). Every new id is the old one plus the same number, so names
and references are as before (`RestoredLooksTheSame`). That no row is left out needs
that some row of any non-empty set needs none of that set (`LeastNeedy`: no location
is above itself, and every other key that is needed leads to another table), and
then that as many rounds as there are rows reach them all (`RestorableRows`). The
attempt at this proof showed that the property, as first stated, fails when the state
is cleared between the last two commits of a load: the locations are gone, and
nothing need refer to them. TLC confirmed it on a sample of one location, and the
history `loading.saved` now notes it. Of alarms: `AlarmTypeCorrect`;
`LogIsTrue`; `TransitionsAreEarned`, from `PendingMeasured`: the history has counted at
least the ticks since `pendingSince`, which a reset can only make look shorter;
`Implements`: every step maps to a step of `AlarmLog` or a stutter.

*DeviceProofs.* `TwinsShowAnswers` (`TwinsFollow`): a sweep that a change of the twins
disturbed follows nothing, and one that is undisturbed has the twins there are now
(`SweepKnows`); in the middle of its injections the twins it has fed are ahead of
`followed` by what was just read (`Expected`). `LiveFollowsRows`
(`SchedulesAreCurrent`): a rebuild reads table after table, so `ReadIsCurrent` says for
each of its steps what it holds of the tables read so far: as long as no reload is
owed, what the rows are now. `WritesAreServed` (`WrittenIsServed`): the value of an
undisturbed write is in the behavior, or the row has it and a tick that takes its
value from the row has read that row (`ClaimHeld`); `ClaimServed` follows it through a
tick that began after the write. `SidesAgree` (`ClassesAgree`) has two halves. An entity
has an id of its own, fits its row and, unless about a device, is alone with it, and
the graph tells of every row what its flat class says (`MirrorInv`): each way of
mirroring leaves the entities of all other rows as they are (`Alike`) and gives its
own rows their new class (`Carries`). Parents lead out of every set of
locations (`NoLoop`): a move that looked before it wrote saw a set above the new
parent that is closed under parents and is without the location it moves
(`SeenAbove`); that walking up as often as there are locations does close it is
counted (`AboveIsClosed`).

*TickProofs.* `RecordingHasNoGap` (`PlaysInOrder`): an index is below the number of takes, the
indices have no gap and grow with the takes (`ReplayInv`); evicting removes the
oldest, trimming keeps the newest, and both leave an upper part of what there was.
`WavesReadThisTick` (`EarlierIsSeen`): a provider is in a later wave than every earlier one
that can still send a point it was staged with (`PassStaged`), so that was merged
before it reads. What a provider can send only shrinks during a pass, whatever is
registered: it is the points of its wiring until it is replaced, then those of its last
outputs, and what it has answered (`Could`, `Sent`); and who was not replaced reads what it
was staged with (`AsStaged`).
`TimeIsChargedOnce` (`NeverOvercharged`): the total of a key's accumulator, plus the most that
the evaluations which hold it or have yet to come to its row can still charge,
never exceeds what is allowed (`Covered`); with a reset the allowance is what is in
flight (`FlightsAllowed`).

Induction. The library states it with an operator as parameter, which the provers
cannot instantiate. What is needed of it here is a fact about sets: a set of
naturals with 0 and all successors is `Nat` (`SetInduction`, from the least element
of a set), and a set of subsets closed under adding the element a fold takes last
is all of them (`SubsetInduction`); `FiniteInduction` holds these facts, and that a fold
over a finite set exists (`FoldsExist`) and a function can be iterated (`IteratesExist`). So the staging of any number of providers and the
sum over any number of callers (a fold) are covered: `StageAfter`, `TotalChange`,
`InFlightIsTotal`; and of `Site` the walk up the parents and the folds that mirror
one row after the other (`AboveIsWalk`, `LevelsClassified`, `DevicesCompleted`); and of
`Projects` the rounds in which rows become restorable (`RestorableGrows`).

Only model-checked: `CancelEnds`, `RunsEnd`, `Heals`: liveness is outside what the
prover handles.

## Not modelled

- *Functional test definitions* (`validation.py`, `operands.py`): pure validation of
  graphs and comparisons; what a comparison says only picks the next node.
- *REST plumbing, authentication, settings, metrics, stream clients*: no shared state
  beyond what the handlers named above change.
- *Migrations*: straight-line SQL, run once before anything else.
- *MQTT simulator*: a publishing loop around a reconnecting client. *OPC UA
  simulator*: a separate process whose tick and requests share one lock; it interacts
  with nothing here. *Admin interfaces*: browser code over the REST API.
- `start()` failing half way and `stop()`; a configuration with several devices in one
  application beyond what the rows show.
- Routing of notifications to recipients, enrollments with algorithms other than
  out-of-range and change of state.
- The frozen-sensor rule (a window of timestamps), the energy formulas other than the
  boiler's (they never run), noise, waves and weather interpolation (floating point),
  and the heuristics that score names, AI suggestions and the resolver (text).
- BACnet and Modbus encoding, serial framing, injected Modbus exceptions and delays,
  loading of profiles from files, pcap export; client and adapter classes that the
  application never constructs.
- Two concurrent loads of projects; the clock of the recording loop
  (`_replay_last_sampled_sim_time`), which a reset makes wait.
