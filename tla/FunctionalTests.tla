-------------------------- MODULE FunctionalTests --------------------------
(***************************************************************************)
(* Runs of the saved functional tests and what they leave behind:          *)
(* bacnet-simulator/src/functional_tests/runs.py, executor.py, runtime.py. *)
(*                                                                         *)
(* A run is prepared in a worker thread (guard, snapshot of the points'    *)
(* rows, new row in functional_test_runs) and executed by a task of the    *)
(* event loop that walks the graph.  A Set node overwrites a point; when   *)
(* the walk ends, however it ends, the task puts every such point back.    *)
(* Several runs, people using the REST API and rebuilds of the BACnet      *)
(* stack (module EngineReload) interleave with it.                         *)
(*                                                                         *)
(* A value is "base", "operator" (a person wrote it) or the run that wrote *)
(* it with a Set node.  What a node observes only decides which node comes *)
(* next, so the walk is free to take any.                                  *)
(***************************************************************************)
EXTENDS Naturals, Sequences

CONSTANTS
  Runs,          \* ids in functional_test_runs; never used twice
  Tests,         \* saved functional tests
  Points,        \* objects of simulated devices
  TestPoints,    \* the points each test's Set nodes write
  Commandable,   \* outputs: written through one slot of the priority array
  Manual,        \* objects with manual behavior; the rest computes its value
  MaxSteps,      \* MAX_STEPS of the executor
  Faults         \* which of "crash", "database", "edit", "pause" can happen

ASSUME PointsAssumption ==
  /\ Tests # {} /\ Points # {}
  /\ TestPoints \in [Tests -> SUBSET Points]
  /\ Commandable \subseteq Points /\ Manual \subseteq Points
  /\ Commandable \cap Manual = {}
ASSUME RunsAssumption == Runs \cap {"base", "operator", "none", "edit"} = {}
ASSUME StepsAssumption == MaxSteps \in Nat

Value == {"base", "operator"} \cup Runs

VARIABLES
  rows,       \* state column of each run's row; "none" before the INSERT
  pc,         \* where each run is
  testOf,     \* the test of each run
  steps,      \* nodes the executor has walked
  cache,      \* point_cache: the snapshot restore_writes uses
  writes,     \* executor.writes, as the points written
  target,     \* the point of a Set node that is half done
  cancelled,  \* the runs whose cancel_event is set
  stored,     \* each point's manual_value column or priority-array slot
  rebuilder,  \* who has torn the BACnet stack down: a run, "edit" or "none"
  clock,      \* SimEngine.clock_state is "running"
  own,        \* history: what each point holds as far as people know
  contested,  \* history: points a person and a run both meant to change
  poisoned,   \* history: points a fault or a stale snapshot has got at
  raced,      \* history: tests of which two runs were prepared at once
  stranded    \* history: runs that ended without a final row

runVars == <<rows, pc, testOf, steps, cache, writes, target, cancelled>>
history == <<own, contested, poisoned, raced, stranded>>
vars == <<runVars, stored, rebuilder, clock, history>>

Active == {"pending", "running"}
Preparing == {"checked", "cached"}
Walking == {"scheduled", "running", "waiting", "setting", "failed"}
GivingBack == {"restoring", "reloading", "rebuilding", "reporting"}
Alive(r) == pc[r] \notin {"idle", "done"}
Quiet == \A r \in Runs : ~Alive(r)
SetPoints(r) == TestPoints[testOf[r]]
Up == rebuilder = "none"

\* The points of a sequence of writes.
PointsIn(s) == {s[i] : i \in DOMAIN s}

\* The locals of a run that has none.
NoCache == [p \in Points |-> "base"]
NoTarget == CHOOSE p \in Points : TRUE

Init ==
  /\ rows = [r \in Runs |-> "none"]
  /\ pc = [r \in Runs |-> "idle"]
  /\ testOf = [r \in Runs |-> CHOOSE t \in Tests : TRUE]
  /\ steps = [r \in Runs |-> 0]
  /\ cache = [r \in Runs |-> NoCache]
  /\ writes = [r \in Runs |-> <<>>]
  /\ target = [r \in Runs |-> NoTarget]
  /\ cancelled = {}
  /\ stored = [p \in Points |-> "base"]
  /\ rebuilder = "none"
  /\ clock = TRUE
  /\ own = stored
  /\ contested = {} /\ poisoned = {} /\ raced = {} /\ stranded = {}

Goto(r, label) == pc' = [pc EXCEPT ![r] = label]
Store(p, v) == stored' = [stored EXCEPT ![p] = v]

\* The task of a run ends, and its locals and its registry entry with it.
Leave(r) ==
  /\ Goto(r, "done")
  /\ steps' = [steps EXCEPT ![r] = 0]
  /\ cache' = [cache EXCEPT ![r] = NoCache]
  /\ writes' = [writes EXCEPT ![r] = <<>>]
  /\ target' = [target EXCEPT ![r] = NoTarget]
  /\ cancelled' = cancelled \ {r}

---------------------------------------------------------------------------
(* POST /functional-tests/{id}/runs: prepare_run() and start_execution().  *)

\* Mutant: a run that has not started yet does not count as active.
RunningOnly(t) == \E o \in Runs : testOf[o] = t /\ rows[o] = "running"

\* find_active_functional_test_run
ActiveRunExists(t) == \E o \in Runs : testOf[o] = t /\ rows[o] \in Active

\* The guard passed; otherwise the request is answered 409.
CheckActive(r, t) ==
  /\ pc[r] = "idle"
  /\ ~ActiveRunExists(t)
  /\ Goto(r, "checked")
  /\ testOf' = [testOf EXCEPT ![r] = t]
  /\ raced' = IF \E o \in Runs : testOf[o] = t /\ pc[o] \in Preparing
                THEN raced \cup {t} ELSE raced
  /\ UNCHANGED <<rows, steps, cache, writes, target, cancelled, stored, rebuilder,
                 clock, own, contested, poisoned, stranded>>

\* Mutant: a manual point has nothing to remember.
BuildCacheEmpty(r) ==
  /\ pc[r] = "checked"
  /\ Goto(r, "cached")
  /\ UNCHANGED <<rows, testOf, steps, cache, writes, target, cancelled, stored,
                 rebuilder, clock, history>>

\* build_point_cache
BuildCache(r) ==
  /\ pc[r] = "checked"
  /\ Goto(r, "cached")
  /\ cache' = [cache EXCEPT ![r] =
       [p \in Points |-> IF p \in SetPoints(r) \ Commandable THEN stored[p] ELSE "base"]]
  /\ poisoned' = poisoned \cup {p \in SetPoints(r) \ Commandable : stored[p] \in Runs}
  /\ UNCHANGED <<rows, testOf, steps, writes, target, cancelled, stored, rebuilder,
                 clock, own, contested, raced, stranded>>

\* create_functional_test_run; then the event loop makes the task.
CreateRow(r) ==
  /\ pc[r] = "cached"
  /\ Goto(r, "scheduled")
  /\ rows' = [rows EXCEPT ![r] = "pending"]
  /\ UNCHANGED <<testOf, steps, cache, writes, target, cancelled, stored, rebuilder,
                 clock, history>>

\* The task records that it runs; if that raises, the task is over.
MarkRunning(r) ==
  /\ pc[r] = "scheduled"
  /\ \/ /\ Goto(r, "running")
        /\ rows' = [rows EXCEPT ![r] = "running"]
        /\ UNCHANGED stranded
        /\ UNCHANGED <<steps, cache, writes, target, cancelled>>
     \/ /\ "database" \in Faults
        /\ Leave(r)
        /\ stranded' = stranded \cup {r}
        /\ UNCHANGED rows
  /\ UNCHANGED <<testOf, stored, rebuilder, clock, own, contested, poisoned, raced>>

\* POST /functional-test-runs/{id}/cancel, while the registry has the task.  Once
\* the walk is over nobody looks at the flag.
Cancel(r) ==
  /\ pc[r] \in Walking
  /\ cancelled' = cancelled \cup {r}
  /\ UNCHANGED <<rows, pc, testOf, steps, cache, writes, target, stored, rebuilder,
                 clock, history>>

---------------------------------------------------------------------------
(* GraphExecutor.run().                                                    *)

\* Mutant: the limit is exceeded by one.
LateStepLimit(r) ==
  /\ pc[r] = "running" /\ r \notin cancelled
  /\ steps[r] <= MaxSteps
  /\ steps' = [steps EXCEPT ![r] = @ + 1]

\* Mutant: the walk of a cyclic graph is not bounded.
UnboundedStep(r) == pc[r] = "running" /\ r \notin cancelled /\ UNCHANGED steps

\* The next node of the walk.
NextStep(r) ==
  /\ pc[r] = "running" /\ r \notin cancelled
  /\ steps[r] < MaxSteps
  /\ steps' = [steps EXCEPT ![r] = @ + 1]

\* A node that changes nothing: start, capture, verify, compare.
Observe(r) ==
  /\ NextStep(r)
  /\ UNCHANGED <<rows, pc, testOf, cache, writes, target, cancelled, stored,
                 rebuilder, clock, history>>

\* A wait or wait_until node.
Wait(r) ==
  /\ NextStep(r)
  /\ Goto(r, "waiting")
  /\ UNCHANGED <<rows, testOf, cache, writes, target, cancelled, stored,
                 rebuilder, clock, history>>

\* Enough simulated time has passed, or what a wait_until waits for holds.
WaitOver(r) ==
  /\ pc[r] = "waiting" /\ r \notin cancelled
  /\ Goto(r, "running")
  /\ UNCHANGED <<rows, testOf, steps, cache, writes, target, cancelled, stored,
                 rebuilder, clock, history>>

\* A Set node on a commandable point: write_priority fills the slot, unless
\* the object is not live.
SetPriority(r, p) ==
  /\ NextStep(r)
  /\ p \in SetPoints(r) \cap Commandable
  /\ IF Up
       THEN /\ Store(p, r)
            /\ writes' = [writes EXCEPT ![r] = Append(@, p)]
            /\ contested' = IF stored[p] = "operator" THEN contested \cup {p} ELSE contested
            /\ UNCHANGED pc
       ELSE /\ Goto(r, "failed")
            /\ UNCHANGED <<stored, writes, contested>>
  /\ UNCHANGED <<rows, testOf, cache, target, cancelled, rebuilder, clock, own,
                 poisoned, raced, stranded>>

\* A Set node on any other point stores the manual value first...
SetStored(r, p) ==
  /\ NextStep(r)
  /\ p \in SetPoints(r) \ Commandable
  /\ Store(p, r)
  /\ Goto(r, "setting")
  /\ target' = [target EXCEPT ![r] = p]
  /\ UNCHANGED <<rows, testOf, cache, writes, cancelled, rebuilder, clock, history>>

\* ... then sets the live object; only after that is the write remembered.
SetLive(r) ==
  /\ pc[r] = "setting"
  /\ target' = [target EXCEPT ![r] = NoTarget]
  /\ IF Up
       THEN /\ Goto(r, "running")
            /\ writes' = [writes EXCEPT ![r] = Append(@, target[r])]
            /\ UNCHANGED poisoned
       ELSE /\ Goto(r, "failed")
            /\ poisoned' = poisoned \cup {target[r]}
            /\ UNCHANGED writes
  /\ UNCHANGED <<rows, testOf, steps, cache, cancelled, stored, rebuilder, clock,
                 own, contested, raced, stranded>>

\* Mutant: nothing is stored of a cancelled run.
EndsUnlessCancelled(r, state) ==
  /\ Goto(r, "restoring")
  /\ rows' = IF state = "cancelled" THEN rows ELSE [rows EXCEPT ![r] = state]
  /\ steps' = [steps EXCEPT ![r] = 0]
  /\ cancelled' = cancelled \ {r}
  /\ UNCHANGED <<testOf, cache, writes, target, stored, rebuilder, clock, history>>

\* The walk ended and its outcome is stored, before anything is restored.  If
\* storing it raises twice, the restores still happen.
Ends(r, state) ==
  /\ Goto(r, "restoring")
  /\ \/ rows' = [rows EXCEPT ![r] = state] /\ UNCHANGED stranded
     \/ "database" \in Faults /\ stranded' = stranded \cup {r} /\ UNCHANGED rows
  /\ steps' = [steps EXCEPT ![r] = 0]
  /\ cancelled' = cancelled \ {r}
  /\ UNCHANGED <<testOf, cache, writes, target, stored, rebuilder, clock, own,
                 contested, poisoned, raced>>

\* An end node; "finished" stands for passed, failed and inconclusive.
Finish(r) ==
  /\ pc[r] = "running" /\ r \notin cancelled /\ steps[r] < MaxSteps
  /\ Ends(r, "finished")
\* A wait_until node times out.
TimeOut(r) ==
  /\ pc[r] = "waiting" /\ r \notin cancelled
  /\ Ends(r, "finished")
\* Mutant: a wait does not look at the flag.
SeeCancelBetweenNodes(r) == pc[r] = "running" /\ r \in cancelled /\ Ends(r, "cancelled")

\* Mutant: a cancelled run restores nothing.
SeeCancelAndLeave(r) ==
  /\ pc[r] \in {"running", "waiting"} /\ r \in cancelled
  /\ Leave(r)
  /\ rows' = [rows EXCEPT ![r] = "cancelled"]
  /\ UNCHANGED <<testOf, stored, rebuilder, clock, history>>

\* The cancel flag is seen between two nodes or inside a wait.
SeeCancel(r) ==
  /\ pc[r] \in {"running", "waiting"} /\ r \in cancelled
  /\ Ends(r, "cancelled")
\* An ExecutionError: a failed Set, or the step limit.
Abort(r) ==
  /\ \/ pc[r] = "failed"
     \/ pc[r] = "running" /\ r \notin cancelled /\ steps[r] = MaxSteps
  /\ Ends(r, "error")
\* Anything else that raises: an ambiguous edge, an external read, a details row
\* that cannot be written.
Raise(r) ==
  /\ pc[r] \in {"running", "waiting"}
  /\ Ends(r, "error")

---------------------------------------------------------------------------
(* restore_writes(), the most recent write first.                          *)

LastWrite(r) == writes[r][Len(writes[r])]
Restoring(r) == pc[r] = "restoring" /\ writes[r] # <<>>

\* Mutant: another slot than the one the Set node used is relinquished.
RelinquishOther(r) ==
  /\ Restoring(r) /\ LastWrite(r) \in Commandable
  /\ Goto(r, "reporting")
  /\ UNCHANGED <<rows, testOf, steps, cache, writes, target, cancelled, stored,
                 rebuilder, clock, history>>

\* Relinquish the slot; a point that is not live is an error, and goes on.
Relinquish(r) ==
  /\ Restoring(r) /\ LastWrite(r) \in Commandable
  /\ IF Up THEN Store(LastWrite(r), "base") ELSE UNCHANGED stored
  /\ Goto(r, "reporting")
  /\ UNCHANGED <<rows, testOf, steps, cache, writes, target, cancelled, rebuilder,
                 clock, history>>

\* set_manual_value with the snapshot's value; if that raises, the point stays as
\* it is and the restores go on.
RestoreManual(r) ==
  /\ Restoring(r) /\ LastWrite(r) \in Manual
  /\ \/ Store(LastWrite(r), cache[r][LastWrite(r)]) /\ UNCHANGED poisoned
     \/ /\ "database" \in Faults
        /\ poisoned' = poisoned \cup {LastWrite(r)}
        /\ UNCHANGED stored
  /\ Goto(r, "reporting")
  /\ UNCHANGED <<rows, testOf, steps, cache, writes, target, cancelled, rebuilder,
                 clock, own, contested, raced, stranded>>

\* update_object with the snapshot's row, which leaves manual_value as it is;
\* then engine.reload(), unless the update raises.
RestoreBehavior(r) ==
  /\ Restoring(r) /\ LastWrite(r) \notin Commandable \cup Manual
  /\ Goto(r, "reloading") \/ ("database" \in Faults /\ Goto(r, "reporting"))
  /\ UNCHANGED <<rows, testOf, steps, cache, writes, target, cancelled, stored,
                 rebuilder, clock, history>>

\* The priority arrays go with the BACnet objects.
Wiped == [p \in Points |-> IF p \in Commandable THEN "base" ELSE stored[p]]

TearDown(r) ==
  /\ pc[r] = "reloading" /\ Up
  /\ Goto(r, "rebuilding")
  /\ rebuilder' = r
  /\ stored' = Wiped
  /\ contested' = contested \cup {p \in Commandable : stored[p] = "operator"}
  /\ UNCHANGED <<rows, testOf, steps, cache, writes, target, cancelled, clock,
                 own, poisoned, raced, stranded>>

Rebuild(r) ==
  /\ pc[r] = "rebuilding"
  /\ Goto(r, "reporting")
  /\ rebuilder' = "none"
  /\ UNCHANGED <<rows, testOf, steps, cache, writes, target, cancelled, stored,
                 clock, history>>

\* The outcome of one restore goes into the run's details; if that raises, the
\* task ends with the rest not restored.
Report(r) ==
  LET rest == SubSeq(writes[r], 1, Len(writes[r]) - 1)
  IN  /\ pc[r] = "reporting"
      /\ \/ /\ Goto(r, "restoring")
            /\ writes' = [writes EXCEPT ![r] = rest]
            /\ UNCHANGED <<steps, cache, target, cancelled, poisoned>>
         \/ /\ "database" \in Faults
            /\ Leave(r)
            /\ poisoned' = poisoned \cup PointsIn(rest)
      /\ UNCHANGED <<rows, testOf, stored, rebuilder, clock, own, contested, raced,
                     stranded>>

\* Nothing is left to restore: the registry drops the task.
Done(r) ==
  /\ pc[r] = "restoring" /\ writes[r] = <<>>
  /\ Leave(r)
  /\ UNCHANGED <<rows, testOf, stored, rebuilder, clock, history>>

---------------------------------------------------------------------------
(* Everybody else.                                                         *)

\* A person writes a point: POST .../value, or PUT .../priority-array/{n}.
OperatorWrite(p) ==
  /\ p \in Commandable => Up
  /\ Store(p, "operator")
  /\ own' = [own EXCEPT ![p] = "operator"]
  /\ contested' = IF \E r \in Runs : Alive(r) /\ p \in SetPoints(r)
                    THEN contested \cup {p} ELSE contested
  /\ UNCHANGED <<runVars, rebuilder, clock, poisoned, raced, stranded>>

\* Somebody edits the configuration and the stack is rebuilt.
EditTearDown ==
  /\ "edit" \in Faults
  /\ Up
  /\ rebuilder' = "edit"
  /\ stored' = Wiped
  /\ own' = [p \in Points |-> IF p \in Commandable THEN "base" ELSE own[p]]
  /\ UNCHANGED <<runVars, clock, contested, poisoned, raced, stranded>>

EditRebuild ==
  /\ rebuilder = "edit"
  /\ rebuilder' = "none"
  /\ UNCHANGED <<runVars, stored, clock, history>>

\* The simulation is paused or resumed.
ToggleClock ==
  /\ "pause" \in Faults
  /\ clock' = ~clock
  /\ UNCHANGED <<runVars, stored, rebuilder, history>>

\* The process dies and is started again: tasks, registry and priority arrays
\* are gone, the two tables are not.
Crash ==
  /\ "crash" \in Faults
  /\ pc' = [r \in Runs |-> IF Alive(r) THEN "done" ELSE pc[r]]
  /\ steps' = [r \in Runs |-> 0]
  /\ cache' = [r \in Runs |-> NoCache]
  /\ writes' = [r \in Runs |-> <<>>]
  /\ target' = [r \in Runs |-> NoTarget]
  /\ cancelled' = {}
  /\ stored' = Wiped
  /\ rebuilder' = "none"
  /\ clock' = TRUE
  /\ own' = [p \in Points |-> IF p \in Commandable THEN "base" ELSE own[p]]
  /\ poisoned' = poisoned \cup {p \in Points \ Commandable : stored[p] \in Runs}
  /\ stranded' = stranded \cup {r \in Runs : rows[r] \in Active}
  /\ UNCHANGED <<rows, testOf, contested, raced>>

---------------------------------------------------------------------------
Prepare(r) == BuildCache(r) \/ CreateRow(r) \/ MarkRunning(r)

Walk(r) ==
  \/ Observe(r) \/ Wait(r) \/ WaitOver(r)
  \/ (\E p \in Points : SetPriority(r, p) \/ SetStored(r, p))
  \/ SetLive(r)
  \/ Finish(r) \/ TimeOut(r) \/ SeeCancel(r) \/ Abort(r)

Restore(r) ==
  \/ Relinquish(r) \/ RestoreManual(r) \/ RestoreBehavior(r)
  \/ TearDown(r) \/ Rebuild(r) \/ Report(r) \/ Done(r)

RunStep(r) == Prepare(r) \/ Walk(r) \/ Restore(r)

Next ==
  \/ \E r \in Runs :
       \/ \E t \in Tests : CheckActive(r, t)
       \/ RunStep(r)
       \/ Raise(r)
       \/ Cancel(r)
  \/ \E p \in Points : OperatorWrite(p)
  \/ EditTearDown \/ EditRebuild \/ ToggleClock \/ Crash

\* The event loop runs every task that is ready, a worker thread finishes its
\* function, a rebuild ends, and asyncio.Lock serves its waiters in order: no
\* stream of edits keeps a task from its turn.  Simulated time ends a wait, so
\* while the simulation is paused only a cancellation surely does.
Timely(r) == pc[r] = "waiting" => clock \/ r \in cancelled
Fairness ==
  /\ \A r \in Runs : WF_vars(RunStep(r) /\ Timely(r)) /\ SF_vars(TearDown(r))
  /\ WF_vars(EditRebuild)

Spec == Init /\ [][Next]_vars
FairSpec == Spec /\ Fairness

---------------------------------------------------------------------------
(* Properties.                                                             *)

TypeOK ==
  /\ rows \in [Runs -> Active \cup {"none", "finished", "cancelled", "error"}]
  /\ pc \in [Runs -> Preparing \cup Walking \cup GivingBack \cup {"idle", "done"}]
  /\ testOf \in [Runs -> Tests]
  /\ steps \in [Runs -> 0..MaxSteps]
  /\ cache \in [Runs -> [Points -> Value]]
  /\ writes \in [Runs -> Seq(Points)]
  /\ target \in [Runs -> Points]
  /\ cancelled \subseteq Runs
  /\ stored \in [Points -> Value]
  /\ rebuilder \in Runs \cup {"edit", "none"}
  /\ clock \in BOOLEAN
  /\ own \in [Points -> Value \ Runs]
  /\ contested \subseteq Points /\ poisoned \subseteq Points
  /\ raced \subseteq Tests /\ stranded \subseteq Runs

\* Run r still has to put p back.
Owes(r, p) ==
  \/ p \in PointsIn(writes[r])
  \/ pc[r] = "setting" /\ target[r] = p

\* A value a Set node left in a point is always one that a living task still
\* has to take out, however many runs share the point and however they end:
\* unless a fault got at it, or a run took its snapshot while another run's
\* value was in the row.
MarksAreOwed ==
  \A p \in (Commandable \cup Manual) \ poisoned :
    stored[p] \in Runs => Owes(stored[p], p)

\* When no run is left, every commandable or manual point holds again what
\* people had put there, with the same provisos and as long as no person wrote
\* to a point that a run was about to change.
GivesBack ==
  Quiet => \A p \in (Commandable \cup Manual) \ (poisoned \cup contested) :
             stored[p] = own[p]

\* The row of a run says "pending" or "running" exactly until its outcome is
\* decided, and only a fault leaves such a row behind without a task; the
\* guard of prepare_run then refuses the test.
RowsTrackTasks ==
  \A r \in Runs \ stranded :
    rows[r] \in Active <=> pc[r] \in Walking

\* At most one run of a test is active, unless two were prepared at once.
OneActiveUnlessRaced ==
  \A r, s \in Runs :
    (rows[r] \in Active /\ rows[s] \in Active /\ testOf[r] = testOf[s]) =>
      r = s \/ testOf[r] \in raced

\* A cancelled run ends, even when the simulation is paused while it waits.
CancelEnds == \A r \in Runs : r \in cancelled ~> ~Alive(r)

\* Every run ends if the simulation keeps running: the walk is bounded, and the
\* restores and the rebuilds of the stack they ask for come through.
RunsEnd == <>[]clock => \A r \in Runs : Alive(r) ~> ~Alive(r)

\* What restore_writes is for: a Set node never leaves the simulator modified,
\* regardless of how the run ended.
NeverLeavesModified ==
  Quiet => \A p \in Points : stored[p] \notin Runs
===========================================================================
