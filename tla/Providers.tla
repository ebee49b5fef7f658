---------------------------- MODULE Providers ----------------------------
(***************************************************************************)
(* The registry of simulation providers and who changes it:                *)
(* SimEngine (simulation/engine.py), model configurations                  *)
(* (simulation/models/store.py, simulation/models/runtime.py), their       *)
(* routes (api/routers/simulation.py) and the FMU session each provider    *)
(* holds on the remote runtime (simulation/providers/fmu.py).              *)
(*                                                                         *)
(* Three actors share the registry.  A request runs on the event loop.     *)
(* The recovery sweep and the provider steps of a tick run in worker       *)
(* threads.  The registry lock makes one register or one unregister call   *)
(* atomic; nothing holds it across the two calls of reload_model, across   *)
(* a reset, or across a step.                                              *)
(*                                                                         *)
(* Requests are taken one at a time: two of them interleave only where a   *)
(* handler awaits a database call.  Built-in is no part of this registry:  *)
(* register and unregister refuse its key.                                 *)
(***************************************************************************)
EXTENDS Naturals

CONSTANTS
  Models,      \* ids of simulation_model_configs
  Types,       \* model_type: part of a provider's registry key
  Points,      \* objects a model may write
  Offered,     \* per model, the configurations a user submits
  MaxFailures, \* _MAX_CONSECUTIVE_RECOVERY_FAILURES
  None

ASSUME MaxFailuresAssumption == MaxFailures \in Nat \ {0}
ASSUME NoneAssumption == None \notin Types \X Models

\* provider_runtime_id
Ids == Types \X Models
\* What of a configuration decides how its provider is built.
Config == [enabled: BOOLEAN, type: Types, outs: SUBSET Points]
ASSUME OfferedAssumption == Offered \in [Models -> SUBSET Config]

\* A provider object; bad: the last answer was an HTTP error (last_http_status >= 400).
Provider == [status: {"ready", "running", "paused", "stopped", "error"},
             bad: BOOLEAN, outs: SUBSET Points]
Absent == [status |-> "absent"]
NoConfig == [enabled |-> FALSE]

VARIABLES
  db,      \* simulation_model_configs
  reg,     \* SimEngine._providers
  owner,   \* SimEngine._point_output_owner
  clock,   \* SimEngine.clock_state
  fails,   \* _recovery_failure_counts
  req,     \* the request being served
  sweep,   \* the recovery sweep
  stale,   \* providers under reset whose object left the registry
  drift    \* history: models whose engine side may differ from their row

vars == <<db, reg, owner, clock, fails, req, sweep, stale, drift>>

IdOf(m, c) == <<c.type, m>>
Registered(id) == reg[id] # Absent
RegisteredIds == {id \in Ids : Registered(id)}

IdleReq == [pc |-> "idle", m |-> None, cfg |-> NoConfig, old |-> NoConfig,
            todo |-> {}, clean |-> TRUE]
IdleSweep == [pc |-> "idle", list |-> [m \in Models |-> NoConfig], todo |-> {},
              well |-> {}, m |-> None, cfg |-> NoConfig]

Init ==
  /\ db = [m \in Models |-> NoConfig]
  /\ reg = [id \in Ids |-> Absent]
  /\ owner = [p \in Points |-> None]
  /\ clock = "running"
  /\ fails = [m \in Models |-> 0]
  /\ req = IdleReq
  /\ sweep = IdleSweep
  /\ stale = {}
  /\ drift = {}

---------------------------------------------------------------------------
(* The registry.                                                           *)

\* Mutant: unregistering keeps the claims on output points.
DisownedKept(id) == owner

\* unregister_simulation_provider gives up the points the provider owns.
Disowned(id) ==
  [p \in Points |-> IF Registered(id) /\ p \in reg[id].outs /\ owner[p] = id
                    THEN None ELSE owner[p]]

\* register_simulation_provider refuses points somebody owns.
Conflict(own, outs) == \E p \in outs : own[p] # None

\* A provider whose initialize returned, started when the clock runs.
Fresh(outs) == [status |-> IF clock = "running" THEN "running" ELSE "ready",
                bad |-> FALSE, outs |-> outs]

\* reset() works on the objects it found; one of them may leave the registry.
LeavesStale(id) ==
  stale' = IF req.pc \in {"reset", "reinit"} /\ Registered(id) THEN stale \cup {id} ELSE stale

Unregister(id) ==
  /\ reg' = [reg EXCEPT ![id] = Absent]
  /\ owner' = Disowned(id)
  /\ LeavesStale(id)

\* register_model_config(replace=True).  The old provider goes first.  The
\* call raises when a point is taken, when an input has no value yet, and
\* when the runtime refuses, is away or its answer is lost.
Register(id, outs, raised) ==
  /\ raised \/ ~Conflict(Disowned(id), outs)
  /\ reg' = [reg EXCEPT ![id] = IF raised THEN Absent ELSE Fresh(outs)]
  /\ owner' = IF raised THEN Disowned(id)
              ELSE [p \in Points |-> IF p \in outs THEN id ELSE Disowned(id)[p]]
  /\ LeavesStale(id)

---------------------------------------------------------------------------
(* Requests about configurations.  Validation and the write are one step:  *)
(* only requests write these tables.                                       *)

\* Mutant: rows of disabled models do not count.
MayClaimFromDisabled(m, c) ==
  \A o \in Models \ {m} : db[o].enabled => db[o].outs \cap c.outs = {}

\* One explicit output owner per point: get_explicit_output_owner and the
\* unique index on output mappings; disabled models count.
MayClaim(m, c) ==
  \A o \in Models \ {m} : db[o] # NoConfig => db[o].outs \cap c.outs = {}

Serve(pc, m, c, old) ==
  req' = [IdleReq EXCEPT !.pc = pc, !.m = m, !.cfg = c, !.old = old]

Create(m, c) ==
  /\ req.pc = "idle" /\ db[m] = NoConfig /\ MayClaim(m, c)
  /\ db' = [db EXCEPT ![m] = c]
  /\ IF c.enabled THEN Serve("begin", m, NoConfig, NoConfig) ELSE req' = IdleReq
  /\ UNCHANGED <<reg, owner, clock, fails, sweep, stale>>

\* PUT without apply: persistence only.
Save(m, c) ==
  /\ req.pc = "idle" /\ db[m] # NoConfig /\ MayClaim(m, c)
  /\ db' = [db EXCEPT ![m] = c]
  /\ req' = IdleReq
  /\ UNCHANGED <<reg, owner, clock, fails, sweep, stale>>

\* PUT with apply=true.
Apply(m, c) ==
  /\ req.pc = "idle" /\ db[m] # NoConfig /\ MayClaim(m, c)
  /\ db' = [db EXCEPT ![m] = c]
  /\ Serve("release", m, c, db[m])
  /\ UNCHANGED <<reg, owner, clock, fails, sweep, stale>>

\* The old key is released when it is not the new one.
ApplyRelease ==
  /\ req.pc = "release"
  /\ IF IdOf(req.m, req.old) # IdOf(req.m, req.cfg)
     THEN Unregister(IdOf(req.m, req.old))
     ELSE UNCHANGED <<reg, owner, stale>>
  /\ req' = [req EXCEPT !.pc = "check"]
  /\ UNCHANGED <<db, clock, fails, sweep>>

\* status is "running" and no HTTP error was the last answer: the test of
\* the sweep and of apply.
Healthy(id) ==
  Registered(id) /\ reg[id].status = "running" /\ ~reg[id].bad

\* needs_restart
NeedsRestart ==
  \/ ~req.old.enabled
  \/ [req.old EXCEPT !.enabled = TRUE] # [req.cfg EXCEPT !.enabled = TRUE]
  \/ ~Healthy(IdOf(req.m, req.old))

ApplyCheck ==
  /\ req.pc = "check"
  /\ IF req.cfg.enabled /\ NeedsRestart
     THEN Serve("begin", req.m, NoConfig, NoConfig)
     ELSE req' = IdleReq
  /\ UNCHANGED <<db, reg, owner, clock, fails, sweep, stale>>

\* PUT .../enabled
Toggle(m) ==
  /\ req.pc = "idle" /\ db[m] # NoConfig
  /\ db' = [db EXCEPT ![m].enabled = ~@]
  /\ Serve("begin", m, NoConfig, NoConfig)
  /\ UNCHANGED <<reg, owner, clock, fails, sweep, stale>>

\* POST .../reload
AskReload(m) ==
  /\ req.pc = "idle" /\ db[m] # NoConfig
  /\ Serve("begin", m, NoConfig, NoConfig)
  /\ UNCHANGED <<db, reg, owner, clock, fails, sweep, stale>>

\* Mutant: reload_model leaves a disabled model registered.
ReloadReleasesEnabled ==
  /\ req.pc = "begin"
  /\ IF db[req.m].enabled THEN Unregister(IdOf(req.m, db[req.m]))
     ELSE UNCHANGED <<reg, owner, stale>>
  /\ req' = IF db[req.m].enabled THEN [req EXCEPT !.pc = "register", !.cfg = db[req.m]]
            ELSE IdleReq
  /\ UNCHANGED <<db, clock, fails, sweep>>

\* reload_model: read the row, unregister, and go on when it is enabled.
ReloadRelease ==
  /\ req.pc = "begin"
  /\ Unregister(IdOf(req.m, db[req.m]))
  /\ req' = IF db[req.m].enabled THEN [req EXCEPT !.pc = "register", !.cfg = db[req.m]]
            ELSE IdleReq
  /\ UNCHANGED <<db, clock, fails, sweep>>

\* A configuration whose provider does not start is kept (HTTP 422).
ReloadRegister ==
  /\ req.pc = "register"
  /\ \E raised \in BOOLEAN : Register(IdOf(req.m, req.cfg), req.cfg.outs, raised)
  /\ req' = IdleReq
  /\ UNCHANGED <<db, clock, fails, sweep>>

\* DELETE: the provider goes first, the row after an await.
Delete(m) ==
  /\ req.pc = "idle" /\ db[m] # NoConfig
  /\ Unregister(IdOf(m, db[m]))
  /\ Serve("deleting", m, NoConfig, NoConfig)
  /\ UNCHANGED <<db, clock, fails, sweep>>

DeleteRow ==
  /\ req.pc = "deleting"
  /\ db' = [db EXCEPT ![req.m] = NoConfig]
  /\ req' = IdleReq
  /\ UNCHANGED <<reg, owner, clock, fails, sweep, stale>>

---------------------------------------------------------------------------
(* reconcile_enabled_models: drop what no enabled row asks for, then       *)
(* register every enabled row again.                                       *)

EnabledModels == {m \in Models : db[m].enabled}
Desired == {IdOf(m, db[m]) : m \in EnabledModels}

Reconcile ==
  /\ req.pc = "idle"
  /\ req' = [IdleReq EXCEPT !.pc = "drop",
                            !.todo = RegisteredIds \ Desired,
                            !.clean = sweep.pc = "idle"]
  /\ UNCHANGED <<db, reg, owner, clock, fails, sweep, stale>>

ReconcileDrop ==
  /\ req.pc = "drop"
  /\ IF req.todo = {}
     THEN /\ req' = [req EXCEPT !.pc = "load", !.todo = EnabledModels]
          /\ UNCHANGED <<reg, owner, stale>>
     ELSE \E id \in req.todo : /\ Unregister(id)
                               /\ req' = [req EXCEPT !.todo = @ \ {id}]
  /\ UNCHANGED <<db, clock, fails, sweep>>

\* _build_fmu_provider asks the runtime for its catalog first: when that
\* raises, the old provider stays as it is.
ReconcileLoad ==
  /\ req.pc = "load"
  /\ \E m \in req.todo :
       \/ /\ \E raised \in BOOLEAN : Register(IdOf(m, db[m]), db[m].outs, raised)
          /\ req' = [req EXCEPT !.todo = @ \ {m}]
       \/ /\ req' = [req EXCEPT !.todo = @ \ {m}, !.clean = FALSE]
          /\ UNCHANGED <<reg, owner, stale>>
  /\ UNCHANGED <<db, clock, fails, sweep>>

ReconcileEnd ==
  /\ req.pc = "load" /\ req.todo = {}
  /\ req' = IdleReq
  /\ UNCHANGED <<db, reg, owner, clock, fails, sweep, stale>>

---------------------------------------------------------------------------
(* The simulation clock.  pause and resume call every provider; reset      *)
(* stops and initializes each of them in turn, without the registry lock.  *)

WithStatus(from, to) ==
  [id \in Ids |-> IF reg[id].status \in from THEN [reg[id] EXCEPT !.status = to] ELSE reg[id]]

Pause ==
  /\ req.pc = "idle" /\ clock # "paused"
  /\ clock' = "paused"
  /\ reg' = WithStatus({"running"}, "paused")
  /\ UNCHANGED <<db, owner, fails, req, sweep, stale>>

Resume ==
  /\ req.pc = "idle" /\ clock # "running"
  /\ clock' = "running"
  /\ reg' = WithStatus({"ready", "paused"}, "running")
  /\ UNCHANGED <<db, owner, fails, req, sweep, stale>>

Reset ==
  /\ req.pc = "idle"
  /\ clock' = "stopped"
  /\ req' = [IdleReq EXCEPT !.pc = "reset", !.todo = RegisteredIds]
  /\ UNCHANGED <<db, reg, owner, fails, sweep, stale>>

ResetStop(id) ==
  /\ req.pc = "reset" /\ id \in req.todo
  /\ req' = [req EXCEPT !.pc = "reinit", !.m = id, !.todo = @ \ {id}]
  /\ reg' = IF id \in stale THEN reg ELSE [reg EXCEPT ![id].status = "stopped", ![id].bad = FALSE]
  /\ UNCHANGED <<db, owner, clock, fails, sweep, stale>>

\* A provider that left the registry meanwhile is initialized all the same,
\* on an object nobody steps any more.
ResetInit ==
  /\ req.pc = "reinit"
  /\ \E status \in {"ready", "error"} :
       reg' = IF req.m \in stale THEN reg
              ELSE [reg EXCEPT ![req.m] = [@ EXCEPT !.status = status, !.bad = FALSE]]
  /\ req' = [req EXCEPT !.pc = "reset"]
  /\ UNCHANGED <<db, owner, clock, fails, sweep, stale>>

ResetDone ==
  /\ req.pc = "reset" /\ req.todo = {}
  /\ req' = IdleReq
  /\ stale' = {}
  /\ UNCHANGED <<db, reg, owner, clock, fails, sweep>>

---------------------------------------------------------------------------
(* recover_unhealthy_simulation_models, in a worker thread.  One sweep at  *)
(* a time: _simulation_recovery_sweep_lock.                                *)

SweepBegin ==
  /\ sweep.pc = "idle" /\ EnabledModels # {}
  /\ sweep' = [IdleSweep EXCEPT !.pc = "probe", !.list = db, !.todo = EnabledModels]
  /\ req' = IF req.pc \in {"drop", "load"} THEN [req EXCEPT !.clean = FALSE] ELSE req
  /\ UNCHANGED <<db, reg, owner, clock, fails, stale>>

\* Mutant: the status alone decides.
LooksWellByStatus(id) == Registered(id) /\ reg[id].status = "running"

\* The test of the sweep on get_simulation_providers().
LooksWell(id) == Healthy(id)

\* health() and, when it answers, the one look at the providers.
SweepLook ==
  /\ sweep.pc = "probe"
  /\ sweep' = [sweep EXCEPT !.pc = "visit", !.list = IdleSweep.list,
                  !.well = {m \in sweep.todo : LooksWell(IdOf(m, sweep.list[m]))}]
  /\ UNCHANGED <<db, reg, owner, clock, fails, req, stale>>

SweepUnreachable ==
  /\ sweep.pc = "probe"
  /\ sweep' = IdleSweep
  /\ UNCHANGED <<db, reg, owner, clock, fails, req, stale>>

Visited(m) == IF sweep.todo = {m} THEN IdleSweep
              ELSE [sweep EXCEPT !.todo = @ \ {m}, !.pc = "visit", !.m = None, !.cfg = NoConfig]

SweepPass(m) ==
  /\ sweep.pc = "visit" /\ m \in sweep.todo
  /\ \/ m \in sweep.well /\ fails' = [fails EXCEPT ![m] = 0]
     \/ m \notin sweep.well /\ fails[m] >= MaxFailures /\ fails' = fails
  /\ sweep' = Visited(m)
  /\ UNCHANGED <<db, reg, owner, clock, req, stale>>

\* A model that did not look well, while its breaker is closed.
SweepTries(m) == sweep.pc = "visit" /\ m \in sweep.todo /\ m \notin sweep.well
                   /\ fails[m] < MaxFailures

\* reload_model: a deleted row raises, a disabled one only unregisters.
SweepRelease(m) ==
  /\ SweepTries(m)
  /\ IF db[m] = NoConfig
     THEN /\ fails' = [fails EXCEPT ![m] = @ + 1] /\ sweep' = Visited(m)
          /\ UNCHANGED <<reg, owner, stale>>
     ELSE /\ Unregister(IdOf(m, db[m]))
          /\ IF db[m].enabled
             THEN /\ sweep' = [sweep EXCEPT !.pc = "register", !.m = m, !.cfg = db[m]]
                  /\ UNCHANGED fails
             ELSE /\ sweep' = Visited(m) /\ fails' = [fails EXCEPT ![m] = 0]
  /\ UNCHANGED <<db, clock, req>>

SweepRegister ==
  /\ sweep.pc = "register"
  /\ \E raised \in BOOLEAN :
       /\ Register(IdOf(sweep.m, sweep.cfg), sweep.cfg.outs, raised)
       /\ fails' = [fails EXCEPT ![sweep.m] = IF raised THEN @ + 1 ELSE 0]
  /\ sweep' = Visited(sweep.m)
  /\ UNCHANGED <<db, clock, req>>

---------------------------------------------------------------------------
(* A provider step of the tick (_step_one_provider): it starts a provider  *)
(* that is ready or paused, and steps it.  "lost" is the 404 of a session  *)
(* the runtime no longer knows, or an aggregate input that cannot be       *)
(* computed; "bad" is another HTTP error, "silent" an exception before any *)
(* answer.  What an unregistered or reset object learns from a late answer *)
(* stays on that object, so that call and answer are one step here.        *)

Answers == {"silent", "good", "bad", "lost"}

\* step(): what the answer makes of the provider.
Stepped(p, answer) ==
  CASE answer = "lost" -> [p EXCEPT !.status = "error", !.bad = FALSE]
    [] answer = "silent" -> p
    [] OTHER -> [p EXCEPT !.bad = (answer = "bad")]

Step(id) ==
  /\ clock = "running" /\ reg[id].status \in {"ready", "running", "paused"}
  /\ \E answer \in Answers :
       reg' = [reg EXCEPT ![id] = Stepped([@ EXCEPT !.status = "running"], answer)]
  /\ UNCHANGED <<db, owner, clock, fails, req, sweep, stale>>

---------------------------------------------------------------------------
Request ==
  \/ \E m \in Models : Toggle(m) \/ AskReload(m) \/ Delete(m)
  \/ \E m \in Models : \E c \in Offered[m] : Create(m, c) \/ Save(m, c) \/ Apply(m, c)
  \/ Reconcile \/ Pause \/ Resume \/ Reset

Serving ==
  \/ ApplyRelease \/ ApplyCheck \/ ReloadRelease \/ ReloadRegister \/ DeleteRow
  \/ ReconcileDrop \/ ReconcileLoad \/ ReconcileEnd \/ ResetInit \/ ResetDone
  \/ \E id \in Ids : ResetStop(id)

Sweeping ==
  \/ SweepBegin \/ SweepLook \/ SweepUnreachable \/ SweepRegister
  \/ \E m \in Models : SweepPass(m) \/ SweepRelease(m)

Ticking == \E id \in Ids : Step(id)

\* The engine side of m is what a request left there, unless the row was
\* saved without apply (or applied as disabled), or a sweep was under way.
\* Nothing is registered of a model that had no row.
NextDrift ==
  LET clean == req.pc = "load" /\ req'.pc = "idle" /\ req.clean
      saved == {m \in Models : db[m] # NoConfig /\ db'[m] # db[m]}
      rebuilt == IF req'.pc \in {"begin", "release", "deleting"} \/ req.pc = "deleting"
                 THEN {req'.m, req.m} ELSE {}
      overlap == IF req'.pc = "idle" \/ sweep'.pc = "idle" THEN {}
                 ELSE IF req'.pc \in {"drop", "load"} THEN Models ELSE {req'.m} \cap Models
  IN drift' = ((IF clean THEN {} ELSE drift) \cup (saved \ rebuilt)
                 \cup (IF req.pc = "check" /\ req'.pc = "idle" /\ ~req.cfg.enabled
                       THEN {req.m} ELSE {})
                 \cup overlap)

Next ==
  /\ Request \/ Serving \/ Sweeping \/ Ticking
  /\ NextDrift

Spec == Init /\ [][Next]_vars

\* The sweep is a loop of its own thread; health() answers now and then.
FairSpec ==
  /\ Spec
  /\ WF_vars(SweepBegin /\ NextDrift) /\ WF_vars(SweepRegister /\ NextDrift)
  /\ SF_vars(SweepLook /\ NextDrift)
  /\ WF_vars((\E m \in Models : SweepPass(m) \/ SweepRelease(m)) /\ NextDrift)

---------------------------------------------------------------------------
\* Every variable has its type; no model is tried more often than the breaker
\* allows.
TypeOK ==
  /\ db \in [Models -> Config \cup {NoConfig}]
  /\ reg \in [Ids -> Provider \cup {Absent}]
  /\ owner \in [Points -> Ids \cup {None}]
  /\ clock \in {"running", "paused", "stopped"}
  /\ fails \in [Models -> 0 .. MaxFailures]

\* _point_output_owner and the providers' own output sets say the same, also
\* after a replacement that failed half way and whoever unregistered last: no
\* point is written by two providers and none stays claimed by a removed one.
OwnershipAgrees ==
  \A p \in Points, id \in Ids :
    owner[p] = id <=> Registered(id) /\ p \in reg[id].outs

\* Between requests, whatever is registered is an enabled row, under that
\* row's key and with its outputs, except for models whose row was saved
\* without apply or whose request overlapped a sweep (drift).  So an edit, a
\* delete, a disable and a reconcile each leave nothing old behind.
RegisteredIsConfigured ==
  req.pc = "idle" =>
    \A id \in RegisteredIds :
       id[2] \notin drift =>
         /\ db[id[2]].enabled /\ IdOf(id[2], db[id[2]]) = id
         /\ db[id[2]].outs = reg[id].outs

\* What the API accepted can be registered: a request that comes to register
\* a model finds its points free, unless a model that drifted holds them.
ConflictMeansDrift ==
  req.pc = "register" =>
    \A p \in req.cfg.outs :
      owner[p] # None => owner[p] = IdOf(req.m, req.cfg) \/ owner[p][2] \in drift

Calm(m, c) ==
  req.pc = "idle" /\ clock = "running" /\ c.enabled /\ db[m] = c /\ fails[m] < MaxFailures

\* The self-healing sweep: while nobody edits, the clock runs and the breaker
\* of a model is closed, an enabled model is found registered, running and
\* without an HTTP error again and again, whatever the runtime forgets.
Heals ==
  \A m \in Models : \A c \in Offered[m] :
    <>[]Calm(m, c) => []<>Healthy(IdOf(m, c))
=============================================================================
