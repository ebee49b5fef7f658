--------------------------- MODULE MappingContract ---------------------------
(***************************************************************************)
(* The configuration of simulation models: what api/routers/simulation.py  *)
(* accepts, and what simulation/models/store.py stores.  A request is      *)
(* judged on the event loop against the rows there are then; it is stored  *)
(* by a worker thread, after an await, where only SQLite's constraints     *)
(* still look at it.  The provider is "fmu" throughout: an "ai" payload    *)
(* skips the contract.  The runtime side of the routes is Providers.       *)
(***************************************************************************)
EXTENDS Integers, FiniteSets, FiniteSetsExt

CONSTANTS
  MaxModels,       \* bound on the models created
  Requests,        \* names of requests under way at the same time
  InputVariables,  \* inputs the FMU declares
  OutputVariables, \* outputs it declares
  RequiredInputs,  \* required inputs; every declared output is optional here
  AnalogPoints,    \* points of simulated devices
  OtherPoints,     \* binary points of simulated devices
  ExternalPoints,  \* points of external devices
  Payloads,        \* bodies that callers send
  NoMappingRequest, NoModel,
  MaxSaves         \* bound on stored requests, toggles and deletions

ASSUME ContractAssumption ==
  /\ RequiredInputs \subseteq InputVariables /\ MaxModels \in Nat /\ MaxSaves \in Nat
  /\ NoMappingRequest # NoModel

\* A payload: `mappings` is a set of [variable, direction, point], `aggregates`
\* of [variable, points, weights], `exposures` of [variable, point]; `sources`
\* maps inputs to "constant", "point" or "aggregate".
IsPayload(body) ==
  body = [mappings |-> body.mappings, aggregates |-> body.aggregates, exposures |-> body.exposures,
          sources |-> body.sources, enabled |-> body.enabled]
ASSUME PayloadsAssumption == \A body \in Payloads : IsPayload(body)

ModelIds == 1..MaxModels

VARIABLES
  saved,        \* by id: the configuration, or NoModel
  created,      \* the highest id ever given
  existing,     \* points that exist
  judged,       \* by request: what was accepted and waits for its thread
  savedAt,      \* history: the number of the save that stored each model
  mappingRaced, \* history: a save was stored while another waited
  saves

mcVars == <<saved, created, existing, judged, savedAt, mappingRaced, saves>>

MappablePoints == AnalogPoints \cup OtherPoints \cup ExternalPoints

ContractInit ==
  /\ saved = [i \in ModelIds |-> NoModel]
  /\ created = 0
  /\ existing = MappablePoints
  /\ judged = [r \in Requests |-> NoMappingRequest]
  /\ savedAt = [i \in ModelIds |-> 0]
  /\ mappingRaced = FALSE
  /\ saves = 0

---------------------------------------------------------------------------
(* What is judged.                                                         *)

\* _normalized_parameters: an input without a source takes the one its
\* mappings suggest.
SourceFor(body, v) ==
  IF v \in DOMAIN body.sources THEN body.sources[v]
  ELSE IF \E a \in body.aggregates : a.variable = v THEN "aggregate"
  ELSE IF \E x \in body.mappings : x.variable = v /\ x.direction = "input" THEN "point"
  ELSE "constant"

\* _mapping_dicts, _aggregate_mapping_dicts, _input_exposure_dicts: the rows to
\* store; one that the source of its input overrides is left out.
Effective(body) ==
  [body EXCEPT
     !.mappings = {x \in @ : x.direction = "output" \/ x.variable \notin InputVariables
                               \/ SourceFor(body, x.variable) = "point"},
     !.aggregates = {a \in @ : a.variable \in InputVariables
                                 /\ SourceFor(body, a.variable) = "aggregate"}]

OutputPoints(body) == {x.point : x \in {x \in body.mappings : x.direction = "output"}}
AggregatePoints(body) == UNION {a.points \cup a.weights : a \in body.aggregates}
InputPoints(body) ==
  {x.point : x \in {x \in body.mappings : x.direction = "input"}} \cup AggregatePoints(body)
ExposedPoints(body) == {e.point : e \in body.exposures}

Inputs(rows) == {x.variable : x \in {x \in rows : x.direction = "input"}}
Apart(rows, Key(_)) == \A x, y \in rows : Key(x) = Key(y) => x = y

\* get_explicit_output_owner and get_explicit_exposure_owner, of another model.
OtherBindings(i) == {j \in ModelIds \ {i} : saved[j] # NoModel}
OwnedOutputs(i) == UNION {OutputPoints(saved[j]) : j \in OtherBindings(i)}
OwnedExposures(i) == UNION {ExposedPoints(saved[j]) : j \in OtherBindings(i)}

\* Inputs that need no mapping: those with a default.
Defaulted(body) == {v \in InputVariables : SourceFor(body, v) = "constant"}

NoSelfLoop(body) == InputPoints(body) \cap OutputPoints(body) = {}

\* Mutant: an exposure is checked against other exposures alone.
ExposuresFreeOfExposures(body, i) ==
  /\ Apart(body.exposures, LAMBDA e : e.variable) /\ Apart(body.exposures, LAMBDA e : e.point)
  /\ ExposedPoints(body) \subseteq existing \cap AnalogPoints
  /\ ExposedPoints(body) \cap OwnedExposures(i) = {}

ExposuresFree(body, i) ==
  /\ {e.variable : e \in body.exposures} \subseteq InputVariables
  /\ Apart(body.exposures, LAMBDA e : e.variable) /\ Apart(body.exposures, LAMBDA e : e.point)
  /\ ExposedPoints(body) \subseteq existing \cap AnalogPoints
  /\ ExposedPoints(body) \cap (OutputPoints(body) \cup OwnedOutputs(i) \cup OwnedExposures(i)) = {}

MappingsFree(body, i) ==
  /\ {x.variable : x \in {x \in body.mappings : x.direction = "output"}} \subseteq OutputVariables
  /\ Inputs(body.mappings) \subseteq InputVariables
  /\ Apart(body.mappings, LAMBDA x : <<x.variable, x.direction>>)
  /\ {x.point : x \in body.mappings} \subseteq existing \ ExternalPoints
  /\ OutputPoints(body) \cap OwnedOutputs(i) = {}

\* _validate_aggregate_source_point, of every value point and weight.
AggregatesFree(body) ==
  /\ Apart(body.aggregates, LAMBDA a : a.variable)
  /\ Inputs(body.mappings) \cap {a.variable : a \in body.aggregates} = {}
  /\ AggregatePoints(body) \subseteq existing \cap AnalogPoints

\* _validate_mapping_contract.  An output is not checked against exposures.
Accepted(sent, i) ==
  LET body == Effective(sent)
  IN /\ Inputs(sent.mappings) \cap {a.variable : a \in sent.aggregates} = {}
     /\ NoSelfLoop(body)
     /\ MappingsFree(body, i) /\ AggregatesFree(body) /\ ExposuresFree(body, i)
     /\ body.enabled => RequiredInputs \ Defaulted(sent) \subseteq
                          Inputs(body.mappings) \cup {a.variable : a \in body.aggregates}

---------------------------------------------------------------------------
CountSave == saves < MaxSaves /\ saves' = saves + 1

\* POST /simulation/models (id 0) and PUT /simulation/models/{id}, up to the
\* thread.
Judge(r, i, body) ==
  /\ judged[r] = NoMappingRequest /\ saves < MaxSaves
  /\ IF i = 0 THEN created < MaxModels ELSE saved[i] # NoModel
  /\ Accepted(body, i)
  /\ judged' = [judged EXCEPT ![r] = [id |-> i, body |-> Effective(body)]]
  /\ UNCHANGED <<saved, created, existing, savedAt, mappingRaced, saves>>

\* The unique indexes and the foreign keys, all that is checked when the rows
\* are inserted: a request that breaks one is answered 409, or 500.
Constraints(body, i) ==
  /\ Apart({x \in body.mappings : x.direction = "output"}, LAMBDA x : x.point)
  /\ OutputPoints(body) \cap OwnedOutputs(i) = {}
  /\ ExposedPoints(body) \cap OwnedExposures(i) = {}
  /\ OutputPoints(body) \cup InputPoints(body) \cup ExposedPoints(body) \subseteq existing

\* insert_simulation_model and update_simulation_model, one transaction: a
\* model that is gone by now is not stored again (404).
StoreModel(r) ==
  LET body == judged[r].body
      new == judged[r].id = 0
      i == IF new THEN created + 1 ELSE judged[r].id
  IN /\ judged[r] # NoMappingRequest /\ CountSave
     /\ IF i \in ModelIds /\ (new \/ saved[i] # NoModel) /\ Constraints(body, i)
        THEN /\ saved' = [saved EXCEPT ![i] = body]
             /\ created' = IF new THEN i ELSE created
             /\ savedAt' = [savedAt EXCEPT ![i] = saves + 1]
             /\ mappingRaced' = (mappingRaced \/ \E q \in Requests \ {r} : judged[q] # NoMappingRequest)
        ELSE UNCHANGED <<saved, created, savedAt, mappingRaced>>
     /\ judged' = [judged EXCEPT ![r] = NoMappingRequest]
     /\ UNCHANGED existing

\* PUT /simulation/models/{id}/enabled: the contract is not looked at.
ToggleModel(i) ==
  /\ saved[i] # NoModel /\ CountSave
  /\ saved' = [saved EXCEPT ![i].enabled = ~@]
  /\ UNCHANGED <<created, existing, judged, savedAt, mappingRaced>>

DeleteModel(i) ==
  /\ saved[i] # NoModel /\ CountSave
  /\ saved' = [saved EXCEPT ![i] = NoModel]
  /\ UNCHANGED <<created, existing, judged, savedAt, mappingRaced>>

\* Deleting a point takes its mappings and exposures along; a member of an
\* aggregate cannot be deleted.
DropPoint(p) ==
  LET rest(body) ==
        [body EXCEPT !.mappings = {x \in @ : x.point # p}, !.exposures = {e \in @ : e.point # p}]
  IN /\ p \in existing /\ CountSave
     /\ \A i \in ModelIds : saved[i] # NoModel => p \notin AggregatePoints(saved[i])
     /\ saved' = [i \in ModelIds |-> IF saved[i] = NoModel THEN NoModel ELSE rest(saved[i])]
     /\ existing' = existing \ {p}
     /\ UNCHANGED <<created, judged, savedAt, mappingRaced>>

ContractNext ==
  \/ \E r \in Requests, i \in 0..MaxModels, body \in Payloads : Judge(r, i, body)
  \/ \E r \in Requests : StoreModel(r)
  \/ \E i \in ModelIds : ToggleModel(i) \/ DeleteModel(i)
  \/ \E p \in MappablePoints : DropPoint(p)

ContractSpec == ContractInit /\ [][ContractNext]_mcVars

---------------------------------------------------------------------------
StoredBindings == {i \in ModelIds : saved[i] # NoModel}

\* "one writer per point": no two models have the same output or the same
\* exposure, and no model writes a point it reads or writes it twice.  Where a
\* point is an output of one model and an exposure of another, the exposure
\* was there first, or the two saves raced: the code checks an exposure
\* against outputs and not an output against exposures.
OneWriterPerPoint ==
  \A i \in StoredBindings :
    /\ InputPoints(saved[i]) \cap OutputPoints(saved[i]) = {}
    /\ ExposedPoints(saved[i]) \cap OutputPoints(saved[i]) = {}
    /\ \A j \in StoredBindings \ {i} :
         /\ OutputPoints(saved[i]) \cap OutputPoints(saved[j]) = {}
         /\ ExposedPoints(saved[i]) \cap ExposedPoints(saved[j]) = {}
         /\ mappingRaced \/ savedAt[i] > savedAt[j]
              \/ OutputPoints(saved[i]) \cap ExposedPoints(saved[j]) = {}
=============================================================================
