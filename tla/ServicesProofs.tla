--------------------------- MODULE ServicesProofs ---------------------------
(***************************************************************************)
(* Proofs about services around the core, for all values of their          *)
(* constants: who may write a point (MappingContract), which value a       *)
(* Modbus block shows (Modbus), the numbers of trend records (TrendLog),   *)
(* what a capture counts and pairs (PacketCapture), what event reporting   *)
(* logs (AlarmReporting, which implements AlarmLog), and what comes back   *)
(* when a project is loaded (Projects).                                    *)
(***************************************************************************)
EXTENDS MappingContract, Modbus, TrendLog, PacketCapture, AlarmReporting, Projects, FiniteInduction,
        SequenceTheorems, TLAPS

---------------------------------------------------------------------------
(* MappingContract.  A request waits between its judgement and its thread; *)
(* what it was judged against may be gone by then, and the proof is about  *)
(* what is still known of it.                                              *)

\* No two points of a body meet that must not.
Coherent(body) ==
  /\ InputPoints(body) \cap OutputPoints(body) = {}
  /\ ExposedPoints(body) \cap OutputPoints(body) = {}

StillWaits(r) == judged[r] # NoMappingRequest

ContractTyped ==
  /\ saved = [i \in ModelIds |-> saved[i]]
  /\ \A i \in ModelIds : saved[i] # NoModel => IsPayload(saved[i])
  /\ judged = [r \in Requests |-> judged[r]]
  /\ \A r \in Requests : StillWaits(r) => judged[r].id \in 0..MaxModels /\ IsPayload(judged[r].body)
  /\ savedAt \in [ModelIds -> Nat] /\ saves \in Nat /\ created \in Nat /\ mappingRaced \in BOOLEAN
  /\ \A i \in ModelIds : savedAt[i] <= saves
  /\ \A i \in ModelIds : i > created => saved[i] = NoModel

\* What was accepted is coherent still, and its exposures meet no output
\* unless another save overtook it.
JudgedWell ==
  \A r \in Requests : StillWaits(r) =>
    /\ Coherent(judged[r].body)
    /\ mappingRaced \/ ExposedPoints(judged[r].body) \cap OwnedOutputs(judged[r].id) = {}

ContractInv == ContractTyped /\ JudgedWell /\ OneWriterPerPoint

\* The points of a model are no more than they were.
Less(new, old) ==
  /\ OutputPoints(new) \subseteq OutputPoints(old)
  /\ InputPoints(new) \subseteq InputPoints(old)
  /\ ExposedPoints(new) \subseteq ExposedPoints(old)

\* Rows that lose bindings, or go, break nothing.
LEMMA Shrinking ==
  ASSUME ContractInv, UNCHANGED <<created, judged, savedAt, mappingRaced>>,
         saved' = [i \in ModelIds |-> saved'[i]],
         saves' \in Nat, saves' >= saves,
         \A i \in ModelIds : saved'[i] # NoModel =>
           saved[i] # NoModel /\ IsPayload(saved'[i]) /\ Less(saved'[i], saved[i])
  PROVE  ContractInv'
<1>1. ContractTyped'
  BY DEF ContractInv, ContractTyped, StillWaits
<1>2. \A i : OwnedOutputs(i)' \subseteq OwnedOutputs(i)
  BY DEF OwnedOutputs, OtherBindings, Less
<1>3. JudgedWell'
  BY <1>2 DEF ContractInv, JudgedWell, StillWaits
<1>4. OneWriterPerPoint'
  <2> SUFFICES ASSUME NEW i \in ModelIds, saved'[i] # NoModel
      PROVE /\ Coherent(saved'[i])
            /\ \A j \in ModelIds \ {i} : saved'[j] # NoModel =>
                 /\ OutputPoints(saved'[i]) \cap OutputPoints(saved'[j]) = {}
                 /\ ExposedPoints(saved'[i]) \cap ExposedPoints(saved'[j]) = {}
                 /\ mappingRaced' \/ savedAt'[i] > savedAt'[j]
                      \/ OutputPoints(saved'[i]) \cap ExposedPoints(saved'[j]) = {}
    BY DEF OneWriterPerPoint, StoredBindings, Coherent
  <2>1. i \in StoredBindings /\ Less(saved'[i], saved[i])
    BY DEF StoredBindings
  <2>2. Coherent(saved'[i])
    BY <2>1 DEF ContractInv, OneWriterPerPoint, Less, Coherent
  <2>3. ASSUME NEW j \in ModelIds \ {i}, saved'[j] # NoModel
        PROVE  /\ OutputPoints(saved'[i]) \cap OutputPoints(saved'[j]) = {}
               /\ ExposedPoints(saved'[i]) \cap ExposedPoints(saved'[j]) = {}
               /\ mappingRaced' \/ savedAt'[i] > savedAt'[j]
                    \/ OutputPoints(saved'[i]) \cap ExposedPoints(saved'[j]) = {}
    <3>1. j \in StoredBindings \ {i} /\ Less(saved'[j], saved[j])
      BY <2>3 DEF StoredBindings
    <3> QED
      BY <2>1, <3>1 DEF ContractInv, OneWriterPerPoint, Less
  <2> QED
    BY <2>2, <2>3
<1> QED
  BY <1>1, <1>3, <1>4 DEF ContractInv

\* Switching a model on or off moves no binding.
LEMMA ToggleIsLess ==
  ASSUME NEW body, IsPayload(body), NEW on
  PROVE  IsPayload([body EXCEPT !.enabled = on]) /\ Less([body EXCEPT !.enabled = on], body)
<1> DEFINE new == [body EXCEPT !.enabled = on]
<1>1. /\ new.mappings = body.mappings /\ new.aggregates = body.aggregates
      /\ new.exposures = body.exposures /\ IsPayload(new)
  BY DEF IsPayload
<1> HIDE DEF new
<1>2. Less(new, body)
  BY <1>1 DEF Less, OutputPoints, InputPoints, AggregatePoints, ExposedPoints
<1> QED
  BY <1>1, <1>2 DEF new

\* A point that is deleted takes bindings along and adds none.
LEMMA DropIsLess ==
  ASSUME NEW body, IsPayload(body), NEW p, NEW new,
         new = [body EXCEPT !.mappings = {x \in @ : x.point # p}, !.exposures = {e \in @ : e.point # p}]
  PROVE  IsPayload(new) /\ Less(new, body)
<1>1. /\ new.mappings \subseteq body.mappings /\ new.aggregates = body.aggregates
      /\ new.exposures \subseteq body.exposures /\ IsPayload(new)
  BY DEF IsPayload
<1>2. Less(new, body)
  BY <1>1 DEF Less, OutputPoints, InputPoints, AggregatePoints, ExposedPoints
<1> QED
  BY <1>1, <1>2

\* The rows to store have the shape of a payload.
LEMMA EffectiveIsPayload ==
  ASSUME NEW body, IsPayload(body) PROVE IsPayload(Effective(body))
<1> DEFINE some == {x \in body.mappings : x.direction = "output" \/ x.variable \notin InputVariables
                                           \/ SourceFor(body, x.variable) = "point"}
           means == {a \in body.aggregates : a.variable \in InputVariables
                                           /\ SourceFor(body, a.variable) = "aggregate"}
<1>1. Effective(body) = [[body EXCEPT !.mappings = some] EXCEPT !.aggregates = means]
  BY DEF Effective, IsPayload
<1> HIDE DEF some, means
<1> QED
  BY <1>1 DEF IsPayload

\* A request that is judged waits with a body that met no output.
LEMMA JudgeKeeps ==
  ASSUME ContractInv, NEW r \in Requests, NEW i \in 0..MaxModels, NEW body \in Payloads, Judge(r, i, body)
  PROVE  ContractInv'
<1> DEFINE entry == [id |-> i, body |-> Effective(body)]
<1>1. /\ judged' = [judged EXCEPT ![r] = entry] /\ Accepted(body, i)
      /\ UNCHANGED <<saved, created, savedAt, mappingRaced, saves>>
  BY DEF Judge
<1>2. /\ judged'[r] = entry /\ \A q \in Requests \ {r} : judged'[q] = judged[q]
      /\ judged' = [q \in Requests |-> judged'[q]]
  BY <1>1 DEF ContractInv, ContractTyped
<1>3. IsPayload(entry.body) /\ entry.id \in 0..MaxModels /\ entry.id = i
  BY EffectiveIsPayload, PayloadsAssumption
<1>4. Coherent(entry.body) /\ ExposedPoints(entry.body) \cap OwnedOutputs(i) = {}
  BY <1>1 DEF Accepted, NoSelfLoop, ExposuresFree, Coherent
<1> HIDE DEF entry
<1>5. ContractTyped'
  BY <1>1, <1>2, <1>3 DEF ContractInv, ContractTyped, StillWaits
<1>6. JudgedWell'
  BY <1>1, <1>2, <1>3, <1>4 DEF ContractInv, JudgedWell, StillWaits, OwnedOutputs, OtherBindings
<1>7. OneWriterPerPoint'
  BY <1>1 DEF ContractInv, OneWriterPerPoint, StoredBindings
<1> QED
  BY <1>5, <1>6, <1>7 DEF ContractInv

\* What a stored body holds against the others is checked by the unique
\* indexes; what it was judged on counts when nobody else was waiting.
LEMMA StoreKeeps ==
  ASSUME ContractInv, NEW r \in Requests, StoreModel(r) PROVE ContractInv'
<1> DEFINE body == judged[r].body
           new == judged[r].id = 0
           i == IF new THEN created + 1 ELSE judged[r].id
           fits == i \in ModelIds /\ (new \/ saved[i] # NoModel) /\ Constraints(body, i)
<1>1. /\ StillWaits(r) /\ saves' = saves + 1
      /\ judged' = [judged EXCEPT ![r] = NoMappingRequest] /\ UNCHANGED existing
      /\ IF fits
         THEN /\ saved' = [saved EXCEPT ![i] = body]
              /\ created' = IF new THEN i ELSE created
              /\ savedAt' = [savedAt EXCEPT ![i] = saves + 1]
              /\ mappingRaced' = (mappingRaced \/ \E q \in Requests \ {r} : judged[q] # NoMappingRequest)
         ELSE UNCHANGED <<saved, created, savedAt, mappingRaced>>
  BY DEF StoreModel, CountSave, StillWaits
<1>2. /\ IsPayload(body) /\ Coherent(body) /\ judged[r].id \in 0..MaxModels /\ MaxModels \in Nat
      /\ mappingRaced \/ ExposedPoints(body) \cap OwnedOutputs(judged[r].id) = {}
  BY <1>1, ContractAssumption DEF ContractInv, ContractTyped, JudgedWell
<1>3. /\ \A q \in Requests : StillWaits(q)' => q # r /\ StillWaits(q) /\ judged'[q] = judged[q]
      /\ judged' = [q \in Requests |-> judged'[q]]
  BY <1>1 DEF ContractInv, ContractTyped, StillWaits
<1>4. CASE ~fits
  <2>1. UNCHANGED <<saved, created, savedAt, mappingRaced>>
    BY <1>1, <1>4
  <2>2. ContractTyped'
    BY <1>1, <1>3, <2>1 DEF ContractInv, ContractTyped
  <2>3. JudgedWell'
    BY <1>3, <2>1 DEF ContractInv, JudgedWell, OwnedOutputs, OtherBindings
  <2>4. OneWriterPerPoint'
    BY <2>1 DEF ContractInv, OneWriterPerPoint, StoredBindings
  <2> QED
    BY <2>2, <2>3, <2>4 DEF ContractInv
<1>5. CASE fits
  <2>1. /\ i \in ModelIds /\ Constraints(body, i)
        /\ saved' = [saved EXCEPT ![i] = body]
        /\ created' = IF new THEN i ELSE created
        /\ savedAt' = [savedAt EXCEPT ![i] = saves + 1]
        /\ mappingRaced' = (mappingRaced \/ \E q \in Requests \ {r} : StillWaits(q))
    BY <1>1, <1>5 DEF StillWaits
  <2>2. /\ saved'[i] = body /\ \A j \in ModelIds \ {i} : saved'[j] = saved[j]
        /\ saved' = [j \in ModelIds |-> saved'[j]]
        /\ savedAt'[i] = saves + 1 /\ \A j \in ModelIds \ {i} : savedAt'[j] = savedAt[j]
        /\ savedAt' \in [ModelIds -> Nat] /\ saves \in Nat
    BY <2>1 DEF ContractInv, ContractTyped
  <2>3. i \in Nat /\ created \in Nat /\ (new => i = created + 1) /\ (~new => i = judged[r].id)
    BY <2>1 DEF ModelIds, ContractInv, ContractTyped
  <2>4. ~mappingRaced' => ExposedPoints(body) \cap OwnedOutputs(i) = {}
    <3>1. OwnedOutputs(i) \subseteq OwnedOutputs(judged[r].id)
      <4>1. CASE new
        BY <2>3, <4>1 DEF OwnedOutputs, OtherBindings, ModelIds
      <4>2. CASE ~new
        BY <2>3, <4>2
      <4> QED
        BY <4>1, <4>2
    <3> QED
      BY <1>2, <2>1, <3>1
  <2>5. ~new => created' = created
    BY <2>1
  <2> HIDE DEF body, i, new, fits
  <2>6. ContractTyped'
    <3>1. \A j \in ModelIds : savedAt'[j] <= saves'
      BY <1>1, <2>2 DEF ContractInv, ContractTyped
    <3>2. \A j \in ModelIds : saved'[j] # NoModel => IsPayload(saved'[j])
      BY <1>2, <2>2 DEF ContractInv, ContractTyped
    <3>3. created' \in Nat /\ saves' \in Nat /\ mappingRaced' \in BOOLEAN
      BY <1>1, <2>1, <2>2, <2>3
    <3>4. \A j \in ModelIds : j > created' => saved'[j] = NoModel
      <4>1. CASE new
        BY <2>1, <2>2, <2>3, <4>1 DEF ContractInv, ContractTyped, ModelIds
      <4>2. CASE ~new
        <5>1. created' = created /\ saved[i] # NoModel
          BY <1>5, <2>5, <4>2 DEF fits
        <5> QED
          BY <2>1, <2>2, <2>3, <5>1 DEF ContractInv, ContractTyped, ModelIds
      <4> QED
        BY <4>1, <4>2
    <3>5. \A q \in Requests : StillWaits(q)' => judged'[q].id \in 0..MaxModels /\ IsPayload(judged'[q].body)
      BY <1>3 DEF ContractInv, ContractTyped
    <3> QED
      BY <1>3, <2>2, <3>1, <3>2, <3>3, <3>4, <3>5 DEF ContractTyped
  <2>7. JudgedWell'
    <3>1. ASSUME NEW q \in Requests, StillWaits(q)' PROVE Coherent(judged'[q].body) /\ mappingRaced'
      BY <1>3, <2>1, <3>1 DEF ContractInv, JudgedWell
    <3> QED
      BY <3>1 DEF JudgedWell
  <2>8. OneWriterPerPoint'
    <3> DEFINE Apart2(k, j) ==
          /\ OutputPoints(saved'[k]) \cap OutputPoints(saved'[j]) = {}
          /\ ExposedPoints(saved'[k]) \cap ExposedPoints(saved'[j]) = {}
          /\ mappingRaced' \/ savedAt'[k] > savedAt'[j]
               \/ OutputPoints(saved'[k]) \cap ExposedPoints(saved'[j]) = {}
    <3> SUFFICES ASSUME NEW k \in ModelIds, saved'[k] # NoModel
                 PROVE  /\ Coherent(saved'[k])
                        /\ \A j \in ModelIds \ {k} : saved'[j] # NoModel => Apart2(k, j)
      BY DEF OneWriterPerPoint, StoredBindings, Coherent
    <3>1. Coherent(saved'[k])
      BY <1>2, <2>2 DEF ContractInv, OneWriterPerPoint, StoredBindings, Coherent
    <3>2. \A j \in ModelIds \ {i} : saved[j] # NoModel =>
            /\ OutputPoints(body) \cap OutputPoints(saved[j]) = {}
            /\ ExposedPoints(body) \cap ExposedPoints(saved[j]) = {}
            /\ ~mappingRaced' => ExposedPoints(body) \cap OutputPoints(saved[j]) = {}
      BY <2>1, <2>4 DEF Constraints, OwnedOutputs, OwnedExposures, OtherBindings
    <3>3. ASSUME NEW j \in ModelIds \ {k}, saved'[j] # NoModel PROVE Apart2(k, j)
      <4>1. CASE k = i
        <5>1. savedAt'[k] > savedAt'[j]
          BY <2>2, <3>3, <4>1 DEF ContractInv, ContractTyped
        <5> QED
          BY <2>2, <3>2, <3>3, <4>1, <5>1
      <4>2. CASE j = i
        BY <2>2, <3>2, <3>3, <4>2
      <4>3. CASE k # i /\ j # i
        <5>1. /\ saved'[k] = saved[k] /\ saved'[j] = saved[j] /\ k \in StoredBindings
              /\ j \in StoredBindings \ {k} /\ savedAt'[k] = savedAt[k] /\ savedAt'[j] = savedAt[j]
              /\ mappingRaced => mappingRaced'
          BY <2>1, <2>2, <3>3, <4>3 DEF StoredBindings
        <5> QED
          BY <5>1 DEF ContractInv, OneWriterPerPoint
      <4> QED
        BY <4>1, <4>2, <4>3
    <3> QED
      BY <3>1, <3>3
  <2> QED
    BY <2>6, <2>7, <2>8 DEF ContractInv
<1> QED
  BY <1>4, <1>5

\* "One writer per point", for any models, points and payloads, and any number
\* of requests that wait at once: with the asymmetry between outputs and
\* exposures that the code has, and the race it does not close.
THEOREM OneWriter == ContractSpec => []OneWriterPerPoint
<1>1. ContractInit => ContractInv
  <2> SUFFICES ASSUME ContractInit PROVE ContractInv
    OBVIOUS
  <2>1. /\ \A i \in ModelIds : saved[i] = NoModel /\ savedAt[i] = 0
        /\ \A r \in Requests : ~StillWaits(r)
    BY DEF ContractInit, StillWaits
  <2>2. saved = [i \in ModelIds |-> saved[i]] /\ judged = [r \in Requests |-> judged[r]]
    BY DEF ContractInit
  <2>3. savedAt \in [ModelIds -> Nat] /\ saves = 0 /\ created = 0 /\ mappingRaced = FALSE
    BY DEF ContractInit
  <2>4. /\ \A i \in ModelIds : saved[i] # NoModel => IsPayload(saved[i])
        /\ \A r \in Requests : StillWaits(r) => judged[r].id \in 0..MaxModels /\ IsPayload(judged[r].body)
        /\ \A i \in ModelIds : i > created => saved[i] = NoModel
    BY <2>1
  <2>5. \A i \in ModelIds : savedAt[i] <= saves
    BY <2>1, <2>3
  <2>6. ContractTyped
    <3>1. saves \in Nat /\ created \in Nat
      BY <2>3
    <3>2. mappingRaced \in BOOLEAN
      BY <2>3
    <3> QED
      BY <2>2, <2>3, <2>4, <2>5, <3>1, <3>2 DEF ContractTyped
  <2>7. JudgedWell /\ OneWriterPerPoint
    BY <2>1 DEF JudgedWell, OneWriterPerPoint, StoredBindings
  <2> QED
    BY <2>6, <2>7 DEF ContractInv
<1>2. ContractInv /\ [ContractNext]_mcVars => ContractInv'
  <2> SUFFICES ASSUME ContractInv, [ContractNext]_mcVars PROVE ContractInv'
    OBVIOUS
  <2>0. saves \in Nat /\ saved = [i \in ModelIds |-> saved[i]]
        /\ \A i \in ModelIds : saved[i] # NoModel => IsPayload(saved[i])
    BY DEF ContractInv, ContractTyped
  <2>1. ASSUME NEW i \in ModelIds, ToggleModel(i) PROVE ContractInv'
    <3> DEFINE new == [saved[i] EXCEPT !.enabled = ~@]
    <3>1. /\ saved[i] # NoModel /\ saved' = [saved EXCEPT ![i] = new] /\ saves' = saves + 1
          /\ UNCHANGED <<created, judged, savedAt, mappingRaced>>
      BY <2>1 DEF ToggleModel, CountSave
    <3>2. IsPayload(new) /\ Less(new, saved[i])
      BY <2>0, <3>1, ToggleIsLess
    <3> HIDE DEF new
    <3>3. \A j \in ModelIds : saved'[j] = IF j = i THEN new ELSE saved[j]
      BY <2>0, <3>1
    <3>4. saved' = [j \in ModelIds |-> saved'[j]]
      BY <2>0, <3>1
    <3> QED
      BY <2>0, <3>1, <3>2, <3>3, <3>4, Shrinking DEF Less
  <2>2. ASSUME NEW i \in ModelIds, DeleteModel(i) PROVE ContractInv'
    <3>1. /\ saved' = [saved EXCEPT ![i] = NoModel] /\ saves' = saves + 1
          /\ UNCHANGED <<created, judged, savedAt, mappingRaced>>
      BY <2>2 DEF DeleteModel, CountSave
    <3>2. /\ \A j \in ModelIds : saved'[j] = IF j = i THEN NoModel ELSE saved[j]
          /\ saved' = [j \in ModelIds |-> saved'[j]]
      BY <2>0, <3>1
    <3> QED
      BY <2>0, <3>1, <3>2, Shrinking DEF Less
  <2>3. ASSUME NEW p \in MappablePoints, DropPoint(p) PROVE ContractInv'
    <3> DEFINE rest(body) ==
          [body EXCEPT !.mappings = {x \in @ : x.point # p}, !.exposures = {e \in @ : e.point # p}]
    <3>1. /\ saved' = [i \in ModelIds |-> IF saved[i] = NoModel THEN NoModel ELSE rest(saved[i])]
          /\ saves' = saves + 1 /\ UNCHANGED <<created, judged, savedAt, mappingRaced>>
      BY <2>3 DEF DropPoint, CountSave
    <3>2. \A i \in ModelIds : saved[i] # NoModel => IsPayload(rest(saved[i])) /\ Less(rest(saved[i]), saved[i])
      BY <2>0, DropIsLess
    <3> HIDE DEF rest
    <3>3. saved' = [i \in ModelIds |-> saved'[i]]
      BY <3>1
    <3> QED
      BY <2>0, <3>1, <3>2, <3>3, Shrinking
  <2>4. CASE UNCHANGED mcVars
    BY <2>4 DEF mcVars, ContractInv, ContractTyped, JudgedWell, OneWriterPerPoint, StoredBindings, StillWaits,
                OwnedOutputs, OtherBindings
  <2> QED
    BY <2>1, <2>2, <2>3, <2>4, JudgeKeeps, StoreKeeps DEF ContractNext
<1>3. ContractInv => OneWriterPerPoint
  BY DEF ContractInv
<1> QED
  BY <1>1, <1>2, <1>3, PTL DEF ContractSpec

---------------------------------------------------------------------------
(* Modbus.  A pass is two steps of the block's thread, and the tables may  *)
(* change between them: calm says that nothing did, so that the source the *)
(* pass has chosen is still the one to take.                               *)

WriteTyped == modbusWrite # NoValue => modbusWrite.block \in Blocks /\ modbusWrite.value \in ClientValues

TablesTyped ==
  /\ heldWrites \in [RegisterTypes -> ClientValues \cup {NoValue}]
  /\ overridden \in BOOLEAN /\ calm \in [Blocks -> BOOLEAN]
  /\ passing \in [Blocks -> {"rest", "held", "override", "profile"}]
  /\ answered = [b \in Blocks |-> answered[b]]
  /\ WriteTyped

\* A pass that is undisturbed still takes what it would choose now.
ChoiceHolds ==
  \A b \in Blocks : calm[b] /\ passing[b] # "rest" => passing[b] = SourceOf(TypeOf(b))

TablesInv == TablesTyped /\ ChoiceHolds /\ HeldWritesStay

\* A block that is disturbed has nothing to show; the others keep what they
\* show where neither their tables nor their passes change.
LEMMA DisturbingKeeps ==
  ASSUME TablesInv, NEW bs \in SUBSET Blocks, calm' = Disturbed(bs), TablesTyped',
         \A b \in Blocks \ bs : /\ UNCHANGED <<answered[b], passing[b], overridden>>
                                /\ UNCHANGED heldWrites[TypeOf(b)]
  PROVE  TablesInv'
<1>1. \A b \in Blocks : calm'[b] => b \notin bs /\ calm[b]
  BY DEF Disturbed
<1>2. ChoiceHolds' /\ HeldWritesStay'
  BY <1>1 DEF TablesInv, ChoiceHolds, HeldWritesStay, SourceOf
<1> QED
  BY <1>2 DEF TablesInv

\* The value a client wrote is re-asserted: for any units, types, profiles and
\* values, a block that finished an undisturbed pass shows the held write, or
\* else the override, or else the profile.
THEOREM HeldWritesKept == ModbusSpec => []HeldWritesStay
<1>1. ModbusInit => TablesInv
  <2> SUFFICES ASSUME ModbusInit PROVE TablesInv
    OBVIOUS
  <2>1. TablesTyped
    <3>1. heldWrites \in [RegisterTypes -> ClientValues \cup {NoValue}]
      BY DEF ModbusInit
    <3>2. calm \in [Blocks -> BOOLEAN] /\ passing \in [Blocks -> {"rest", "held", "override", "profile"}]
      BY DEF ModbusInit
    <3>3. overridden \in BOOLEAN
      BY DEF ModbusInit
    <3>4. answered = [b \in Blocks |-> answered[b]] /\ WriteTyped
      BY DEF ModbusInit, WriteTyped
    <3> QED
      BY <3>1, <3>2, <3>3, <3>4 DEF TablesTyped
  <2>2. \A b \in Blocks : ~calm[b]
    BY DEF ModbusInit
  <2> QED
    BY <2>1, <2>2 DEF TablesInv, ChoiceHolds, HeldWritesStay
<1>2. TablesInv /\ [ModbusNext]_mbVars => TablesInv'
  <2> SUFFICES ASSUME TablesInv, [ModbusNext]_mbVars PROVE TablesInv'
    OBVIOUS
  <2> \A b \in Blocks : TypeOf(b) \in RegisterTypes
    BY DEF Blocks, TypeOf
  <2> \A bs \in SUBSET Blocks : Disturbed(bs) \in [Blocks -> BOOLEAN]
    BY DEF TablesInv, TablesTyped, WriteTyped, Disturbed
  <2>1. ASSUME NEW b \in Blocks, BeginPass(b) PROVE TablesInv'
    <3>1. TablesTyped'
      BY <2>1 DEF BeginPass, TablesInv, TablesTyped, WriteTyped, SourceOf
    <3>2. ASSUME NEW c \in Blocks, c # b PROVE UNCHANGED <<calm[c], passing[c], answered, heldWrites, overridden>>
      BY <2>1, <3>2 DEF BeginPass, TablesInv, TablesTyped, WriteTyped
    <3>3. calm'[b] => passing'[b] = SourceOf(TypeOf(b)) /\ passing'[b] # "rest"
      BY <2>1 DEF BeginPass, TablesInv, TablesTyped, WriteTyped, SourceOf
    <3>4. UNCHANGED <<heldWrites, overridden>>
      BY <2>1 DEF BeginPass
    <3>5. ChoiceHolds'
      BY <3>2, <3>3, <3>4 DEF TablesInv, ChoiceHolds, SourceOf
    <3>6. HeldWritesStay'
      BY <3>2, <3>3, <3>4 DEF TablesInv, HeldWritesStay
    <3> QED
      BY <3>1, <3>5, <3>6 DEF TablesInv
  <2>2. ASSUME NEW b \in Blocks, EndPass(b) PROVE TablesInv'
    <3> DEFINE type == TypeOf(b)
               gone == \/ passing[b] = "held" /\ heldWrites[type] = NoValue
                       \/ passing[b] = "override" /\ ~overridden
               given == IF passing[b] = "held" THEN heldWrites[type] ELSE passing[b]
    <3>1. /\ passing[b] # "rest"
          /\ answered' = IF gone THEN answered ELSE [answered EXCEPT ![b] = given]
          /\ calm' = [calm EXCEPT ![b] = calm[b] /\ ~gone]
          /\ passing' = [passing EXCEPT ![b] = "rest"]
          /\ UNCHANGED <<heldWrites, overridden, modbusWrite>>
      BY <2>2 DEF EndPass
    <3>2. calm'[b] => calm[b] /\ ~gone
      BY <3>1 DEF TablesInv, TablesTyped, WriteTyped
    <3>3. answered' = [c \in Blocks |-> IF c = b /\ ~gone THEN given ELSE answered[c]]
      BY <3>1 DEF TablesInv, TablesTyped, WriteTyped
    <3>4. calm' \in [Blocks -> BOOLEAN]
      <4>1. (calm[b] /\ ~gone) \in BOOLEAN
        OBVIOUS
      <4> HIDE DEF gone
      <4> QED
        BY <3>1, <4>1 DEF TablesInv, TablesTyped, WriteTyped
    <3>5. TablesTyped'
      BY <3>1, <3>3, <3>4 DEF TablesInv, TablesTyped, WriteTyped
    <3>6. ASSUME NEW c \in Blocks, c # b PROVE UNCHANGED <<calm[c], passing[c], answered[c]>>
      BY <3>1, <3>3, <3>6 DEF TablesInv, TablesTyped, WriteTyped
    <3>7. passing'[b] = "rest"
      BY <3>1 DEF TablesInv, TablesTyped, WriteTyped
    <3>8. ASSUME calm'[b]
          PROVE  answered'[b] = IF heldWrites[type] # NoValue THEN heldWrites[type]
                                ELSE IF overridden THEN "override" ELSE "profile"
      <4>1. passing[b] = SourceOf(type) /\ answered'[b] = given
        BY <3>1, <3>2, <3>3, <3>8 DEF TablesInv, ChoiceHolds
      <4> QED
        BY <4>1 DEF SourceOf
    <3> HIDE DEF type
    <3>9. ChoiceHolds'
      BY <3>1, <3>6, <3>7 DEF TablesInv, ChoiceHolds, SourceOf
    <3>10. HeldWritesStay'
      BY <3>1, <3>6, <3>8 DEF TablesInv, HeldWritesStay, type
    <3> QED
      BY <3>5, <3>9, <3>10 DEF TablesInv
  <2>3. ASSUME NEW b \in Blocks, NEW v \in ClientValues, WriteBlock(b, v) PROVE TablesInv'
    <3>1. TablesTyped'
      BY <2>3 DEF WriteBlock, TablesInv, TablesTyped, WriteTyped
    <3>2. \A c \in Blocks \ {b} : UNCHANGED <<answered[c], passing[c], overridden>>
      BY <2>3 DEF WriteBlock, TablesInv, TablesTyped, WriteTyped
    <3> QED
      BY <2>3, <3>1, <3>2, DisturbingKeeps DEF WriteBlock
  <2>4. ASSUME HoldWrite PROVE TablesInv'
    <3> DEFINE bs == BlocksOf(TypeOf(modbusWrite.block))
    <3>1. modbusWrite.block \in Blocks /\ modbusWrite.value \in ClientValues
      BY <2>4 DEF HoldWrite, TablesInv, TablesTyped, WriteTyped
    <3>2. bs \in SUBSET Blocks
      BY DEF BlocksOf
    <3>3. heldWrites' \in [RegisterTypes -> ClientValues \cup {NoValue}]
      BY <2>4, <3>1 DEF HoldWrite, TablesInv, TablesTyped, WriteTyped
    <3>4. TablesTyped'
      <4>1. calm' \in [Blocks -> BOOLEAN]
        BY <2>4, <3>2 DEF HoldWrite
      <4>2. modbusWrite' = NoValue /\ UNCHANGED <<overridden, answered, passing>>
        BY <2>4 DEF HoldWrite
      <4>3. WriteTyped'
        BY <4>2 DEF WriteTyped
      <4> QED
        BY <3>3, <4>1, <4>2, <4>3 DEF TablesInv, TablesTyped
    <3>5. \A c \in Blocks \ bs : UNCHANGED heldWrites[TypeOf(c)]
      BY <2>4 DEF HoldWrite, BlocksOf, TablesInv, TablesTyped, WriteTyped
    <3>6. UNCHANGED <<answered, passing, overridden>> /\ calm' = Disturbed(bs)
      BY <2>4 DEF HoldWrite
    <3> HIDE DEF bs
    <3> QED
      BY <3>2, <3>4, <3>5, <3>6, DisturbingKeeps
  <2>5. ASSUME ClearOverrides PROVE TablesInv'
    <3>1. TablesTyped' /\ calm' = Disturbed(Blocks)
      BY <2>5 DEF ClearOverrides, TablesInv, TablesTyped, WriteTyped
    <3> QED
      BY <3>1, DisturbingKeeps
  <2>6. ASSUME NEW on \in BOOLEAN, SetOverride(on) PROVE TablesInv'
    <3>1. TablesTyped' /\ calm' = Disturbed(Blocks)
      BY <2>6 DEF SetOverride, TablesInv, TablesTyped, WriteTyped
    <3> QED
      BY <3>1, DisturbingKeeps
  <2>7. ASSUME NEW p \in Profiles, NEW keep \in BOOLEAN, SwitchProfile(p, keep) PROVE TablesInv'
    <3>1. TablesTyped' /\ calm' = Disturbed(Blocks)
      BY <2>7 DEF SwitchProfile, TablesInv, TablesTyped, WriteTyped
    <3> QED
      BY <3>1, DisturbingKeeps
  <2>8. ASSUME NEW u \in Units, NEW off \in BOOLEAN, SetUnitDisabled(u, off) PROVE TablesInv'
    BY <2>8 DEF SetUnitDisabled, TablesInv, TablesTyped, WriteTyped, ChoiceHolds, HeldWritesStay, SourceOf
  <2>9. CASE UNCHANGED mbVars
    BY <2>9 DEF mbVars, TablesInv, TablesTyped, WriteTyped, ChoiceHolds, HeldWritesStay, SourceOf
  <2> QED
    BY <2>1, <2>2, <2>3, <2>4, <2>5, <2>6, <2>7, <2>8, <2>9 DEF ModbusNext
<1>3. TablesInv => HeldWritesStay
  BY DEF TablesInv
<1> QED
  BY <1>1, <1>2, <1>3, PTL DEF ModbusSpec

---------------------------------------------------------------------------
(* Trend logs.  The proof carries the order of all pairs of records, not   *)
(* of neighbours alone, and says of a row that was read that it is the row *)
(* there still is, unless calls overlapped.                                *)

Sorted(s) == \A i, j \in 1..Len(s) : i < j => s[i] < s[j]

LogRows == [size : BufferSizes, stop : BOOLEAN, count : Nat, total : Nat]

RowsTyped ==
  /\ log \in LogRows
  /\ taking = [w \in LogWriters |-> taking[w]]
  /\ \A w \in LogWriters : taking[w] # NoLog => taking[w] \in LogRows

RecordsTold ==
  /\ records \in Seq(Nat) /\ Sorted(records) /\ log.count = Len(records)
  /\ \A i \in 1..Len(records) : records[i] <= log.total

ReadIsFresh ==
  \A w \in LogWriters : taking[w] # NoLog => taking[w].count = log.count /\ taking[w].total = log.total

TrendInv == RowsTyped /\ (~overlapped => RecordsTold /\ ReadIsFresh)

\* Dropping the lowest of sorted records drops the first.
LEMMA DropsFirst ==
  ASSUME NEW s \in Seq(Nat), Sorted(s), s # <<>>
  PROVE  RemoveFirst(s, Min(ToSet(s))) = Tail(s)
<1>1. Len(s) \in Nat /\ Len(s) >= 1 /\ \A i \in 1..Len(s) : s[i] \in Nat
  BY DEF Sorted
<1>2. Min(ToSet(s)) = s[1]
  <2>1. s[1] \in ToSet(s) /\ \A y \in ToSet(s) : s[1] <= y /\ y \in Nat
    BY <1>1 DEF ToSet, Sorted
  <2> QED
    BY <2>1 DEF Min
<1>3. {i \in 1..Len(s) : s[i] = s[1]} = {1}
  BY <1>1 DEF Sorted
<1>4. Min({1}) = 1
  BY DEF Min
<1>5. SelectInSeq(s, LAMBDA v : v = s[1]) = 1
  BY <1>3, <1>4 DEF SelectInSeq
<1>6. RemoveFirst(s, s[1]) = RemoveAt(s, 1)
  BY <1>1, <1>5 DEF RemoveFirst
<1>7. RemoveAt(s, 1) = Tail(s)
  BY <1>1 DEF RemoveAt
<1> QED
  BY <1>2, <1>6, <1>7

\* A number above all others keeps the records sorted.
LEMMA StoreSorted ==
  ASSUME NEW s \in Seq(Nat), Sorted(s), NEW t \in Nat, \A i \in 1..Len(s) : s[i] <= t
  PROVE  /\ Append(s, t + 1) \in Seq(Nat) /\ Sorted(Append(s, t + 1))
         /\ Len(Append(s, t + 1)) = Len(s) + 1
         /\ \A i \in 1..Len(s) + 1 : Append(s, t + 1)[i] <= t + 1
<1> DEFINE new == Append(s, t + 1)
<1>1. new \in Seq(Nat) /\ Len(new) = Len(s) + 1 /\ Len(s) \in Nat
  OBVIOUS
<1>2. new[Len(s) + 1] = t + 1 /\ \A i \in 1..Len(s) : new[i] = s[i] /\ s[i] \in Nat
  BY AppendProperties
<1> HIDE DEF new
<1> DEFINE n == Len(s)
<1>3. n \in Nat /\ \A i \in 1..n + 1 : i \in 1..n \/ i = n + 1
  BY <1>1
<1>4. \A i \in 1..n : s[i] <= t /\ s[i] \in Nat
  BY <1>2
<1>5. \A i, j \in 1..n : i < j => s[i] < s[j]
  BY DEF Sorted
<1>6. Len(new) = n + 1 /\ new[n + 1] = t + 1 /\ \A i \in 1..n : new[i] = s[i]
  BY <1>1, <1>2
<1> HIDE DEF n
<1>7. \A i \in 1..n + 1 : new[i] <= t + 1
  <2> TAKE i \in 1..n + 1
  <2>1. CASE i = n + 1
    BY <2>1, <1>6
  <2>2. CASE i \in 1..n
    BY <2>2, <1>6, <1>4
  <2> QED
    BY <2>1, <2>2, <1>3
<1>8. Sorted(new)
  <2> SUFFICES ASSUME NEW i \in 1..n + 1, NEW j \in 1..n + 1, i < j PROVE new[i] < new[j]
    BY <1>6 DEF Sorted
  <2>1. i \in 1..n
    BY <1>3
  <2>2. CASE j = n + 1
    BY <2>1, <2>2, <1>6, <1>4
  <2>3. CASE j \in 1..n
    BY <2>1, <2>3, <1>6, <1>5
  <2> QED
    BY <2>2, <2>3, <1>3
<1> QED
  BY <1>1, <1>7, <1>8 DEF new, n

\* Without their first they stay sorted.
LEMMA TailSorted ==
  ASSUME NEW s \in Seq(Nat), Sorted(s), s # <<>>, NEW t \in Nat, \A i \in 1..Len(s) : s[i] <= t
  PROVE  /\ Tail(s) \in Seq(Nat) /\ Sorted(Tail(s)) /\ Len(Tail(s)) = Len(s) - 1
         /\ \A i \in 1..Len(Tail(s)) : Tail(s)[i] <= t
  BY DEF Sorted


\* Sequence numbers never repeat and record_count is the number of records,
\* for any writers, sizes and edits, as long as no two calls overlapped: a
\* full log drops its oldest record, also one whose size was changed since.
THEOREM NumbersFresh == TrendSpec => []SequenceNeverReused
<1>1. TrendInit => TrendInv
  <2> SUFFICES ASSUME TrendInit PROVE TrendInv
    OBVIOUS
  <2>1. RowsTyped
    BY DEF TrendInit, RowsTyped, LogRows
  <2>2. RecordsTold /\ ReadIsFresh
    BY DEF TrendInit, RecordsTold, ReadIsFresh, Sorted
  <2> QED
    BY <2>1, <2>2 DEF TrendInv
<1>2. TrendInv /\ [TrendNext]_tlVars => TrendInv'
  <2> SUFFICES ASSUME TrendInv, [TrendNext]_tlVars PROVE TrendInv'
    OBVIOUS
  <2> USE DEF TrendInv
  <2>1. ASSUME NEW w \in LogWriters, TakeSample(w) PROVE TrendInv'
    BY <2>1 DEF TakeSample, RowsTyped, RecordsTold, ReadIsFresh, Sorted
  <2>2. ASSUME NEW w \in LogWriters, StoreRecord(w) PROVE TrendInv'
    <3> DEFINE cfg == taking[w]
               full == cfg.count >= cfg.size
               rest == IF full THEN WithoutLowest ELSE records
    <3>1. /\ cfg # NoLog /\ cfg \in LogRows
          /\ records' = Append(rest, cfg.total + 1)
          /\ log' = [log EXCEPT !.count = IF full THEN cfg.count ELSE cfg.count + 1, !.total = cfg.total + 1]
          /\ taking' = [taking EXCEPT ![w] = NoLog]
      BY <2>2 DEF StoreRecord, RowsTyped
    <3>2. RowsTyped'
      <4> DEFINE count == IF full THEN cfg.count ELSE cfg.count + 1
      <4>0. count \in Nat /\ cfg.total + 1 \in Nat
        BY <3>1 DEF LogRows
      <4>1. log' \in LogRows
        <5>1. log' = [log EXCEPT !.count = count, !.total = cfg.total + 1]
          BY <3>1
        <5> HIDE DEF count
        <5> QED
          BY <4>0, <5>1 DEF RowsTyped, LogRows
      <4>2. taking' = [v \in LogWriters |-> IF v = w THEN NoLog ELSE taking[v]]
        BY <3>1 DEF RowsTyped
      <4>3. /\ taking' = [v \in LogWriters |-> taking'[v]]
            /\ \A v \in LogWriters : taking'[v] # NoLog => taking'[v] \in LogRows
        BY <4>2 DEF RowsTyped
      <4> QED
        BY <4>1, <4>3 DEF RowsTyped
    <3>3. ASSUME ~overlapped' PROVE RecordsTold' /\ ReadIsFresh'
      <4>1. ~overlapped /\ \A v \in LogWriters \ {w} : taking[v] = NoLog
        BY <2>2, <3>3 DEF StoreRecord
      <4>2. RecordsTold /\ cfg.count = Len(records) /\ cfg.total = log.total
        BY <3>1, <4>1 DEF RecordsTold, ReadIsFresh
      <4>3. log.total \in Nat /\ cfg.size \in Nat \ {0} /\ Len(records) \in Nat
        BY <3>1, <4>2, TrendAssumption DEF RowsTyped, LogRows, RecordsTold
      <4>4. /\ rest \in Seq(Nat) /\ Sorted(rest) /\ \A i \in 1..Len(rest) : rest[i] <= log.total
            /\ Len(rest) + 1 = IF full THEN cfg.count ELSE cfg.count + 1
        <5>1. CASE full
          <6>1. records # <<>>
            BY <4>2, <4>3, <5>1
          <6>2. rest = Tail(records)
            BY <4>2, <5>1, <6>1, DropsFirst DEF RecordsTold, WithoutLowest, Lowest
          <6>3. /\ Tail(records) \in Seq(Nat) /\ Sorted(Tail(records)) /\ Len(Tail(records)) = Len(records) - 1
                /\ \A i \in 1..Len(Tail(records)) : Tail(records)[i] <= log.total
            BY <4>2, <4>3, <6>1, TailSorted DEF RecordsTold
          <6>4. Len(rest) = Len(records) - 1 /\ cfg.count = Len(records) /\ Len(records) \in Nat
            BY <4>2, <4>3, <6>2, <6>3
          <6>5. Len(rest) + 1 = cfg.count
            <7> HIDE DEF rest, full, cfg
            <7> QED
              BY <6>4
          <6>6. rest \in Seq(Nat) /\ Sorted(rest) /\ \A i \in 1..Len(rest) : rest[i] <= log.total
            <7> HIDE DEF rest, full, cfg
            <7> QED
              BY <6>2, <6>3
          <6> HIDE DEF rest, full, cfg
          <6> QED
            BY <5>1, <6>5, <6>6
        <5>2. CASE ~full
          BY <4>2, <4>3, <5>2 DEF RecordsTold
        <5> QED
          BY <5>1, <5>2
      <4> HIDE DEF rest, full
      <4>5. log'.total = log.total + 1 /\ log'.count = Len(rest) + 1 /\ records' = Append(rest, log.total + 1)
        BY <3>1, <4>2, <4>4 DEF RowsTyped, LogRows
      <4>6. RecordsTold'
        BY <4>3, <4>4, <4>5, StoreSorted DEF RecordsTold
      <4>7. ReadIsFresh'
        BY <3>1, <4>1 DEF ReadIsFresh, RowsTyped
      <4> QED
        BY <4>6, <4>7
    <3> QED
      BY <3>2, <3>3
  <2>3. ASSUME NEW w \in LogWriters, ReadBack(w) \/ ShowCounts(w) PROVE TrendInv'
    BY <2>3 DEF ReadBack, ShowCounts, RowsTyped, RecordsTold, ReadIsFresh
  <2>4. ASSUME ClearRecords PROVE TrendInv'
    <3>1. RowsTyped'
      BY <2>4 DEF ClearRecords, RowsTyped, LogRows
    <3>2. ASSUME ~overlapped' PROVE RecordsTold' /\ ReadIsFresh'
      <4>1. \A w \in LogWriters : taking'[w] = NoLog
        BY <2>4, <3>2 DEF ClearRecords, SomeoneReads
      <4>2. records' = <<>> /\ log'.count = 0
        BY <2>4 DEF ClearRecords, RowsTyped, LogRows
      <4> QED
        BY <4>1, <4>2 DEF RecordsTold, ReadIsFresh, Sorted
    <3> QED
      BY <3>1, <3>2
  <2>5. ASSUME ShowEmpty \/ Rebuild PROVE TrendInv'
    BY <2>5 DEF ShowEmpty, Rebuild, RowsTyped, RecordsTold, ReadIsFresh
  <2>6. ASSUME NEW size \in BufferSizes, NEW stop \in BOOLEAN, UpdateLog(size, stop) PROVE TrendInv'
    BY <2>6 DEF UpdateLog, RowsTyped, LogRows, RecordsTold, ReadIsFresh
  <2>7. CASE UNCHANGED tlVars
    BY <2>7 DEF tlVars, RowsTyped, RecordsTold, ReadIsFresh
  <2> QED
    BY <2>1, <2>2, <2>3, <2>4, <2>5, <2>6, <2>7 DEF TrendNext
<1>3. TrendInv => SequenceNeverReused
  BY DEF TrendInv, SequenceNeverReused, RecordsTold, Increasing, Sorted
<1> QED
  BY <1>1, <1>2, <1>3, PTL DEF TrendSpec

---------------------------------------------------------------------------
(* PacketCapture: what the counters and the list of packets tell.          *)

Recorded == [id: Nat, session: Nat, stamp: Nat, direction: {"inbound", "outbound"}, peer: Peers,
             payload: Payload, answers: Nat \cup {Absent}]

CaptureType ==
  /\ capture \in [running: BOOLEAN, session: Nat, began: Nat, ended: Nat]
  /\ counters \in [seen: Nat, dropped: Nat, inbound: Nat, outbound: Nat]
  /\ clock \in [runs: BOOLEAN, now: Nat]
  /\ packets \in Seq(Recorded) /\ Len(packets) <= MaxPackets
  /\ awaiting \in [Peers -> {Absent} \cup [id: Nat, invoke: Nat]]
  /\ traffic \in Nat

(* No time of the capture is ahead of the clock. *)
Timely ==
  /\ capture.began <= clock.now
  /\ \A n \in DOMAIN packets : packets[n].stamp <= clock.now

CaptureInv == CaptureType /\ Timely /\ CaptureAddsUp

(* The bounded list: a new packet at the end, the first one gone if it was *)
(* full.                                                                   *)
LEMMA BoundedAppend ==
  ASSUME NEW S, NEW s \in Seq(S), NEW p \in S, NEW max \in Nat \ {0}, Len(s) <= max
  PROVE  LET new == IF Len(Append(s, p)) > max THEN Tail(Append(s, p)) ELSE Append(s, p)
         IN /\ new \in Seq(S)
            /\ Len(new) = IF Len(s) = max THEN Len(s) ELSE Len(s) + 1
            /\ \A n \in DOMAIN new : new[n] = p \/ \E m \in DOMAIN s : new[n] = s[m]
            /\ \E d \in {0, 1} : \A n \in DOMAIN new :
                 IF n + d = Len(s) + 1 THEN new[n] = p ELSE n + d \in DOMAIN s /\ new[n] = s[n + d]
<1> DEFINE stored == Append(s, p)
<1>1. /\ stored \in Seq(S) /\ Len(stored) = Len(s) + 1 /\ Len(s) \in Nat
      /\ DOMAIN stored = 1..(Len(s) + 1) /\ DOMAIN s = 1..Len(s)
      /\ \A i \in 1..Len(s) : stored[i] = s[i]
      /\ stored[Len(s) + 1] = p
  OBVIOUS
<1> HIDE DEF stored
<1>4. Len(s) \in Nat /\ Len(stored) = Len(s) + 1
  BY <1>1
<1>2. CASE Len(s) = max
  <2>1. stored # <<>>
    BY <1>1
  <2>2. /\ Tail(stored) \in Seq(S) /\ Len(Tail(stored)) = Len(s)
        /\ \A i \in 1..Len(s) : Tail(stored)[i] = stored[i + 1]
    BY <1>1, <2>1, HeadTailProperties
  <2>3. DOMAIN Tail(stored) = 1..Len(s)
    BY <2>2
  <2>4. ASSUME NEW i \in 1..Len(s)
        PROVE  Tail(stored)[i] = p \/ \E m \in DOMAIN s : Tail(stored)[i] = s[m]
    <3>1. CASE i = Len(s)
      BY <1>1, <2>2, <3>1
    <3>2. CASE i # Len(s)
      <4>1. i + 1 \in 1..Len(s)
        BY <1>4, <3>2
      <4> QED BY <1>1, <2>2, <4>1
    <3> QED BY <3>1, <3>2
  <2>5. Len(stored) > max
    BY <1>1, <1>2
  <2>6. \E d \in {0, 1} : \A n \in DOMAIN Tail(stored) :
          IF n + d = Len(s) + 1 THEN Tail(stored)[n] = p
          ELSE n + d \in DOMAIN s /\ Tail(stored)[n] = s[n + d]
    <3>1. ASSUME NEW n \in DOMAIN Tail(stored)
          PROVE  IF n + 1 = Len(s) + 1 THEN Tail(stored)[n] = p
                 ELSE n + 1 \in DOMAIN s /\ Tail(stored)[n] = s[n + 1]
      BY <1>1, <2>2, <2>3
    <3> QED BY <3>1
  <2> QED BY <1>2, <2>2, <2>3, <2>4, <2>5, <2>6 DEF stored
<1>3. CASE Len(s) # max
  <2>1. ~(Len(stored) > max)
    BY <1>3, <1>4
  <2>2. ASSUME NEW i \in DOMAIN stored
        PROVE  stored[i] = p \/ \E m \in DOMAIN s : stored[i] = s[m]
    BY <1>1
  <2>3. \E d \in {0, 1} : \A n \in DOMAIN stored :
          IF n + d = Len(s) + 1 THEN stored[n] = p
          ELSE n + d \in DOMAIN s /\ stored[n] = s[n + d]
    <3>1. ASSUME NEW n \in DOMAIN stored
          PROVE  IF n + 0 = Len(s) + 1 THEN stored[n] = p
                 ELSE n + 0 \in DOMAIN s /\ stored[n] = s[n + 0]
      BY <1>1
    <3> QED BY <3>1
  <2> QED BY <1>1, <1>3, <2>1, <2>2, <2>3 DEF stored
<1> QED BY <1>2, <1>3

(* Of one more packet seen, the list gains it or drops one. *)
LEMMA DropsCount ==
  ASSUME NEW old \in Nat, NEW new \in Nat, NEW seen \in Nat, NEW dropped \in Nat,
         NEW cut \in {0, 1}, NEW full \in {0, 1},
         new + full = old + 1, old <= seen, seen <= old + dropped
  PROVE  /\ new <= seen + 1 /\ seen + 1 <= new + (dropped + (cut + full))
         /\ (seen = old + dropped /\ cut = 0 => seen + 1 = new + (dropped + (cut + full)))
OBVIOUS

(* _record: the packet is counted, and a packet is dropped for each that   *)
(* the list does not gain.                                                 *)
LEMMA RecordAddsUp ==
  ASSUME CaptureInv, NEW direction \in {"inbound", "outbound"}, NEW c \in Peers,
         NEW g \in Incoming \cup Outgoing, NEW answers \in Nat \cup {Absent},
         Record(direction, c, g, answers), UNCHANGED <<capture, clock>>
  PROVE  /\ counters' \in [seen: Nat, dropped: Nat, inbound: Nat, outbound: Nat]
         /\ packets' \in Seq(Recorded) /\ Len(packets)' <= MaxPackets
         /\ Timely' /\ CaptureAddsUp'
<1> USE CaptureAssumption
<1>0. CaptureType /\ Timely /\ CaptureAddsUp
  BY DEF CaptureInv
<1>1. CASE ~capture.running
  <2>1. UNCHANGED <<packets, counters>>
    BY <1>1 DEF Record
  <2> QED BY <1>0, <2>1 DEF CaptureType, Timely, CaptureAddsUp
<1>2. CASE capture.running
  <2> DEFINE kept == IF g.size > MaxPayload THEN [g EXCEPT !.size = MaxPayload, !.rest = "cut"] ELSE g
             p == [id |-> traffic + 1, session |-> capture.session, stamp |-> clock.now,
                   direction |-> direction, peer |-> c, payload |-> kept, answers |-> answers]
             cut == IF g.size > MaxPayload THEN 1 ELSE 0
             full == IF Len(packets) = MaxPackets THEN 1 ELSE 0
  <2>1. g \in Payload /\ g.size \in Nat
    BY DEF Payload
  <2>2. kept \in Payload
    BY <2>1 DEF Payload
  <2>3. p \in Recorded /\ p.session = capture.session /\ p.stamp = clock.now
    <3> HIDE DEF kept
    <3> QED BY <1>0, <2>2 DEF CaptureType, Recorded
  <2>4. /\ packets' = IF Len(Append(packets, p)) > MaxPackets THEN Tail(Append(packets, p)) ELSE Append(packets, p)
        /\ counters' = [seen |-> counters.seen + 1,
                        dropped |-> counters.dropped + (cut + full),
                        inbound |-> counters.inbound + (IF direction = "inbound" THEN 1 ELSE 0),
                        outbound |-> counters.outbound + (IF direction = "outbound" THEN 1 ELSE 0)]
    BY <1>2 DEF Record, Drops
  <2> HIDE DEF p, kept
  <2>5. /\ packets' \in Seq(Recorded)
        /\ Len(packets') = IF Len(packets) = MaxPackets THEN Len(packets) ELSE Len(packets) + 1
        /\ \A n \in DOMAIN packets' : packets'[n] = p \/ \E m \in DOMAIN packets : packets'[n] = packets[m]
    <3>1. packets \in Seq(Recorded) /\ Len(packets) <= MaxPackets /\ MaxPackets \in Nat \ {0} /\ p \in Recorded
      BY <1>0, <2>3 DEF CaptureType
    <3> QED BY <2>4, <3>1, BoundedAppend
  <2>6. Len(packets) \in Nat /\ Len(packets) <= MaxPackets
    BY <1>0 DEF CaptureType
  <2>7. Len(packets') + full = Len(packets) + 1 /\ Len(packets') <= MaxPackets /\ Len(packets') \in Nat
    BY <2>5, <2>6
  <2>8. cut \in {0, 1} /\ full \in {0, 1} /\ (g.size <= MaxPayload => cut = 0)
    BY <2>1
  <2> HIDE DEF cut, full
  <2>9. /\ counters' \in [seen: Nat, dropped: Nat, inbound: Nat, outbound: Nat]
        /\ counters'.seen = counters.seen + 1 /\ counters'.dropped = counters.dropped + (cut + full)
        /\ counters'.inbound + counters'.outbound = counters.inbound + counters.outbound + 1
    <3>1. counters \in [seen: Nat, dropped: Nat, inbound: Nat, outbound: Nat]
      BY <1>0 DEF CaptureType
    <3> DEFINE inward == IF direction = "inbound" THEN 1 ELSE 0
               outward == IF direction = "outbound" THEN 1 ELSE 0
    <3>2. inward \in {0, 1} /\ outward \in {0, 1} /\ inward + outward = 1
      OBVIOUS
    <3>3. counters' = [seen |-> counters.seen + 1, dropped |-> counters.dropped + (cut + full),
                       inbound |-> counters.inbound + inward, outbound |-> counters.outbound + outward]
      BY <2>4
    <3> HIDE DEF inward, outward
    <3>4. /\ counters'.seen = counters.seen + 1 /\ counters'.dropped = counters.dropped + (cut + full)
          /\ counters'.inbound = counters.inbound + inward /\ counters'.outbound = counters.outbound + outward
      BY <3>3
    <3>5. /\ counters.seen + 1 \in Nat /\ counters.dropped + (cut + full) \in Nat
          /\ counters.inbound + inward \in Nat /\ counters.outbound + outward \in Nat
      BY <2>8, <3>1, <3>2
    <3>6. counters' \in [seen: Nat, dropped: Nat, inbound: Nat, outbound: Nat]
      BY <3>3, <3>5
    <3> QED BY <3>1, <3>2, <3>4, <3>6
  <2>10. counters.seen \in Nat /\ counters.dropped \in Nat
    BY <1>0 DEF CaptureType
  <2>11. /\ counters.inbound + counters.outbound = counters.seen
         /\ Len(packets) <= counters.seen
         /\ counters.seen <= Len(packets) + counters.dropped
    BY <1>0 DEF CaptureAddsUp
  <2>14. Len(packets) \in Nat /\ Len(packets') \in Nat /\ Len(packets') + full = Len(packets) + 1
    BY <2>6, <2>7
  <2>15. /\ Len(packets') <= counters'.seen
         /\ counters'.seen <= Len(packets') + counters'.dropped
         /\ (counters.seen = Len(packets) + counters.dropped /\ cut = 0 =>
              counters'.seen = Len(packets') + counters'.dropped)
    <3> DEFINE old == Len(packets)
               new == Len(packets')
               seen == counters.seen
               dropped == counters.dropped
    <3>1. /\ old \in Nat /\ new \in Nat /\ seen \in Nat /\ dropped \in Nat
          /\ new + full = old + 1 /\ old <= seen /\ seen <= old + dropped
      BY <2>10, <2>11, <2>14
    <3> HIDE DEF old, new, seen, dropped
    <3>2. /\ new <= seen + 1 /\ seen + 1 <= new + (dropped + (cut + full))
          /\ (seen = old + dropped /\ cut = 0 => seen + 1 = new + (dropped + (cut + full)))
      BY <2>8, <3>1, DropsCount
    <3>3. /\ Len(packets') <= counters.seen + 1
          /\ counters.seen + 1 <= Len(packets') + (counters.dropped + (cut + full))
          /\ (counters.seen = Len(packets) + counters.dropped /\ cut = 0 =>
               counters.seen + 1 = Len(packets') + (counters.dropped + (cut + full)))
      BY <3>2, Zenon DEF old, new, seen, dropped
    <3>4. counters'.seen = counters.seen + 1 /\ counters'.dropped = counters.dropped + (cut + full)
      BY <2>9
    <3> QED BY <3>3, <3>4, Zenon
  <2>16. counters'.inbound + counters'.outbound = counters'.seen
    BY <2>9, <2>11
  <2>12. (\A x \in Incoming \cup Outgoing : x.size <= MaxPayload) =>
           counters'.seen = Len(packets') + counters'.dropped
    BY <1>0, <2>8, <2>15 DEF CaptureAddsUp
  <2>13. \A n \in DOMAIN packets' :
           /\ packets'[n].session = capture.session
           /\ capture.began <= packets'[n].stamp /\ packets'[n].stamp <= clock.now
    <3>1. capture.began \in Nat /\ clock.now \in Nat /\ capture.began <= clock.now
      BY <1>0 DEF CaptureType, Timely
    <3>2. \A n \in DOMAIN packets :
            /\ packets[n].session = capture.session
            /\ capture.began <= packets[n].stamp /\ packets[n].stamp <= clock.now
      BY <1>0 DEF CaptureAddsUp, Timely
    <3> QED BY <2>3, <2>5, <3>1, <3>2
  <2> QED BY <1>0, <1>2, <2>5, <2>7, <2>9, <2>12, <2>13, <2>15, <2>16 DEF Timely, CaptureAddsUp
<1> QED BY <1>1, <1>2

(* The types, the times and the sums hold together in every state.         *)
LEMMA CaptureHolds == CaptureSpec => []CaptureInv
<1> USE CaptureAssumption
<1>1. CaptureInit => CaptureInv
  <2> SUFFICES ASSUME CaptureInit PROVE CaptureInv
    OBVIOUS
  <2>1. packets = <<>> /\ Len(packets) = 0 /\ DOMAIN packets = {} /\ packets \in Seq(Recorded)
    BY DEF CaptureInit
  <2>2. CaptureType
    BY <2>1 DEF CaptureInit, CaptureType, Zero
  <2> QED BY <2>1, <2>2 DEF CaptureInit, CaptureInv, Timely, CaptureAddsUp, Zero
<1>2. CaptureInv /\ [CaptureNext]_captureVars => CaptureInv'
  <2> SUFFICES ASSUME CaptureInv, [CaptureNext]_captureVars PROVE CaptureInv'
    OBVIOUS
  <2>0. CaptureType /\ Timely /\ CaptureAddsUp
    BY DEF CaptureInv
  <2>1. ASSUME packets' = <<>>, counters' = Zero,
               capture' \in [running: BOOLEAN, session: Nat, began: Nat, ended: Nat],
               capture'.began <= clock.now, UNCHANGED <<clock, awaiting, traffic>>
        PROVE  CaptureInv'
    <3>1. Len(packets') = 0 /\ DOMAIN packets' = {} /\ packets' \in Seq(Recorded)
      BY <2>1
    <3>2. counters' \in [seen: Nat, dropped: Nat, inbound: Nat, outbound: Nat]
      BY <2>1 DEF Zero
    <3>3. CaptureType'
      BY <2>0, <2>1, <3>1, <3>2 DEF CaptureType
    <3> QED BY <2>1, <3>1, <3>3 DEF CaptureInv, Timely, CaptureAddsUp, Zero
  <2>2. CASE StartCapture
    <3>1. capture' = [running |-> TRUE, session |-> capture.session + 1, began |-> clock.now, ended |-> 0]
      BY <2>2 DEF StartCapture
    <3>2. capture' \in [running: BOOLEAN, session: Nat, began: Nat, ended: Nat] /\ capture'.began <= clock.now
      BY <2>0, <3>1 DEF CaptureType
    <3> QED BY <2>1, <2>2, <3>2 DEF StartCapture
  <2>3. CASE StopCapture
    <3>1. /\ capture' = [capture EXCEPT !.running = FALSE, !.ended = clock.now]
          /\ UNCHANGED <<packets, counters, clock, awaiting, traffic>>
      BY <2>3 DEF StopCapture
    <3>2. /\ capture' \in [running: BOOLEAN, session: Nat, began: Nat, ended: Nat] /\ ~capture'.running
          /\ capture'.ended = clock.now /\ capture'.session = capture.session /\ capture'.began = capture.began
      BY <2>0, <3>1 DEF CaptureType
    <3> QED BY <2>0, <3>1, <3>2 DEF CaptureInv, CaptureType, Timely, CaptureAddsUp
  <2>4. CASE ClearCapture
    BY <2>0, <2>1, <2>4 DEF ClearCapture, CaptureType, Timely
  <2>5. CASE CaptureLater
    <3>1. clock' = [clock EXCEPT !.now = @ + 1] /\ UNCHANGED <<capture, packets, counters, awaiting, traffic>>
      BY <2>5 DEF CaptureLater
    <3>2. clock' \in [runs: BOOLEAN, now: Nat] /\ clock'.now = clock.now + 1 /\ clock.now \in Nat
      <4>1. clock \in [runs: BOOLEAN, now: Nat]
        BY <2>0 DEF CaptureType
      <4> QED BY <3>1, <4>1
    <3>3. \A n \in DOMAIN packets : packets[n].stamp \in Nat
      <4>1. packets \in Seq(Recorded)
        BY <2>0 DEF CaptureType
      <4>2. \A n \in DOMAIN packets : packets[n] \in Recorded
        BY <4>1
      <4> QED BY <4>2 DEF Recorded
    <3>4. Timely'
      <4>1. capture.began \in Nat /\ capture.began <= clock.now /\ clock.now \in Nat
        BY <2>0, <3>2 DEF CaptureType, Timely
      <4>2. capture.began <= clock'.now
        BY <3>2, <4>1
      <4>3. ASSUME NEW n \in DOMAIN packets PROVE packets[n].stamp <= clock'.now
        <5>1. packets[n].stamp \in Nat /\ packets[n].stamp <= clock.now
          BY <2>0, <3>3 DEF Timely
        <5> QED BY <3>2, <5>1
      <4> QED BY <3>1, <4>2, <4>3 DEF Timely
    <3> QED BY <2>0, <3>1, <3>2, <3>4 DEF CaptureInv, CaptureType, CaptureAddsUp
  <2>6. CASE HoldClock
    <3> DEFINE runs == ~clock.runs
    <3>1. clock' = [clock EXCEPT !.runs = runs] /\ UNCHANGED <<capture, packets, counters, awaiting, traffic>>
      BY <2>6 DEF HoldClock
    <3>2. runs \in BOOLEAN
      BY <2>0 DEF CaptureType
    <3> HIDE DEF runs
    <3>3. clock' \in [runs: BOOLEAN, now: Nat] /\ clock'.now = clock.now
      BY <2>0, <3>1, <3>2 DEF CaptureType
    <3> QED BY <2>0, <3>1, <3>3 DEF CaptureInv, CaptureType, Timely, CaptureAddsUp
  <2>7. ASSUME NEW c \in Peers, NEW g \in Incoming, PacketIn(c, g)
        PROVE  CaptureInv'
    <3>1. /\ Record("inbound", c, g, Absent) /\ UNCHANGED <<capture, clock>> /\ traffic' = traffic + 1
          /\ awaiting' = IF g.pdu = "Request" THEN [awaiting EXCEPT ![c] = [id |-> traffic + 1, invoke |-> g.invoke]]
                         ELSE awaiting
      BY <2>7 DEF PacketIn, Packet
    <3>2. g.invoke \in Nat
      BY DEF Payload
    <3>3. traffic' \in Nat /\ awaiting' \in [Peers -> {Absent} \cup [id: Nat, invoke: Nat]]
      BY <2>0, <3>1, <3>2 DEF CaptureType
    <3>4. /\ counters' \in [seen: Nat, dropped: Nat, inbound: Nat, outbound: Nat]
          /\ packets' \in Seq(Recorded) /\ Len(packets)' <= MaxPackets /\ Timely' /\ CaptureAddsUp'
      BY <3>1, RecordAddsUp
    <3> QED BY <2>0, <3>1, <3>3, <3>4 DEF CaptureInv, CaptureType
  <2>8. ASSUME NEW c \in Peers, NEW g \in Outgoing, PacketOut(c, g)
        PROVE  CaptureInv'
    <3>1. /\ UNCHANGED <<capture, clock>> /\ traffic' = traffic + 1
          /\ \E answers \in Nat \cup {Absent} : Record("outbound", c, g, answers)
          /\ awaiting' \in [Peers -> {Absent} \cup [id: Nat, invoke: Nat]]
      <4>1. CASE g.pdu \in Answering
        <5>1. awaiting[c] # Absent /\ Record("outbound", c, g, awaiting[c].id) /\ awaiting' = [awaiting EXCEPT ![c] = Absent]
          BY <2>8, <4>1 DEF PacketOut
        <5>2. awaiting[c].id \in Nat
          BY <2>0, <5>1 DEF CaptureType
        <5> QED BY <2>0, <2>8, <5>1, <5>2 DEF PacketOut, Packet, CaptureType
      <4>2. CASE g.pdu \notin Answering
        <5>1. Record("outbound", c, g, Absent) /\ UNCHANGED awaiting
          BY <2>8, <4>2 DEF PacketOut
        <5> QED BY <2>0, <2>8, <5>1 DEF PacketOut, Packet, CaptureType
      <4> QED BY <4>1, <4>2
    <3>2. /\ counters' \in [seen: Nat, dropped: Nat, inbound: Nat, outbound: Nat]
          /\ packets' \in Seq(Recorded) /\ Len(packets)' <= MaxPackets /\ Timely' /\ CaptureAddsUp'
      BY <3>1, RecordAddsUp
    <3>3. traffic' \in Nat
      BY <2>0, <3>1 DEF CaptureType
    <3> QED BY <2>0, <3>1, <3>2, <3>3 DEF CaptureInv, CaptureType
  <2>9. CASE UNCHANGED captureVars
    BY <2>0, <2>9 DEF captureVars, CaptureInv, CaptureType, Timely, CaptureAddsUp
  <2> QED BY <2>2, <2>3, <2>4, <2>5, <2>6, <2>7, <2>8, <2>9 DEF CaptureNext
<1> QED BY <1>1, <1>2, PTL DEF CaptureSpec

(* CaptureAddsUp: over any starts, stops and clears, every packet that was *)
(* seen is stored or was dropped once, and the list is of this session.    *)
THEOREM CapturesAddUp == CaptureSpec => []CaptureAddsUp
<1>1. CaptureInv => CaptureAddsUp
  BY DEF CaptureInv
<1> QED BY <1>1, CaptureHolds, PTL

(* Whatever packet has this id is the request of c with this invoke id.    *)
Asked(id, c, invoke) ==
  \A r \in DOMAIN packets : packets[r].id = id =>
    /\ packets[r].direction = "inbound" /\ packets[r].peer = c
    /\ packets[r].payload.pdu = "Request" /\ packets[r].payload.invoke = invoke

(* Ids are never used twice.                                               *)
Numbered ==
  \A m \in DOMAIN packets :
    /\ packets[m].id <= traffic
    /\ \A n \in DOMAIN packets : m # n => packets[m].id # packets[n].id

(* What is sent as an answer bears the invoke id of what it answers.       *)
PairedUp ==
  \A a \in DOMAIN packets : packets[a].answers # Absent =>
    /\ packets[a].direction = "outbound" /\ packets[a].payload.pdu \in Answering
    /\ packets[a].answers <= traffic
    /\ Asked(packets[a].answers, packets[a].peer, packets[a].payload.invoke)

Awaited ==
  \A c \in Peers : awaiting[c] # Absent =>
    awaiting[c].id <= traffic /\ Asked(awaiting[c].id, c, awaiting[c].invoke)

Links == Numbered /\ PairedUp /\ Awaited

(* _record changes neither the links of what it keeps nor, by cutting a    *)
(* payload, those of the packet it adds.                                   *)
LEMMA RecordKeepsLinks ==
  ASSUME CaptureType, Links, NEW direction \in {"inbound", "outbound"}, NEW c \in Peers,
         NEW g \in Incoming \cup Outgoing, NEW answers \in Nat \cup {Absent},
         Record(direction, c, g, answers), traffic' = traffic + 1,
         answers # Absent => /\ direction = "outbound" /\ g.pdu \in Answering /\ answers <= traffic
                             /\ Asked(answers, c, g.invoke)
  PROVE  /\ Numbered' /\ PairedUp'
         /\ \A id \in Nat, q \in Peers, invoke \in Nat :
              id <= traffic /\ Asked(id, q, invoke) => Asked(id, q, invoke)'
         /\ direction = "inbound" /\ g.pdu = "Request" =>
              \A id : id = traffic + 1 => Asked(id, c, g.invoke)'
<1> USE CaptureAssumption
<1>0. /\ traffic \in Nat /\ packets \in Seq(Recorded) /\ Len(packets) <= MaxPackets
      /\ DOMAIN packets = 1..Len(packets) /\ Len(packets) \in Nat
      /\ Numbered /\ PairedUp
  BY DEF CaptureType, Links
<1>01. \A n \in DOMAIN packets :
         /\ packets[n] \in Recorded /\ packets[n].id \in Nat /\ packets[n].peer \in Peers
         /\ packets[n].answers \in Nat \cup {Absent} /\ packets[n].payload.invoke \in Nat
  <2>1. \A n \in DOMAIN packets : packets[n] \in Recorded
    BY <1>0
  <2> QED BY <2>1 DEF Recorded, Payload
<1>1. CASE ~capture.running
  <2>1. UNCHANGED packets
    BY <1>1 DEF Record
  <2>2. \A id, q, invoke : Asked(id, q, invoke)' <=> Asked(id, q, invoke)
    BY <2>1 DEF Asked
  <2>3. \A n \in DOMAIN packets : packets[n].id # traffic + 1
    BY <1>0, <1>01 DEF Numbered
  <2>4. \A id : id = traffic + 1 => Asked(id, c, g.invoke)'
    BY <2>1, <2>3 DEF Asked
  <2>5. Numbered'
    BY <1>0, <1>01, <2>1 DEF Numbered
  <2>6. PairedUp'
    <3> SUFFICES ASSUME NEW a \in DOMAIN packets, packets[a].answers # Absent
                 PROVE  /\ packets[a].direction = "outbound" /\ packets[a].payload.pdu \in Answering
                        /\ packets[a].answers <= traffic + 1
                        /\ Asked(packets[a].answers, packets[a].peer, packets[a].payload.invoke)'
      BY <2>1 DEF PairedUp
    <3>1. /\ packets[a].direction = "outbound" /\ packets[a].payload.pdu \in Answering
          /\ packets[a].answers <= traffic
          /\ Asked(packets[a].answers, packets[a].peer, packets[a].payload.invoke)
      BY <1>0 DEF PairedUp
    <3>2. packets[a].answers \in Nat
      BY <1>01
    <3>3. Asked(packets[a].answers, packets[a].peer, packets[a].payload.invoke)'
      BY <2>1, <2>2, <3>1
    <3> QED BY <1>0, <3>1, <3>2, <3>3
  <2> QED BY <2>2, <2>4, <2>5, <2>6
<1>2. CASE capture.running
  <2> DEFINE kept == IF g.size > MaxPayload THEN [g EXCEPT !.size = MaxPayload, !.rest = "cut"] ELSE g
             p == [id |-> traffic + 1, session |-> capture.session, stamp |-> clock.now,
                   direction |-> direction, peer |-> c, payload |-> kept, answers |-> answers]
  <2>1. g \in Payload
    OBVIOUS
  <2>2. kept \in Payload /\ kept.pdu = g.pdu /\ kept.invoke = g.invoke
    BY <2>1 DEF Payload
  <2>3. /\ p \in Recorded /\ p.id = traffic + 1 /\ p.direction = direction /\ p.peer = c
        /\ p.payload.pdu = g.pdu /\ p.payload.invoke = g.invoke /\ p.answers = answers
    <3> HIDE DEF kept
    <3> QED BY <1>0, <2>2 DEF CaptureType, Recorded
  <2>4. packets' = IF Len(Append(packets, p)) > MaxPackets THEN Tail(Append(packets, p)) ELSE Append(packets, p)
    BY <1>2 DEF Record
  <2> HIDE DEF p, kept
  <2>5. PICK d \in {0, 1} : \A n \in DOMAIN packets' :
          IF n + d = Len(packets) + 1 THEN packets'[n] = p
          ELSE n + d \in DOMAIN packets /\ packets'[n] = packets[n + d]
    <3>1. packets \in Seq(Recorded) /\ Len(packets) <= MaxPackets /\ MaxPackets \in Nat \ {0} /\ p \in Recorded
      BY <1>0, <2>3
    <3> QED BY <2>4, <3>1, BoundedAppend
  <2>6. \A n \in DOMAIN packets' : n \in Nat
    <3>1. packets' \in Seq(Recorded)
      <4>1. packets \in Seq(Recorded) /\ Len(packets) <= MaxPackets /\ MaxPackets \in Nat \ {0} /\ p \in Recorded
        BY <1>0, <2>3
      <4> QED BY <2>4, <4>1, BoundedAppend
    <3> QED BY <3>1
  <2>7. Numbered'
    <3> SUFFICES ASSUME NEW m \in DOMAIN packets', NEW n \in DOMAIN packets'
                 PROVE  packets'[m].id <= traffic + 1 /\ (m # n => packets'[m].id # packets'[n].id)
      BY DEF Numbered
    <3>1. \A k \in DOMAIN packets : packets[k].id <= traffic /\ packets[k].id \in Nat
      BY <1>0, <1>01 DEF Numbered
    <3>2. m \in Nat /\ n \in Nat /\ (m # n => m + d # n + d)
      BY <2>6
    <3>3. CASE m + d = Len(packets) + 1
      <4>1. packets'[m] = p
        BY <2>5, <3>3
      <4>2. m # n => packets'[n].id <= traffic /\ packets'[n].id \in Nat
        BY <2>5, <3>1, <3>2, <3>3
      <4> QED BY <1>0, <2>3, <4>1, <4>2
    <3>4. CASE m + d # Len(packets) + 1
      <4>1. m + d \in DOMAIN packets /\ packets'[m] = packets[m + d]
        BY <2>5, <3>4
      <4>2. packets'[m].id <= traffic /\ packets'[m].id \in Nat
        BY <3>1, <4>1
      <4>3. CASE n + d = Len(packets) + 1
        <5>1. packets'[n].id = traffic + 1
          BY <2>3, <2>5, <4>3
        <5> QED BY <1>0, <4>2, <5>1
      <4>4. CASE n + d # Len(packets) + 1
        <5>1. n + d \in DOMAIN packets /\ packets'[n] = packets[n + d]
          BY <2>5, <4>4
        <5>2. m # n => packets[m + d].id # packets[n + d].id
          BY <1>0, <3>2, <4>1, <5>1 DEF Numbered
        <5> QED BY <1>0, <4>1, <4>2, <5>1, <5>2
      <4> QED BY <4>3, <4>4
    <3> QED BY <3>3, <3>4
  <2>8. ASSUME NEW id \in Nat, NEW q \in Peers, NEW invoke \in Nat, id <= traffic, Asked(id, q, invoke)
        PROVE  Asked(id, q, invoke)'
    <3> SUFFICES ASSUME NEW r \in DOMAIN packets', packets'[r].id = id
                 PROVE  /\ packets'[r].direction = "inbound" /\ packets'[r].peer = q
                        /\ packets'[r].payload.pdu = "Request" /\ packets'[r].payload.invoke = invoke
      BY DEF Asked
    <3>1. id # traffic + 1
      BY <1>0, <2>8
    <3>2. packets'[r] # p
      BY <2>3, <3>1
    <3>3. r + d \in DOMAIN packets /\ packets'[r] = packets[r + d]
      BY <2>5, <3>2
    <3> QED BY <2>8, <3>3 DEF Asked
  <2>9. ASSUME direction = "inbound", g.pdu = "Request", NEW id, id = traffic + 1
        PROVE  Asked(id, c, g.invoke)'
    <3> SUFFICES ASSUME NEW r \in DOMAIN packets', packets'[r].id = traffic + 1
                 PROVE  /\ packets'[r].direction = "inbound" /\ packets'[r].peer = c
                        /\ packets'[r].payload.pdu = "Request" /\ packets'[r].payload.invoke = g.invoke
      BY <2>9 DEF Asked
    <3>1. packets'[r] = p
      <4>1. \A k \in DOMAIN packets : packets[k].id # traffic + 1
        BY <1>0, <1>01 DEF Numbered
      <4> QED BY <2>5, <4>1
    <3> QED BY <2>3, <2>9, <3>1
  <2>10. PairedUp'
    <3> SUFFICES ASSUME NEW a \in DOMAIN packets', packets'[a].answers # Absent
                 PROVE  /\ packets'[a].direction = "outbound" /\ packets'[a].payload.pdu \in Answering
                        /\ packets'[a].answers <= traffic + 1
                        /\ Asked(packets[a].answers, packets[a].peer, packets[a].payload.invoke)'
      BY DEF PairedUp
    <3>1. /\ packets'[a].direction = "outbound" /\ packets'[a].payload.pdu \in Answering
          /\ packets'[a].answers \in Nat /\ packets'[a].answers <= traffic
          /\ packets'[a].peer \in Peers /\ packets'[a].payload.invoke \in Nat
          /\ Asked(packets'[a].answers, packets'[a].peer, packets'[a].payload.invoke)
      <4>1. CASE packets'[a] = p
        <5>1. g.invoke \in Nat
          BY <2>1 DEF Payload
        <5> QED BY <2>3, <4>1, <5>1
      <4>2. CASE packets'[a] # p
        <5>1. a + d \in DOMAIN packets /\ packets'[a] = packets[a + d]
          BY <2>5, <4>2
        <5> QED BY <1>0, <1>01, <5>1 DEF PairedUp
      <4> QED BY <4>1, <4>2
    <3>2. Asked(packets[a].answers, packets[a].peer, packets[a].payload.invoke)'
      <4> DEFINE id == packets'[a].answers
                 q == packets'[a].peer
                 invoke == packets'[a].payload.invoke
      <4>1. id \in Nat /\ q \in Peers /\ invoke \in Nat /\ id <= traffic /\ Asked(id, q, invoke)
        BY <3>1
      <4> HIDE DEF id, q, invoke
      <4>2. \A r \in DOMAIN packets' : packets'[r].id = id =>
              /\ packets'[r].direction = "inbound" /\ packets'[r].peer = q
              /\ packets'[r].payload.pdu = "Request" /\ packets'[r].payload.invoke = invoke
        BY <2>8, <4>1 DEF Asked
      <4> QED BY <4>2 DEF Asked, id, q, invoke
    <3> QED BY <1>0, <3>1, <3>2
  <2> QED BY <2>7, <2>8, <2>9, <2>10
<1> QED BY <1>1, <1>2


(* The links hold in every state.                                          *)
LEMMA LinksHold == CaptureSpec => []Links
<1> USE CaptureAssumption
<1>1. CaptureInit => Links
  <2> SUFFICES ASSUME CaptureInit PROVE Links
    OBVIOUS
  <2>1. DOMAIN packets = {}
    BY DEF CaptureInit
  <2>2. \A c \in Peers : awaiting[c] = Absent
    BY DEF CaptureInit
  <2> QED BY <2>1, <2>2 DEF Links, Numbered, PairedUp, Awaited
<1>2. CaptureInv /\ Links /\ [CaptureNext]_captureVars => Links'
  <2> SUFFICES ASSUME CaptureInv, Links, [CaptureNext]_captureVars PROVE Links'
    OBVIOUS
  <2>0. CaptureType /\ Numbered /\ PairedUp /\ Awaited /\ traffic \in Nat
    BY DEF CaptureInv, Links, CaptureType
  <2>1. ASSUME packets' = <<>>, UNCHANGED <<awaiting, traffic>> PROVE Links'
    <3>1. DOMAIN packets' = {}
      BY <2>1
    <3>2. Awaited'
      BY <2>0, <2>1, <3>1 DEF Awaited, Asked
    <3> QED BY <3>1, <3>2 DEF Links, Numbered, PairedUp
  <2>2. ASSUME UNCHANGED <<packets, awaiting, traffic>> PROVE Links'
    BY <2>0, <2>2 DEF Links, Numbered, PairedUp, Awaited, Asked
  <2>3. CASE StartCapture \/ ClearCapture
    BY <2>1, <2>3 DEF StartCapture, ClearCapture
  <2>4. CASE StopCapture \/ CaptureLater \/ HoldClock \/ UNCHANGED captureVars
    BY <2>2, <2>4 DEF StopCapture, CaptureLater, HoldClock, captureVars
  <2>5. ASSUME NEW c \in Peers, awaiting[c] # Absent
        PROVE  awaiting[c].id \in Nat /\ awaiting[c].invoke \in Nat /\ awaiting[c].id <= traffic
    <3>1. awaiting[c] \in [id: Nat, invoke: Nat]
      BY <2>0, <2>5 DEF CaptureType
    <3> QED BY <2>0, <2>5, <3>1 DEF Awaited
  <2>6. \* What is awaited still is, whatever is recorded.
        ASSUME \A id \in Nat, q \in Peers, invoke \in Nat :
                 id <= traffic /\ Asked(id, q, invoke) => Asked(id, q, invoke)',
               traffic' = traffic + 1, NEW q \in Peers, awaiting'[q] = awaiting[q], awaiting'[q] # Absent
        PROVE  awaiting'[q].id <= traffic' /\ Asked(awaiting[q].id, q, awaiting[q].invoke)'
    <3> DEFINE id == awaiting[q].id
               invoke == awaiting[q].invoke
    <3>1. id \in Nat /\ invoke \in Nat /\ id <= traffic /\ Asked(id, q, invoke)
      BY <2>0, <2>5, <2>6 DEF Awaited
    <3>2. awaiting'[q].id = id /\ awaiting'[q].invoke = invoke
      BY <2>6
    <3> HIDE DEF id, invoke
    <3>3. \A r \in DOMAIN packets' : packets'[r].id = id =>
            /\ packets'[r].direction = "inbound" /\ packets'[r].peer = q
            /\ packets'[r].payload.pdu = "Request" /\ packets'[r].payload.invoke = invoke
      BY <2>6, <3>1 DEF Asked
    <3> QED BY <2>0, <2>6, <3>1, <3>2, <3>3 DEF Asked
  <2>7. ASSUME NEW c \in Peers, NEW g \in Incoming, PacketIn(c, g) PROVE Links'
    <3>1. /\ Record("inbound", c, g, Absent) /\ traffic' = traffic + 1
          /\ awaiting' = IF g.pdu = "Request" THEN [awaiting EXCEPT ![c] = [id |-> traffic + 1, invoke |-> g.invoke]]
                         ELSE awaiting
      BY <2>7 DEF PacketIn, Packet
    <3>2. /\ Numbered' /\ PairedUp'
          /\ \A id \in Nat, q \in Peers, invoke \in Nat :
               id <= traffic /\ Asked(id, q, invoke) => Asked(id, q, invoke)'
          /\ g.pdu = "Request" => \A id : id = traffic + 1 => Asked(id, c, g.invoke)'
      BY <2>0, <3>1, RecordKeepsLinks
    <3>3. ASSUME NEW q \in Peers, awaiting'[q] # Absent
          PROVE  awaiting'[q].id <= traffic' /\ Asked(awaiting[q].id, q, awaiting[q].invoke)'
      <4>1. CASE q = c /\ g.pdu = "Request"
        <5>1. awaiting'[q] = [id |-> traffic + 1, invoke |-> g.invoke]
          BY <2>0, <3>1, <4>1 DEF CaptureType
        <5>2. awaiting'[q].id = traffic + 1 /\ awaiting'[q].invoke = g.invoke
          BY <5>1
        <5> DEFINE id == awaiting'[q].id
        <5>3. id = traffic + 1
          BY <5>2
        <5> HIDE DEF id
        <5>4. \A r \in DOMAIN packets' : packets'[r].id = id =>
                /\ packets'[r].direction = "inbound" /\ packets'[r].peer = c
                /\ packets'[r].payload.pdu = "Request" /\ packets'[r].payload.invoke = g.invoke
          BY <3>2, <4>1, <5>3 DEF Asked
        <5>5. Asked(awaiting[q].id, q, awaiting[q].invoke)'
          BY <4>1, <5>2, <5>4 DEF Asked, id
        <5> QED BY <2>0, <3>1, <5>2, <5>5
      <4>2. CASE ~(q = c /\ g.pdu = "Request")
        <5>1. awaiting'[q] = awaiting[q]
          BY <2>0, <3>1, <4>2 DEF CaptureType
        <5> QED BY <2>6, <3>1, <3>2, <3>3, <5>1
      <4> QED BY <4>1, <4>2
    <3> QED BY <3>2, <3>3 DEF Links, Awaited
  <2>8. ASSUME NEW c \in Peers, NEW g \in Outgoing, PacketOut(c, g) PROVE Links'
    <3>0. traffic' = traffic + 1
      BY <2>8 DEF PacketOut, Packet
    <3>1. PICK answers \in Nat \cup {Absent} :
            /\ Record("outbound", c, g, answers)
            /\ answers # Absent => g.pdu \in Answering /\ answers <= traffic /\ Asked(answers, c, g.invoke)
      <4>1. CASE g.pdu \in Answering
        <5>1. awaiting[c] # Absent /\ Record("outbound", c, g, awaiting[c].id) /\ g.invoke = awaiting[c].invoke
          BY <2>8, <4>1 DEF PacketOut
        <5>2. awaiting[c].id \in Nat /\ awaiting[c].id <= traffic /\ Asked(awaiting[c].id, c, g.invoke)
          BY <2>0, <2>5, <5>1 DEF Awaited
        <5> QED BY <4>1, <5>1, <5>2
      <4>2. CASE g.pdu \notin Answering
        BY <2>8, <4>2 DEF PacketOut
      <4> QED BY <4>1, <4>2
    <3>2. /\ Numbered' /\ PairedUp'
          /\ \A id \in Nat, q \in Peers, invoke \in Nat :
               id <= traffic /\ Asked(id, q, invoke) => Asked(id, q, invoke)'
      BY <2>0, <3>0, <3>1, RecordKeepsLinks
    <3>3. ASSUME NEW q \in Peers, awaiting'[q] # Absent
          PROVE  awaiting'[q].id <= traffic' /\ Asked(awaiting[q].id, q, awaiting[q].invoke)'
      <4>1. awaiting' = [awaiting EXCEPT ![c] = Absent] \/ UNCHANGED awaiting
        BY <2>8 DEF PacketOut
      <4>2. awaiting'[q] = awaiting[q]
        BY <2>0, <3>3, <4>1 DEF CaptureType
      <4> QED BY <2>6, <3>0, <3>2, <3>3, <4>2
    <3> QED BY <3>2, <3>3 DEF Links, Awaited
  <2> QED BY <2>3, <2>4, <2>7, <2>8 DEF CaptureNext
<1> QED BY <1>1, <1>2, CaptureHolds, PTL DEF CaptureSpec

(* The last of any of the listed packets exists, whichever end comes first:*)
(* the latest time, and of its packets the one that is listed last.        *)
LEMMA LastOfTime ==
  ASSUME CaptureType, Timely, NEW newestFirst \in BOOLEAN,
         NEW asking \in SUBSET DOMAIN packets, asking # {}
  PROVE  \E m \in asking : \A k \in asking : k = m \/ ByTime(k, m, newestFirst)
<1>1. /\ \A n \in DOMAIN packets : packets[n].stamp \in Nat /\ packets[n].stamp <= clock.now
      /\ clock.now \in Nat /\ DOMAIN packets = 1..Len(packets) /\ Len(packets) \in Nat
  <2>1. packets \in Seq(Recorded) /\ clock \in [runs: BOOLEAN, now: Nat]
    BY DEF CaptureType
  <2>2. \A n \in DOMAIN packets : packets[n] \in Recorded
    BY <2>1
  <2> QED BY <2>1, <2>2 DEF Recorded, Timely
<1> DEFINE stamps == {packets[n].stamp : n \in asking}
<1>2. stamps \in SUBSET Nat /\ stamps # {} /\ \A x \in stamps : x <= clock.now
  BY <1>1
<1>3. PICK t \in stamps : \A x \in stamps : x <= t
  <2> HIDE DEF stamps
  <2> QED BY <1>1, <1>2, MaxOfNaturals
<1> DEFINE final == {n \in asking : packets[n].stamp = t}
<1>4. /\ final \in SUBSET Nat /\ final # {} /\ \A n \in final : n <= Len(packets)
      /\ final \subseteq asking
  BY <1>1, <1>3
<1>5. \A k \in asking \ final : packets[k].stamp < t
  <2> SUFFICES ASSUME NEW k \in asking \ final PROVE packets[k].stamp < t
    OBVIOUS
  <2>1. packets[k].stamp \in stamps /\ packets[k].stamp # t
    OBVIOUS
  <2>2. packets[k].stamp <= t /\ packets[k].stamp \in Nat /\ t \in Nat
    <3> HIDE DEF stamps
    <3> QED BY <1>2, <1>3, <2>1
  <2> QED BY <2>1, <2>2
<1>6. CASE newestFirst
  <2>1. PICK m \in final : \A n \in final : m <= n
    <3> HIDE DEF final
    <3> QED BY <1>4, MinOfNaturals
  <2>2. ASSUME NEW k \in asking, k # m PROVE ByTime(k, m, newestFirst)
    <3>1. CASE k \in final
      BY <1>1, <1>4, <1>6, <2>1, <2>2, <3>1 DEF ByTime
    <3>2. CASE k \notin final
      BY <1>5, <3>2 DEF ByTime
    <3> QED BY <3>1, <3>2
  <2> QED BY <1>4, <2>2
<1>7. CASE ~newestFirst
  <2>1. PICK m \in final : \A n \in final : n <= m
    <3> HIDE DEF final
    <3> QED BY <1>1, <1>4, MaxOfNaturals
  <2>2. ASSUME NEW k \in asking, k # m PROVE ByTime(k, m, newestFirst)
    <3>1. CASE k \in final
      BY <1>1, <1>4, <1>7, <2>1, <2>2, <3>1 DEF ByTime
    <3>2. CASE k \notin final
      BY <1>5, <3>2 DEF ByTime
    <3> QED BY <3>1, <3>2
  <2> QED BY <1>4, <2>2
<1> QED BY <1>6, <1>7

(* A parsed request keeps its invoke id, and an answer tells no object of  *)
(* its own.                                                                *)
LEMMA DecodedRequest ==
  ASSUME NEW g \in Payload, g.pdu = "Request", Decoded(g).operation \in Tracked
  PROVE  Decoded(g).invoke = g.invoke
BY CaptureAssumption
   DEF Decoded, Apdu, ConfirmedRequest, ReadPropertyRequest, WritePropertyRequest, Named, Undecoded, Tracked

(* An answer that is decoded keeps its invoke id and names no point.       *)
LEMMA DecodedAnswer ==
  ASSUME NEW g \in Payload, g.pdu \in Answering, Decoded(g).invoke # Absent
  PROVE  Decoded(g).invoke = g.invoke /\ Decoded(g).about = Absent
BY DEF Decoded, Apdu, SimpleAck, ComplexAck, ErrorApdu, RejectApdu, AbortApdu, Named, Undecoded, Answering

(* The request a listed packet is given is the last one that asks with its *)
(* key.                                                                    *)
LEMMA PendingIsLast ==
  ASSUME CaptureType, Timely, NEW newestFirst \in BOOLEAN, NEW listed \in SUBSET DOMAIN packets,
         NEW a \in listed
  PROVE  LET asking == Asking(listed, newestFirst, a)
             given == Pending(listed, newestFirst, a)
         IN /\ asking = {} => given = NoRequest
            /\ asking # {} => \E m \in asking :
                 /\ \A k \in asking : k = m \/ ByTime(k, m, newestFirst)
                 /\ given = [id |-> packets[m].id, about |-> Decoded(packets[m].payload).about]
<1> DEFINE asking == Asking(listed, newestFirst, a)
           last == CHOOSE m \in asking : \A k \in asking : k = m \/ ByTime(k, m, newestFirst)
<1>1. CASE asking = {}
  BY <1>1 DEF Pending
<1>2. CASE asking # {}
  <2>1. asking \in SUBSET DOMAIN packets
    BY DEF Asking
  <2>2. \E m \in asking : \A k \in asking : k = m \/ ByTime(k, m, newestFirst)
    <3> HIDE DEF asking
    <3> QED BY <1>2, <2>1, LastOfTime
  <2>3. last \in asking /\ \A k \in asking : k = last \/ ByTime(k, last, newestFirst)
    <3> HIDE DEF asking
    <3> QED BY <2>2
  <2>4. Pending(listed, newestFirst, a) = [id |-> packets[last].id, about |-> Decoded(packets[last].payload).about]
    BY <1>2 DEF Pending
  <2> QED BY <1>2, <2>3, <2>4
<1> QED BY <1>1, <1>2

(* What the list shows of a packet.                                        *)
LEMMA ShownAs ==
  ASSUME NEW newestFirst, NEW listed, NEW a \in listed
  PROVE  LET shown == Enriched(listed, newestFirst)[a]
             linked == packets[a].direction = "outbound" /\ Decoded(packets[a].payload).invoke # Absent
             own == Decoded(packets[a].payload).about
             given == Pending(listed, newestFirst, a)
         IN /\ linked => shown.request = given.id /\ shown.about = IF own # Absent THEN own ELSE given.about
            /\ ~linked => shown.request = Absent
BY DEF Enriched, NoRequest

(* AnswersKeepTheirRequest: whatever traffic, filter and order, an answer  *)
(* is shown with a listed request of the same client, and with its own     *)
(* when nothing of the client came in between.                             *)
THEOREM AnswersPaired == CaptureSpec => []AnswersKeepTheirRequest
<1> USE CaptureAssumption
<1>1. CaptureInv /\ Links => AnswersKeepTheirRequest
  <2> SUFFICES ASSUME CaptureInv, Links, NEW f \in Filters, NEW newestFirst \in BOOLEAN,
                      NEW a \in Listed(f)
               PROVE  LET listed == Listed(f)
                          shown == Enriched(listed, newestFirst)
                          matching == {r \in DOMAIN packets : packets[r].id = shown[a].request}
                          again(r) == \E n \in listed \ {r} :
                            /\ packets[n].direction = "inbound" /\ packets[n].peer = packets[r].peer
                            /\ packets[r].stamp <= packets[n].stamp /\ packets[n].stamp <= packets[a].stamp
                      IN /\ shown[a].request # Absent =>
                              /\ matching # {}
                              /\ \A r \in matching : /\ r \in listed /\ packets[r].direction = "inbound"
                                                      /\ packets[r].peer = packets[a].peer
                         /\ \A r \in listed :
                              (/\ packets[r].id = packets[a].answers
                               /\ packets[r].stamp < packets[a].stamp /\ ~again(r)
                               /\ Decoded(packets[r].payload).operation \in Tracked
                               /\ Decoded(packets[a].payload).invoke # Absent)
                                => /\ shown[a].request = packets[r].id
                                   /\ Associated(shown[a].about) = Associated(Decoded(packets[r].payload).about)
    BY Zenon DEF AnswersKeepTheirRequest
  <2> DEFINE listed == Listed(f)
             asking == Asking(listed, newestFirst, a)
             request == Enriched(listed, newestFirst)[a].request
             about == Enriched(listed, newestFirst)[a].about
             given == Pending(listed, newestFirst, a)
  <2>0. CaptureType /\ Timely /\ Numbered /\ PairedUp
    BY DEF CaptureInv, Links
  <2>1. listed \in SUBSET DOMAIN packets /\ a \in listed /\ a \in DOMAIN packets
    BY DEF Listed
  <2>2. \A n \in DOMAIN packets : packets[n] \in Recorded
    BY <2>0 DEF CaptureType
  <2>3. \A n \in DOMAIN packets : /\ packets[n].id \in Nat /\ packets[n].id # Absent
                                  /\ packets[n].stamp \in Nat /\ packets[n].payload \in Payload
    BY <2>2 DEF Recorded
  <2>4. /\ asking = {} => given = NoRequest
        /\ asking # {} => \E m \in asking :
             /\ \A k \in asking : k = m \/ ByTime(k, m, newestFirst)
             /\ given = [id |-> packets[m].id, about |-> Decoded(packets[m].payload).about]
    <3> HIDE DEF listed
    <3> QED BY <2>0, <2>1, PendingIsLast
  <2>5. \A m \in asking : /\ m \in listed /\ m \in DOMAIN packets /\ ByTime(m, a, newestFirst)
                          /\ packets[m].direction = "inbound" /\ packets[m].peer = packets[a].peer
    <3> HIDE DEF listed
    <3> QED BY <2>1 DEF Asking, PendingKey
  <2> DEFINE linked == packets[a].direction = "outbound" /\ Decoded(packets[a].payload).invoke # Absent
             own == Decoded(packets[a].payload).about
  <2>6. /\ linked => request = given.id /\ about = IF own # Absent THEN own ELSE given.about
        /\ ~linked => request = Absent
    BY ShownAs
  <2>7. request # Absent =>
          /\ {r \in DOMAIN packets : packets[r].id = request} # {}
          /\ \A r \in {r \in DOMAIN packets : packets[r].id = request} :
               r \in listed /\ packets[r].direction = "inbound" /\ packets[r].peer = packets[a].peer
    <3> HIDE DEF listed, asking, request, about, given, linked, own
    <3> SUFFICES ASSUME request # Absent
                 PROVE  /\ \E r \in DOMAIN packets : packets[r].id = request
                        /\ \A r \in DOMAIN packets : packets[r].id = request =>
                             r \in listed /\ packets[r].direction = "inbound" /\ packets[r].peer = packets[a].peer
      OBVIOUS
    <3>1. request = given.id
      BY <2>6
    <3>2. asking # {}
      BY <2>4, <3>1 DEF NoRequest
    <3>3. PICK m \in asking : given = [id |-> packets[m].id, about |-> Decoded(packets[m].payload).about]
      BY <2>4, <3>2
    <3>4. m \in DOMAIN packets /\ packets[m].id = request
      BY <2>5, <3>1, <3>3
    <3>5. \A r \in DOMAIN packets : packets[r].id = request => r = m
      BY <2>0, <3>4 DEF Numbered
    <3> QED BY <2>5, <3>4, <3>5
  <2>8. ASSUME NEW r \in listed, packets[r].id = packets[a].answers, packets[r].stamp < packets[a].stamp,
               ~ \E n \in listed \ {r} :
                   /\ packets[n].direction = "inbound" /\ packets[n].peer = packets[r].peer
                   /\ packets[r].stamp <= packets[n].stamp /\ packets[n].stamp <= packets[a].stamp,
               Decoded(packets[r].payload).operation \in Tracked, Decoded(packets[a].payload).invoke # Absent
        PROVE  request = packets[r].id /\ about = Decoded(packets[r].payload).about
    <3> HIDE DEF listed
    <3>1. r \in DOMAIN packets /\ packets[a].answers # Absent
      BY <2>1, <2>3, <2>8
    <3>2. /\ packets[a].direction = "outbound" /\ packets[a].payload.pdu \in Answering
          /\ Asked(packets[a].answers, packets[a].peer, packets[a].payload.invoke)
      BY <2>0, <2>1, <3>1 DEF PairedUp
    <3>3. /\ packets[r].direction = "inbound" /\ packets[r].peer = packets[a].peer
          /\ packets[r].payload.pdu = "Request" /\ packets[r].payload.invoke = packets[a].payload.invoke
      BY <2>8, <3>1, <3>2 DEF Asked
    <3>4. Decoded(packets[r].payload).invoke = packets[r].payload.invoke
      BY <2>3, <2>8, <3>1, <3>3, DecodedRequest
    <3>5. Decoded(packets[a].payload).invoke = packets[a].payload.invoke /\ own = Absent
      BY <2>1, <2>3, <2>8, <3>2, DecodedAnswer
    <3>6. r \in asking
      <4>1. PendingKey(packets[r]) = PendingKey(packets[a])
        BY <3>3, <3>4, <3>5 DEF PendingKey
      <4> QED BY <2>8, <3>3, <4>1 DEF Asking, ByTime
    <3>7. PICK m \in asking :
            /\ \A k \in asking : k = m \/ ByTime(k, m, newestFirst)
            /\ given = [id |-> packets[m].id, about |-> Decoded(packets[m].payload).about]
      BY <2>4, <3>6
    <3>8. m = r
      <4> SUFFICES ASSUME m # r PROVE FALSE
        OBVIOUS
      <4>1. ByTime(r, m, newestFirst) /\ ByTime(m, a, newestFirst) /\ m \in DOMAIN packets /\ m \in listed
        BY <2>5, <3>6, <3>7
      <4>2. packets[r].stamp <= packets[m].stamp /\ packets[m].stamp <= packets[a].stamp
        BY <2>1, <2>3, <3>1, <4>1 DEF ByTime
      <4>3. packets[m].direction = "inbound" /\ packets[m].peer = packets[r].peer
        BY <2>5, <3>3
      <4> QED BY <2>8, <4>1, <4>2, <4>3
    <3>9. linked
      BY <2>8, <3>2
    <3> HIDE DEF request, about, given, linked, own, asking
    <3>10. request = given.id /\ about = given.about
      BY <2>6, <3>5, <3>9
    <3> QED BY <3>7, <3>8, <3>10
  <2> HIDE DEF listed
  <2> QED BY <2>7, <2>8 DEF listed
<1> QED BY <1>1, CaptureHolds, LinksHold, PTL

---------------------------------------------------------------------------
(* Event reporting for every set of values, limits and delays: the log     *)
(* tells the state, transitions are earned, and the reporting implements   *)
(* AlarmLog.  Typed is the type invariant the three arguments share.       *)

Change == [from : AlarmStates, to : AlarmStates]
Entry == [from : AlarmStates, to : AlarmStates, acked : BOOLEAN]

Typed ==
  /\ elapsed \in Nat /\ pendingSince \in Nat
  /\ confirmed \in AlarmStates /\ pending \in AlarmStates \cup {NoState}
  /\ config \in [enabled : BOOLEAN, eventEnable : SUBSET Transitions]
  /\ writing \in Change \cup {NoState}
  /\ alarmLog \in Seq(Entry)
  /\ gap \in BOOLEAN
  /\ held \in [target : AlarmStates, for : Nat]

\* A value maps to one of the three states.
LEMMA TargetIsState == \A value : Target(value) \in AlarmStates
BY DEF Target, AlarmStates

(* The clock runs over the naturals.                                       *)
LEMMA LaterIsNat == ASSUME AlarmAssumption, NEW n \in Nat PROVE Later(n) \in Nat
BY DEF Later, AlarmAssumption

\* The history of the target is a target and a number of ticks.
LEMMA HeldTyped ==
  ASSUME Typed, NEW target \in AlarmStates, Held(target)
  PROVE  held' \in [target : AlarmStates, for : Nat]
<1>1. CASE held.target = target
  BY <1>1, LaterIsNat, AlarmAssumption DEF Held, Typed
<1>2. CASE held.target # target
  BY <1>2 DEF Held, Typed
<1> QED
  BY <1>1, <1>2

\* Evaluating the object keeps the types.
LEMMA EvaluatedTyped ==
  ASSUME Typed, NEW value \in PresentValues, Evaluated(value) PROVE Typed'
<1> DEFINE target == Target(value)
<1>1. target \in AlarmStates
  BY TargetIsState
<1>2. Held(target) /\ (Stays(target, elapsed') \/ Waits(target, elapsed') \/ Confirms(target, elapsed'))
  BY DEF Evaluated
<1>3. elapsed' \in Nat /\ UNCHANGED <<config, alarmLog>>
  BY DEF Evaluated, Typed
<1>4. held' \in [target : AlarmStates, for : Nat]
  BY <1>1, <1>2, HeldTyped
<1> HIDE DEF target
<1>5. Since(target, elapsed') \in Nat
  BY <1>3 DEF Since, Typed
<1>6. CASE Stays(target, elapsed')
  BY <1>3, <1>4, <1>6 DEF Stays, Typed
<1>7. CASE Waits(target, elapsed')
  BY <1>1, <1>3, <1>4, <1>5, <1>7 DEF Waits, Typed
<1>8. CASE Confirms(target, elapsed')
  <2>1. writing' \in Change \cup {NoState}
    BY <1>1, <1>8 DEF Confirms, Change, Typed
  <2>2. gap' \in BOOLEAN
    BY <1>8 DEF Confirms, Enabled
  <2> QED
    BY <1>1, <1>3, <1>4, <1>5, <1>8, <2>1, <2>2 DEF Confirms, Typed
<1> QED
  BY <1>2, <1>6, <1>7, <1>8 DEF target

\* Every reachable state is well typed.
THEOREM AlarmTypeCorrect == AlarmSpec => []Typed
<1>1. AlarmInit => Typed
  <2> SUFFICES ASSUME AlarmInit PROVE Typed
    OBVIOUS
  <2>1. alarmLog \in Seq(Entry) /\ writing \in Change \cup {NoState}
    BY DEF AlarmInit
  <2>2. config \in [enabled : BOOLEAN, eventEnable : SUBSET Transitions]
    BY DEF AlarmInit
  <2>3. held \in [target : AlarmStates, for : Nat]
    BY DEF AlarmInit, AlarmStates
  <2> QED
    BY <2>1, <2>2, <2>3 DEF AlarmInit, Typed, AlarmStates
<1>2. Typed /\ [AlarmNext]_arVars => Typed'
  <2> SUFFICES ASSUME Typed, [AlarmNext]_arVars PROVE Typed'
    OBVIOUS
  <2>1. CASE UNCHANGED arVars
    BY <2>1 DEF Typed, arVars
  <2>2. ASSUME NEW value \in PresentValues, Evaluated(value) PROVE Typed'
    BY <2>2, EvaluatedTyped
  <2>3. CASE NotEvaluated
    BY <2>3, LaterIsNat, AlarmAssumption DEF NotEvaluated, Typed
  <2>4. CASE LogAlarm
    BY <2>4 DEF LogAlarm, Typed, Change, Entry
  <2>5. CASE LogFails
    BY <2>5 DEF LogFails, Typed
  <2>6. CASE SetAlarmConfig
    BY <2>6 DEF SetAlarmConfig, Typed
  <2>7. ASSUME NEW i \in DOMAIN alarmLog, AckAlarm(i) PROVE Typed'
    <3> DEFINE e == [alarmLog[i] EXCEPT !.acked = TRUE]
    <3>1. alarmLog \in Seq(Entry) /\ i \in 1 .. Len(alarmLog) /\ alarmLog' = [alarmLog EXCEPT ![i] = e]
      BY <2>7 DEF AckAlarm, Typed
    <3>2. e \in Entry
      <4>1. alarmLog[i] \in Entry
        BY <3>1
      <4> QED
        BY <4>1 DEF Entry
    <3> HIDE DEF e
    <3>3. alarmLog' \in Seq(Entry)
      BY <3>1, <3>2, ExceptSeq
    <3> QED
      BY <2>7, <3>3 DEF AckAlarm, Typed
  <2>8. CASE ResetClock
    BY <2>8 DEF ResetClock, Typed
  <2>9. CASE Reload
    BY <2>9 DEF Reload, Typed, AlarmStates
  <2>10. CASE Restart
    BY <2>10 DEF Restart, Typed, AlarmStates
  <2> QED
    BY <2>1, <2>2, <2>3, <2>4, <2>5, <2>6, <2>7, <2>8, <2>9, <2>10 DEF AlarmNext
<1> QED
  BY <1>1, <1>2, PTL DEF AlarmSpec

---------------------------------------------------------------------------
\* The end of the log after one more entry.
LEMMA ToldAfterEntry ==
  ASSUME Typed, LogAlarm PROVE alarmLog' # <<>> /\ alarmLog'[Len(alarmLog')].to = writing.to
BY DEF LogAlarm, Typed, Change, Entry

\* Acknowledging an entry leaves the end of the log alone.
LEMMA ToldAfterAck ==
  ASSUME Typed, NEW i \in DOMAIN alarmLog, AckAlarm(i) PROVE Told' = Told
<1>1. alarmLog' # <<>> /\ alarmLog # <<>> /\ Len(alarmLog') = Len(alarmLog)
  BY DEF AckAlarm, Typed, Entry
<1>2. Len(alarmLog) \in DOMAIN alarmLog
  BY <1>1 DEF Typed
<1>3. alarmLog'[Len(alarmLog)].to = alarmLog[Len(alarmLog)].to
  BY <1>2 DEF AckAlarm, Typed, Entry
<1> QED
  BY <1>1, <1>3 DEF Told

\* The newest entry tells the state, for all values, limits and delays.
THEOREM LogIsTrue == AlarmSpec => []LogTellsState
<1>1. AlarmInit => LogTellsState
  BY DEF AlarmInit, LogTellsState, Told
<1>2. Typed /\ LogTellsState /\ [AlarmNext]_arVars => LogTellsState'
  <2> SUFFICES ASSUME Typed, LogTellsState, [AlarmNext]_arVars PROVE LogTellsState'
    OBVIOUS
  <2>1. CASE UNCHANGED arVars
    BY <2>1 DEF LogTellsState, Told, arVars
  <2>2. ASSUME NEW value \in PresentValues, Evaluated(value) PROVE LogTellsState'
    <3> DEFINE target == Target(value)
    <3>1. UNCHANGED alarmLog /\ writing = NoState
      BY <2>2 DEF Evaluated
    <3>2. target \in AlarmStates
      BY TargetIsState
    <3> HIDE DEF target
    <3>3. CASE Stays(target, elapsed')
      BY <3>1, <3>3 DEF Stays, LogTellsState, Told
    <3>4. CASE Waits(target, elapsed')
      BY <3>1, <3>4 DEF Waits, LogTellsState, Told
    <3>5. CASE Confirms(target, elapsed')
      <4>1. CASE ~Enabled(target)
        BY <3>5, <4>1 DEF Confirms, LogTellsState
      <4>2. CASE Enabled(target)
        <5>1. writing' = [from |-> confirmed, to |-> target] /\ confirmed' = target
          BY <3>5, <4>2 DEF Confirms
        <5>2. writing' # NoState
          BY <3>2, <5>1, AlarmAssumption DEF Typed, AlarmStates, AlarmAssumption
        <5> QED
          BY <5>1, <5>2 DEF LogTellsState
      <4> QED
        BY <4>1, <4>2
    <3> QED
      BY <2>2, <3>3, <3>4, <3>5 DEF Evaluated, target
  <2>3. CASE NotEvaluated
    BY <2>3 DEF NotEvaluated, LogTellsState, Told
  <2>4. CASE LogAlarm
    BY <2>4, ToldAfterEntry DEF LogAlarm, LogTellsState, Told
  <2>5. CASE LogFails
    BY <2>5 DEF LogFails, LogTellsState
  <2>6. CASE SetAlarmConfig
    BY <2>6 DEF SetAlarmConfig, LogTellsState, Told
  <2>7. ASSUME NEW i \in DOMAIN alarmLog, AckAlarm(i) PROVE LogTellsState'
    BY <2>7, ToldAfterAck DEF AckAlarm, LogTellsState
  <2>8. CASE ResetClock
    BY <2>8 DEF ResetClock, LogTellsState, Told
  <2>9. CASE Reload
    BY <2>9 DEF Reload, LogTellsState, Told, Typed
  <2>10. CASE Restart
    BY <2>10 DEF Restart, LogTellsState, Told, Typed
  <2> QED
    BY <2>1, <2>2, <2>3, <2>4, <2>5, <2>6, <2>7, <2>8, <2>9, <2>10 DEF AlarmNext
<1> QED
  BY <1>1, <1>2, AlarmTypeCorrect, PTL DEF AlarmSpec

---------------------------------------------------------------------------
\* While a state is pending the history has counted at least the ticks since
\* pendingSince, which a reset can only make look shorter.
PendingMeasured ==
  pending # NoState =>
    /\ held.target = pending
    /\ held.for >= elapsed - pendingSince \/ held.for >= TimeDelay + TimeDelayNormal

\* Counting one more tick keeps up with the clock.
LEMMA LaterKeepsUp ==
  ASSUME AlarmAssumption, NEW n \in Nat, NEW t \in Int,
         n >= t \/ n >= TimeDelay + TimeDelayNormal
  PROVE  Later(n) >= t + 1 \/ Later(n) >= TimeDelay + TimeDelayNormal
BY DEF Later, AlarmAssumption

\* What an evaluation leaves pending is measured, and a transition is earned.
LEMMA EvaluationMeasures ==
  ASSUME Typed, PendingMeasured, NEW value \in PresentValues, Evaluated(value)
  PROVE  /\ PendingMeasured'
         /\ confirmed' # confirmed =>
              held'.target = confirmed' /\ held'.for >= Delay(confirmed')
<1> DEFINE target == Target(value)
<1>1. target \in AlarmStates
  BY TargetIsState
<1>2. Held(target) /\ (Stays(target, elapsed') \/ Waits(target, elapsed') \/ Confirms(target, elapsed'))
  BY DEF Evaluated
<1>3. elapsed' = elapsed + 1
  BY DEF Evaluated
<1>4. held' \in [target : AlarmStates, for : Nat] /\ held'.target = target
  BY <1>1, <1>2, HeldTyped DEF Held, Typed
<1> HIDE DEF target
<1>5. target # NoState
  BY <1>1, AlarmAssumption DEF AlarmAssumption, AlarmStates
<1>6. held'.for >= elapsed' - Since(target, elapsed') \/ held'.for >= TimeDelay + TimeDelayNormal
  <2>1. CASE pending # target
    BY <1>3, <1>4, <2>1 DEF Since, Typed
  <2>2. CASE pending = target
    <3>1. held' = [held EXCEPT !.for = Later(@)]
      BY <1>2, <1>5, <2>2 DEF Held, PendingMeasured
    <3>2. held.for >= elapsed - pendingSince \/ held.for >= TimeDelay + TimeDelayNormal
      BY <1>5, <2>2 DEF PendingMeasured
    <3>3. held'.for = Later(held.for)
      BY <3>1 DEF Typed
    <3>4. /\ held.for \in Nat /\ elapsed - pendingSince \in Int
          /\ elapsed' - Since(target, elapsed') = (elapsed - pendingSince) + 1
      BY <1>3, <2>2 DEF Typed, Since
    <3> QED
      BY <3>2, <3>3, <3>4, LaterKeepsUp, AlarmAssumption
  <2> QED
    BY <2>1, <2>2
<1>7. CASE Stays(target, elapsed')
  BY <1>7 DEF Stays, PendingMeasured
<1>8. CASE Waits(target, elapsed')
  BY <1>4, <1>6, <1>8 DEF Waits, PendingMeasured
<1>9. CASE Confirms(target, elapsed')
  <2>1. pending' = NoState /\ confirmed' = target
    BY <1>9 DEF Confirms
  <2>2. elapsed' - Since(target, elapsed') >= Delay(target)
    BY <1>9 DEF Confirms, DelayOver
  <2>3. Delay(target) \in Nat /\ Delay(target) <= TimeDelay + TimeDelayNormal
    BY AlarmAssumption DEF Delay, AlarmAssumption
  <2>4. held'.for \in Nat /\ elapsed' - Since(target, elapsed') \in Int
    BY <1>3, <1>4 DEF Since, Typed
  <2>5. TimeDelay + TimeDelayNormal \in Nat
    BY AlarmAssumption DEF AlarmAssumption
  <2>6. held'.for >= Delay(target)
    <3> HIDE DEF target
    <3> DEFINE n == held'.for
               t == elapsed' - Since(target, elapsed')
               d == Delay(target)
               most == TimeDelay + TimeDelayNormal
    <3>1. n \in Nat /\ t \in Int /\ d \in Nat /\ most \in Nat /\ t >= d /\ d <= most
      BY <2>2, <2>3, <2>4, <2>5
    <3>2. n >= t \/ n >= most
      BY <1>6
    <3> HIDE DEF n, t, d, most
    <3>3. n >= d
      BY <3>1, <3>2
    <3> QED
      BY <3>3 DEF n, d
  <2> QED
    BY <1>4, <2>1, <2>6 DEF PendingMeasured
<1> QED
  BY <1>2, <1>7, <1>8, <1>9

\* What is pending is measured, in every reachable state.
LEMMA PendingIsMeasured == AlarmSpec => []PendingMeasured
<1>1. AlarmInit => PendingMeasured
  BY DEF AlarmInit, PendingMeasured
<1>2. Typed /\ PendingMeasured /\ [AlarmNext]_arVars => PendingMeasured'
  <2> SUFFICES ASSUME Typed, PendingMeasured, [AlarmNext]_arVars PROVE PendingMeasured'
    OBVIOUS
  <2>1. CASE UNCHANGED arVars
    BY <2>1 DEF PendingMeasured, arVars
  <2>2. ASSUME NEW value \in PresentValues, Evaluated(value) PROVE PendingMeasured'
    BY <2>2, EvaluationMeasures
  <2>3. CASE NotEvaluated
    <3>1. held'.for = Later(held.for) /\ held'.target = held.target
      BY <2>3 DEF NotEvaluated, Typed
    <3>2. held.for \in Nat /\ elapsed - pendingSince \in Int
      BY DEF Typed
    <3>3. elapsed' - pendingSince' = (elapsed - pendingSince) + 1 /\ UNCHANGED pending
      BY <2>3 DEF NotEvaluated, Typed
    <3> QED
      BY <3>1, <3>2, <3>3, LaterKeepsUp, AlarmAssumption DEF PendingMeasured
  <2>4. CASE LogAlarm
    BY <2>4 DEF LogAlarm, PendingMeasured
  <2>5. CASE LogFails
    BY <2>5 DEF LogFails, PendingMeasured
  <2>6. CASE SetAlarmConfig
    BY <2>6 DEF SetAlarmConfig, PendingMeasured
  <2>7. ASSUME NEW i \in DOMAIN alarmLog, AckAlarm(i) PROVE PendingMeasured'
    BY <2>7 DEF AckAlarm, PendingMeasured
  <2>8. CASE ResetClock
    BY <2>8 DEF ResetClock, PendingMeasured, Typed
  <2>9. CASE Reload
    BY <2>9 DEF Reload, PendingMeasured
  <2>10. CASE Restart
    BY <2>10 DEF Restart, PendingMeasured
  <2> QED
    BY <2>1, <2>2, <2>3, <2>4, <2>5, <2>6, <2>7, <2>8, <2>9, <2>10 DEF AlarmNext
<1> QED
  BY <1>1, <1>2, AlarmTypeCorrect, PTL DEF AlarmSpec

\* No transition is confirmed before its delay, whatever the clock does.
THEOREM TransitionsAreEarned == AlarmSpec => TransitionEarned
<1>1. Typed /\ PendingMeasured /\ [AlarmNext]_arVars
        => [confirmed' # confirmed /\ elapsed' > elapsed =>
              held'.target = confirmed' /\ held'.for >= Delay(confirmed')]_arVars
  <2> SUFFICES ASSUME Typed, PendingMeasured, AlarmNext, confirmed' # confirmed, elapsed' > elapsed
               PROVE  held'.target = confirmed' /\ held'.for >= Delay(confirmed')
    BY DEF arVars
  <2>1. ASSUME NEW value \in PresentValues, Evaluated(value)
        PROVE  held'.target = confirmed' /\ held'.for >= Delay(confirmed')
    BY <2>1, EvaluationMeasures
  <2>2. ~(NotEvaluated \/ LogAlarm \/ LogFails \/ SetAlarmConfig \/ ResetClock)
    BY DEF NotEvaluated, LogAlarm, LogFails, SetAlarmConfig, ResetClock
  <2>3. \A i \in DOMAIN alarmLog : ~AckAlarm(i)
    BY DEF AckAlarm
  <2>4. ~(Reload \/ Restart)
    BY DEF Reload, Restart, Typed
  <2> QED
    BY <2>1, <2>2, <2>3, <2>4 DEF AlarmNext
<1> QED
  BY <1>1, AlarmTypeCorrect, PendingIsMeasured, PTL DEF AlarmSpec, TransitionEarned

---------------------------------------------------------------------------
\* Event reporting implements AlarmLog: an evaluation that confirms is a Move,
\* writing the entry is its Deliver, everything that loses memory a Forget.
THEOREM Implements == AlarmSpec => KeepsAlarmLog
<1>1. AlarmInit => Log!AlarmLogInit
  BY DEF AlarmInit, Log!AlarmLogInit
<1>2. Typed /\ [AlarmNext]_arVars => [Log!AlarmLogNext]_(Log!alVars)
  <2> SUFFICES ASSUME Typed, [AlarmNext]_arVars PROVE [Log!AlarmLogNext]_(Log!alVars)
    OBVIOUS
  <2>1. CASE UNCHANGED arVars
    BY <2>1 DEF arVars, Log!alVars
  <2>2. ASSUME NEW value \in PresentValues, Evaluated(value)
        PROVE  [Log!AlarmLogNext]_(Log!alVars)
    <3> DEFINE target == Target(value)
    <3>1. target \in AlarmStates /\ writing = NoState /\ UNCHANGED alarmLog
      BY <2>2, TargetIsState DEF Evaluated
    <3> HIDE DEF target
    <3>2. CASE Stays(target, elapsed')
      BY <3>1, <3>2 DEF Stays, Log!alVars
    <3>3. CASE Waits(target, elapsed')
      BY <3>1, <3>3 DEF Waits, Log!alVars
    <3>4. CASE Confirms(target, elapsed')
      BY <3>1, <3>4 DEF Confirms, Log!Move, Log!AlarmLogNext
    <3> QED
      BY <2>2, <3>2, <3>3, <3>4 DEF Evaluated, target
  <2>3. CASE NotEvaluated
    BY <2>3 DEF NotEvaluated, Log!alVars
  <2>4. CASE LogAlarm
    BY <2>4 DEF LogAlarm, Log!Deliver, Log!AlarmLogNext
  <2>5. CASE LogFails
    BY <2>5 DEF LogFails, Log!Forget, Log!AlarmLogNext
  <2>6. CASE SetAlarmConfig
    BY <2>6 DEF SetAlarmConfig, Log!alVars
  <2>7. ASSUME NEW i \in DOMAIN alarmLog, AckAlarm(i) PROVE [Log!AlarmLogNext]_(Log!alVars)
    BY <2>7 DEF AckAlarm, Log!Acknowledge, Log!AlarmLogNext
  <2>8. CASE ResetClock
    BY <2>8 DEF ResetClock, Log!alVars
  <2>9. CASE Reload
    BY <2>9 DEF Reload, Log!Forget, Log!AlarmLogNext
  <2>10. CASE Restart
    BY <2>10 DEF Restart, Log!Forget, Log!AlarmLogNext
  <2> QED
    BY <2>1, <2>2, <2>3, <2>4, <2>5, <2>6, <2>7, <2>8, <2>9, <2>10 DEF AlarmNext
<1> QED
  BY <1>1, <1>2, AlarmTypeCorrect, PTL DEF AlarmSpec, KeepsAlarmLog, Log!AlarmLogSpec

---------------------------------------------------------------------------
(* Projects.  Rows that have ids of their own and refer to rows of the     *)
(* right tables keep that under every edit and in every snapshot; a load   *)
(* shifts all ids of such rows by the same number.                         *)

LocationsOf(rows) == {r \in rows : r.table = "locations"}

\* What holds of the rows of every snapshot.
Sound(rows) == IsFiniteSet(rows) /\ Keyed(rows)

Saving(p) == p = [rows |-> p.rows, connections |-> p.connections] /\ Sound(p.rows)

ProjectTyped ==
  /\ Sound(liveProject) /\ lastId \in Nat
  /\ Saving(profile) /\ (relinking # NoProjectRow => Saving(relinking))
  /\ loading = [step |-> loading.step, rows |-> loading.rows, shift |-> loading.shift, saved |-> loading.saved]
  /\ loading.step \in {"idle", "wiped", "locations"} /\ loading.shift \in Nat
  /\ Sound(loading.rows)

\* While a load is under way, the tables hold what it has put there, or what a
\* clear has left of it.
LoadUnderWay ==
  LET back == LocationsOf(Restored(loading.rows, loading.shift))
  IN /\ loading.step = "wiped" => liveProject = {}
     /\ loading.step = "locations" => liveProject = {} \/ liveProject = back
     /\ loading.step = "locations" /\ loading.saved # NoProjectRow => liveProject = back
     /\ loading.step # "idle" => fresh = NoProjectRow
     /\ loading.step # "idle" /\ ~relinked /\ loading.saved # NoProjectRow =>
          Sound(loading.saved) /\ loading.rows = Restorable(loading.saved)

SavedIsStored == ~relinked => profile.rows = lastSaved

ProjectsInv == ProjectTyped /\ LoadUnderWay /\ SavedIsStored /\ RestoredAsSaved

\* The tables that refer to objects.
Attached == {"trendLogs", "targets", "mappings", "exposures", "aggregates", "entities"}

(* What refers to an object does so by a key that goes along or refuses,   *)
(* and is itself referred to at most by relationships.                     *)
LEMMA SchemaOfObjects ==
  /\ \A t, f : <<t, f, "objects">> \in ForeignKeys =>
       t \in Attached /\ f \in {"point", "weight", "object"} /\ (f = "weight" => t = "aggregates")
  /\ \A t, f, u : <<t, f, u>> \in ForeignKeys /\ u \in Attached =>
       t = "relationships" /\ f \in {"entity", "peer"}
  /\ \A t, f : <<t, f, "relationships">> \notin ForeignKeys
<1>1. ASSUME NEW t, NEW f, <<t, f, "objects">> \in ForeignKeys
      PROVE  t \in Attached /\ f \in {"point", "weight", "object"} /\ (f = "weight" => t = "aggregates")
  BY <1>1 DEF ForeignKeys, Attached
<1>2. ASSUME NEW t, NEW f, NEW u, <<t, f, u>> \in ForeignKeys, u \in Attached
      PROVE  t = "relationships" /\ f \in {"entity", "peer"}
  BY <1>2 DEF ForeignKeys, Attached
<1>3. ASSUME NEW t, NEW f, <<t, f, "relationships">> \in ForeignKeys PROVE FALSE
  BY <1>3 DEF ForeignKeys
<1> QED BY <1>1, <1>2, <1>3

\* Tables whose rows need none but locations, and tables whose rows need
\* those at most.
First == {"locations", "devices", "equipment", "models"}
Second == {"objects", "schedules", "calendars", "energyConfigs", "entities"}

(* A row that is no location needs rows of other tables only, and in no    *)
(* circle.                                                                 *)
LEMMA SchemaOfNeeds ==
  /\ \A f, u : <<"locations", f, u>> \in ForeignKeys => f = "parent" /\ u = "locations"
  /\ \A t, f, u : <<t, f, u>> \in ForeignKeys /\ t # "locations" /\ f \in Needed =>
       /\ t \notin First
       /\ t \in Second => u \in First \ {"locations"}
       /\ t \notin Second => u \in (First \cup Second) \ {"locations"}
<1>1. ASSUME NEW f, NEW u, <<"locations", f, u>> \in ForeignKeys PROVE f = "parent" /\ u = "locations"
  BY <1>1 DEF ForeignKeys
<1>2. ASSUME NEW t, NEW f, NEW u, <<t, f, u>> \in ForeignKeys, t # "locations", f \in Needed
      PROVE  /\ t \notin First
             /\ t \in Second => u \in First \ {"locations"}
             /\ t \notin Second => u \in (First \cup Second) \ {"locations"}
  BY <1>2 DEF ForeignKeys, First, Second, Needed
<1> QED BY <1>1, <1>2

(* What is true of the rows of a snapshot is true of any of them.          *)
LEMMA FewerAreSound ==
  ASSUME NEW rows, Sound(rows), NEW fewer \in SUBSET rows
  PROVE  Sound(fewer)
BY FS_Subset DEF Sound, Keyed

(* Among any rows there is one that needs none of the others.              *)
LEMMA LeastNeedy ==
  ASSUME NEW rows, Sound(rows), Rooted(rows), NEW T \in SUBSET rows, T # {}
  PROVE  \E r \in T : \A f \in DOMAIN r.refs : f \in Needed => r.refs[f] \notin Ids(T)
<1>1. \A r \in T : \A f \in DOMAIN r.refs : r.refs[f] \in Ids(T) =>
        \E s \in T : r.refs[f] = s.id /\ <<r.table, f, s.table>> \in ForeignKeys
  BY DEF Sound, Keyed, Ids
<1>2. CASE LocationsOf(T) # {}
  <2>1. LocationsOf(T) \in SUBSET {r \in rows : r.table = "locations"}
    BY DEF LocationsOf
  <2>2. PICK r \in LocationsOf(T) : \A ref \in RefsOf(r) : ref[2] \notin Ids(LocationsOf(T))
    BY <1>2, <2>1 DEF Rooted
  <2>3. r \in T /\ r.table = "locations"
    BY <2>2 DEF LocationsOf
  <2>4. ASSUME NEW f \in DOMAIN r.refs, r.refs[f] \in Ids(T) PROVE FALSE
    <3>1. PICK s \in T : r.refs[f] = s.id /\ <<r.table, f, s.table>> \in ForeignKeys
      BY <1>1, <2>3, <2>4
    <3>2. s.table = "locations"
      BY <2>3, <3>1, SchemaOfNeeds
    <3>3. s \in LocationsOf(T)
      BY <3>2 DEF LocationsOf
    <3>4. r.refs[f] \in Ids(LocationsOf(T))
      BY <3>1, <3>3 DEF Ids
    <3>5. <<f, r.refs[f]>> \in RefsOf(r) /\ <<f, r.refs[f]>>[2] = r.refs[f]
      BY DEF RefsOf
    <3> QED BY <2>2, <3>4, <3>5
  <2> QED BY <2>3, <2>4
<1>3. CASE LocationsOf(T) = {}
  <2>1. \A s \in T : s.table # "locations"
    BY <1>3 DEF LocationsOf
  <2>2. \A r \in T : \A f \in DOMAIN r.refs : f \in Needed /\ r.refs[f] \in Ids(T) =>
          /\ r.table \notin First
          /\ \E s \in T : /\ r.table \in Second => s.table \in First
                          /\ r.table \notin Second => s.table \in First \cup Second
    <3>1. ASSUME NEW r \in T, NEW f \in DOMAIN r.refs, f \in Needed, r.refs[f] \in Ids(T)
          PROVE  /\ r.table \notin First
                 /\ \E s \in T : /\ r.table \in Second => s.table \in First
                                 /\ r.table \notin Second => s.table \in First \cup Second
      <4>1. PICK s \in T : r.refs[f] = s.id /\ <<r.table, f, s.table>> \in ForeignKeys
        BY <1>1, <3>1
      <4> QED BY <2>1, <3>1, <4>1, SchemaOfNeeds
    <3> QED BY <3>1
  <2>3. CASE \E r \in T : r.table \in First
    BY <2>2, <2>3
  <2>4. CASE (\A r \in T : r.table \notin First) /\ \E r \in T : r.table \in Second
    BY <2>2, <2>4
  <2>5. CASE \A r \in T : r.table \notin First \cup Second
    BY <2>2, <2>5
  <2> QED BY <2>3, <2>4, <2>5
<1> QED BY <1>2, <1>3

\* One round of Restorable.
RoundOf(rows, kept) ==
  {r \in rows : \A ref \in RefsOf(r) : ref[1] \in Needed /\ ref[2] # NoProjectRow => ref[2] \in Ids(kept)}

(* The recursion of Restorable, written out.                               *)
LEMMA RestorableGrows ==
  ASSUME NEW rows, IsFiniteSet(rows)
  PROVE  \E grown \in [0..Cardinality(rows) -> SUBSET rows] :
           /\ Restorable(rows) = grown[Cardinality(rows)] /\ grown[0] = {}
           /\ \A n \in 1..Cardinality(rows) : grown[n] = RoundOf(rows, grown[n - 1])
<1> DEFINE N == Cardinality(rows)
           round == [kept \in SUBSET rows |-> RoundOf(rows, kept)]
           Is(g) == g = [n \in 0..N |-> IF n = 0 THEN {} ELSE
                           {r \in rows : \A ref \in RefsOf(r) :
                              ref[1] \in Needed /\ ref[2] # NoProjectRow => ref[2] \in Ids(g[n - 1])}]
           grown == CHOOSE g : Is(g)
<1>0. N \in Nat
  BY FS_CardinalityType
<1>1. \A kept : RoundOf(rows, kept) \in SUBSET rows
  BY DEF RoundOf
<1>2. round \in [SUBSET rows -> SUBSET rows] /\ {} \in SUBSET rows
  BY <1>1
<1>3. PICK h \in [0..N -> SUBSET rows] : Iterates(N, {}, round, h)
  <2> HIDE DEF round, N
  <2>1. \A base \in SUBSET rows : \E h \in [0..N -> SUBSET rows] : Iterates(N, base, round, h)
    BY <1>0, <1>2, IteratesExist
  <2> QED BY <1>2, <2>1
<1>4. \A n \in 1..N : h[n] = RoundOf(rows, h[n - 1])
  <2>1. ASSUME NEW n \in 1..N PROVE h[n] = RoundOf(rows, h[n - 1])
    <3>1. n - 1 \in 0..N
      BY <1>0
    <3>2. h[n] = round[h[n - 1]]
      BY <1>3 DEF Iterates
    <3> QED BY <3>1, <3>2
  <2> QED BY <2>1
<1>5. Is(h)
  <2>1. ASSUME NEW n \in 0..N
        PROVE  h[n] = IF n = 0 THEN {} ELSE
                        {r \in rows : \A ref \in RefsOf(r) :
                           ref[1] \in Needed /\ ref[2] # NoProjectRow => ref[2] \in Ids(h[n - 1])}
    <3>1. CASE n = 0
      BY <1>3, <3>1 DEF Iterates
    <3>2. CASE n # 0
      <4>1. n \in 1..N
        BY <1>0, <3>2
      <4> QED BY <1>4, <3>2, <4>1 DEF RoundOf
    <3> QED BY <3>1, <3>2
  <2> QED BY <2>1
<1>6. Is(grown)
  <2> HIDE DEF Is
  <2> QED BY <1>5
<1>7. Restorable(rows) = grown[N]
  BY DEF Restorable
<1> HIDE DEF grown
<1>8. \A n \in 0..N : grown[n] = IF n = 0 THEN {} ELSE RoundOf(rows, grown[n - 1])
  BY <1>6 DEF RoundOf
<1>9. grown = [n \in 0..N |-> grown[n]]
  BY <1>6
<1>10. grown[0] = {}
  BY <1>0, <1>8
<1>11. \A n \in 1..N : grown[n] = RoundOf(rows, grown[n - 1])
  <2>1. \A n \in 1..N : n \in 0..N /\ n # 0
    BY <1>0
  <2> HIDE DEF N
  <2> QED BY <1>8, <2>1, Zenon
<1>12. \A n \in 0..N : grown[n] \in SUBSET rows
  BY <1>1, <1>8
<1>13. grown \in [0..N -> SUBSET rows]
  BY <1>9, <1>12
<1> QED BY <1>7, <1>10, <1>11, <1>13

(* Nothing comes back that was not stored, and all of it does if no row    *)
(* misses another one and parents have no cycle.                           *)
LEMMA RestorableRows ==
  ASSUME NEW rows, Sound(rows)
  PROVE  /\ Restorable(rows) \in SUBSET rows
         /\ Closed(rows) /\ Rooted(rows) => Restorable(rows) = rows
<1> DEFINE N == Cardinality(rows)
<1>0. N \in Nat /\ IsFiniteSet(rows)
  BY FS_CardinalityType DEF Sound
<1>1. PICK grown \in [0..N -> SUBSET rows] :
        /\ Restorable(rows) = grown[N] /\ grown[0] = {}
        /\ \A n \in 1..N : grown[n] = RoundOf(rows, grown[n - 1])
  BY <1>0, RestorableGrows
<1>2. Restorable(rows) \in SUBSET rows
  BY <1>0, <1>1
<1>3. ASSUME Closed(rows), Rooted(rows) PROVE Restorable(rows) = rows
  <2> DEFINE good == {n \in Nat : n + 1 <= N => /\ grown[n] \in SUBSET grown[n + 1]
                                                /\ n <= Cardinality(grown[n])
                                                /\ grown[n] = rows \/ n + 1 <= Cardinality(grown[n + 1])}
  <2>1. \A n \in 0..N : IsFiniteSet(grown[n]) /\ Cardinality(grown[n]) \in Nat /\ grown[n] \in SUBSET rows
    <3>1. ASSUME NEW n \in 0..N PROVE IsFiniteSet(grown[n]) /\ Cardinality(grown[n]) \in Nat /\ grown[n] \in SUBSET rows
      <4>1. grown[n] \in SUBSET rows
        BY <1>1
      <4> QED BY <1>0, <4>1, FS_Subset, FS_CardinalityType
    <3> QED BY <3>1
  <2>2. \A few, more \in SUBSET rows : few \subseteq more => RoundOf(rows, few) \subseteq RoundOf(rows, more)
    BY DEF RoundOf, Ids
  <2>3. ASSUME NEW kept \in SUBSET rows, kept # rows
        PROVE  \E r \in rows \ kept : r \in RoundOf(rows, kept)
    <3>1. rows \ kept \in SUBSET rows /\ rows \ kept # {}
      BY <2>3
    <3>2. PICK r \in rows \ kept : \A f \in DOMAIN r.refs : f \in Needed => r.refs[f] \notin Ids(rows \ kept)
      BY <1>3, <3>1, LeastNeedy
    <3>3. ASSUME NEW ref \in RefsOf(r), ref[1] \in Needed, ref[2] # NoProjectRow PROVE ref[2] \in Ids(kept)
      <4>1. PICK f \in DOMAIN r.refs : ref = <<f, r.refs[f]>>
        BY DEF RefsOf
      <4>2. ref[2] \in Ids(rows) /\ ref[2] \notin Ids(rows \ kept)
        BY <1>3, <3>2, <3>3, <4>1 DEF Closed
      <4> QED BY <4>2 DEF Ids
    <3> QED BY <3>3 DEF RoundOf
  <2>4. ASSUME NEW n \in Nat, n + 1 <= N, grown[n] \in SUBSET grown[n + 1], n <= Cardinality(grown[n])
        PROVE  grown[n] = rows \/ n + 1 <= Cardinality(grown[n + 1])
    <3>1. n \in 0..N /\ n + 1 \in 0..N /\ n + 1 \in 1..N /\ (n + 1) - 1 = n
      BY <1>0, <2>4
    <3>2. CASE grown[n] # rows
      <4>1. PICK r \in rows \ grown[n] : r \in RoundOf(rows, grown[n])
        BY <2>1, <2>3, <3>1, <3>2
      <4>2. grown[n + 1] = RoundOf(rows, grown[n])
        BY <1>1, <3>1
      <4>3. grown[n] \subseteq grown[n + 1] /\ grown[n] # grown[n + 1]
        BY <2>4, <4>1, <4>2
      <4>4. IsFiniteSet(grown[n + 1]) /\ Cardinality(grown[n + 1]) \in Nat /\ Cardinality(grown[n]) \in Nat
        BY <2>1, <3>1
      <4>5. Cardinality(grown[n]) < Cardinality(grown[n + 1])
        <5> DEFINE less == grown[n]
                   greater == grown[n + 1]
        <5> HIDE DEF less, greater
        <5>1. less \subseteq greater /\ less # greater /\ IsFiniteSet(greater)
          BY <4>3, <4>4 DEF less, greater
        <5>2. Cardinality(less) < Cardinality(greater)
          <6>1. Cardinality(less) <= Cardinality(greater) /\ (Cardinality(less) = Cardinality(greater) => less = greater)
            BY <5>1, FS_Subset
          <6>2. Cardinality(less) \in Nat /\ Cardinality(greater) \in Nat
            BY <4>4 DEF less, greater
          <6> QED BY <5>1, <6>1, <6>2
        <5> QED BY <5>2 DEF less, greater
      <4> QED BY <2>4, <4>4, <4>5
    <3> QED BY <3>2
  <2>5. 0 \in good
    <3> SUFFICES ASSUME 0 + 1 <= N
                 PROVE  /\ grown[0] \in SUBSET grown[0 + 1] /\ 0 <= Cardinality(grown[0])
                        /\ grown[0] = rows \/ 0 + 1 <= Cardinality(grown[0 + 1])
      OBVIOUS
    <3>1. grown[0] \in SUBSET grown[0 + 1]
      BY <1>1
    <3>2. 0 <= Cardinality(grown[0])
      BY <1>1, FS_EmptySet
    <3> QED BY <2>4, <3>1, <3>2
  <2>6. ASSUME NEW n \in good PROVE n + 1 \in good
    <3> SUFFICES ASSUME (n + 1) + 1 <= N
                 PROVE  /\ grown[n + 1] \in SUBSET grown[(n + 1) + 1] /\ n + 1 <= Cardinality(grown[n + 1])
                        /\ grown[n + 1] = rows \/ (n + 1) + 1 <= Cardinality(grown[(n + 1) + 1])
      BY <2>6
    <3>1. n \in Nat /\ n + 1 \in Nat /\ n + 1 <= N /\ n \in 0..N /\ n + 1 \in 0..N
          /\ n + 1 \in 1..N /\ (n + 1) + 1 \in 1..N /\ (n + 1) + 1 \in 0..N
          /\ (n + 1) - 1 = n /\ ((n + 1) + 1) - 1 = n + 1
      BY <1>0, <2>6
    <3>2. grown[n] \in SUBSET grown[n + 1] /\ (grown[n] = rows \/ n + 1 <= Cardinality(grown[n + 1]))
      BY <2>6, <3>1
    <3>3. grown[n + 1] = RoundOf(rows, grown[n]) /\ grown[(n + 1) + 1] = RoundOf(rows, grown[n + 1])
      BY <1>1, <3>1
    <3>4. grown[n + 1] \in SUBSET grown[(n + 1) + 1]
      BY <2>1, <2>2, <3>1, <3>2, <3>3
    <3>5. n + 1 <= Cardinality(grown[n + 1])
      <4>1. CASE grown[n] = rows
        <5>1. grown[n + 1] = rows
          BY <2>1, <3>1, <3>2, <4>1
        <5> QED BY <3>1, <5>1
      <4> QED BY <3>2, <4>1
    <3> QED BY <2>4, <3>1, <3>4, <3>5
  <2>7. good = Nat
    <3>1. good \in SUBSET Nat
      OBVIOUS
    <3> HIDE DEF good
    <3> QED BY <2>5, <2>6, <3>1, SetInduction
  <2>8. grown[N] = rows
    <3>1. CASE N = 0
      <4>1. rows = {}
        BY <1>0, <3>1, FS_EmptySet
      <4> QED BY <1>1, <3>1, <4>1
    <3>2. CASE N # 0
      <4>1. N - 1 \in Nat /\ (N - 1) + 1 = N /\ N \in 0..N /\ N - 1 \in 0..N /\ N <= N
        BY <1>0, <3>2
      <4>2. grown[N - 1] \in SUBSET grown[N] /\ (grown[N - 1] = rows \/ N <= Cardinality(grown[N]))
        <5>1. N - 1 \in good
          BY <2>7, <4>1
        <5>2. (N - 1) + 1 <= N => /\ grown[N - 1] \in SUBSET grown[(N - 1) + 1]
                                  /\ grown[N - 1] = rows \/ (N - 1) + 1 <= Cardinality(grown[(N - 1) + 1])
          BY <5>1
        <5> HIDE DEF N
        <5> QED BY <4>1, <5>2
      <4>3. grown[N] \in SUBSET rows /\ Cardinality(grown[N]) \in Nat
        BY <2>1, <4>1
      <4>4. CASE grown[N - 1] = rows
        BY <4>2, <4>3, <4>4
      <4>5. CASE N <= Cardinality(grown[N])
        <5> DEFINE last == grown[N]
        <5> HIDE DEF last
        <5>1. last \in SUBSET rows /\ N <= Cardinality(last) /\ Cardinality(last) \in Nat
          BY <4>3, <4>5 DEF last
        <5>2. Cardinality(last) <= N /\ (Cardinality(last) = N => last = rows)
          BY <1>0, <5>1, FS_Subset
        <5>3. last = rows
          BY <1>0, <5>1, <5>2
        <5> QED BY <5>3 DEF last
      <4> QED BY <4>2, <4>4, <4>5
    <3> QED BY <3>1, <3>2
  <2> QED BY <1>1, <2>8
<1> QED BY <1>2, <1>3

(* The next id after any rows is a number.                                 *)
LEMMA HighestId ==
  ASSUME NEW rows, Sound(rows)
  PROVE  Max(Ids(rows) \cup {0}) \in Nat
<1> DEFINE S == Ids(rows) \cup {0}
           id == [r \in rows |-> r.id]
<1>1. S \in SUBSET Nat /\ S # {}
  BY DEF Sound, Keyed, Ids
<1>2. \E bound \in Nat : \A x \in S : x <= bound
  <2>1. CASE rows = {}
    <3>1. \A x \in S : x <= 0
      BY <2>1 DEF Ids
    <3> QED BY <3>1
  <2>2. CASE rows # {}
    <3>1. id \in [rows -> Int] /\ \A r \in rows : r.id \in Nat
      BY DEF Sound, Keyed
    <3>2. PICK x \in rows : \A y \in rows : id[y] <= id[x]
      <4> HIDE DEF id
      <4> QED BY <2>2, <3>1, LargestExists DEF Sound
    <3>3. \A y \in rows : y.id <= x.id
      BY <3>2
    <3>4. \A n \in S : n <= x.id
      BY <3>1, <3>3 DEF Ids
    <3> QED BY <3>1, <3>4
  <2> QED BY <2>1, <2>2
<1>3. Max(S) \in S
  <2> HIDE DEF S
  <2> QED BY <1>1, <1>2, MaxOfNaturals
<1> QED BY <1>1, <1>3

\* A row under its new id, with its references translated.
Shifted(kept, shift, r) ==
  [table |-> r.table, id |-> r.id + shift, name |-> r.name,
   refs |-> [f \in DOMAIN r.refs |-> Translated(kept, shift, r.refs[f])]]

(* A load shifts ids and translates references, and leaves the rest.       *)
LEMMA RestoredIs ==
  ASSUME NEW kept, Sound(kept), NEW shift
  PROVE  Restored(kept, shift) = {Shifted(kept, shift, r) : r \in kept}
<1>1. ASSUME NEW r \in kept
      PROVE  [r EXCEPT !.id = @ + shift,
                       !.refs = [f \in DOMAIN r.refs |-> Translated(kept, shift, r.refs[f])]]
             = Shifted(kept, shift, r)
  <2>1. r = [table |-> r.table, id |-> r.id, name |-> r.name, refs |-> r.refs]
    BY DEF Sound, Keyed
  <2> DEFINE refs == [f \in DOMAIN r.refs |-> Translated(kept, shift, r.refs[f])]
             id == r.id + shift
  <2> HIDE DEF refs, id
  <2>2. [r EXCEPT !.id = id] = [table |-> r.table, id |-> id, name |-> r.name, refs |-> r.refs]
    BY <2>1
  <2> DEFINE renamed == [r EXCEPT !.id = id]
  <2>3. [r EXCEPT !.id = id, !.refs = refs] = [renamed EXCEPT !.refs = refs]
    OBVIOUS
  <2>4. renamed = [table |-> r.table, id |-> id, name |-> r.name, refs |-> r.refs]
    BY <2>2
  <2> HIDE DEF renamed
  <2>5. [renamed EXCEPT !.refs = refs] = [table |-> r.table, id |-> id, name |-> r.name, refs |-> refs]
    BY <2>4
  <2>6. [r EXCEPT !.id = id, !.refs = refs] = [table |-> r.table, id |-> id, name |-> r.name, refs |-> refs]
    BY <2>3, <2>5, Zenon
  <2> QED BY <2>6 DEF refs, id, Shifted
<1> QED BY <1>1 DEF Restored

(* Of a restored row: where it comes from and what it refers to.           *)
LEMMA ShiftedRow ==
  ASSUME NEW kept, Sound(kept), NEW shift \in Nat, NEW r \in kept
  PROVE  /\ Shifted(kept, shift, r).id = r.id + shift /\ Shifted(kept, shift, r).table = r.table
         /\ Shifted(kept, shift, r).name = r.name
         /\ DOMAIN Shifted(kept, shift, r).refs = DOMAIN r.refs
         /\ \A f \in DOMAIN r.refs : \A s \in kept :
              Shifted(kept, shift, r).refs[f] = Shifted(kept, shift, s).id <=> r.refs[f] = s.id
         /\ \A f \in DOMAIN r.refs :
              Shifted(kept, shift, r).refs[f] = NoProjectRow \/ r.refs[f] \in Ids(kept)
<1>1. \A s \in kept : s.id \in Nat /\ Shifted(kept, shift, s).id = s.id + shift
  BY DEF Shifted, Sound, Keyed
<1>2. \A f \in DOMAIN r.refs : Shifted(kept, shift, r).refs[f] = Translated(kept, shift, r.refs[f])
  BY DEF Shifted
<1>3. ASSUME NEW f \in DOMAIN r.refs, NEW s \in kept
      PROVE  Shifted(kept, shift, r).refs[f] = Shifted(kept, shift, s).id <=> r.refs[f] = s.id
  <2>1. CASE r.refs[f] \in Ids(kept)
    <3>1. r.refs[f] \in Nat /\ Shifted(kept, shift, r).refs[f] = r.refs[f] + shift
      BY <1>1, <1>2, <2>1 DEF Ids, Translated
    <3>2. s.id \in Nat /\ Shifted(kept, shift, s).id = s.id + shift
      BY <1>1
    <3> DEFINE a == r.refs[f]
               b == Shifted(kept, shift, r).refs[f]
               c == Shifted(kept, shift, s).id
               d == s.id
    <3> HIDE DEF a, b, c, d
    <3>3. a \in Nat /\ b = a + shift /\ d \in Nat /\ c = d + shift
      BY <3>1, <3>2 DEF a, b, c, d
    <3>4. b = c <=> a = d
      BY <3>3
    <3> QED BY <3>4 DEF a, b, c, d
  <2>2. CASE r.refs[f] \notin Ids(kept)
    <3>1. Shifted(kept, shift, r).refs[f] = NoProjectRow /\ r.refs[f] # s.id
      BY <1>2, <2>2 DEF Ids, Translated
    <3>2. Shifted(kept, shift, s).id \in Nat
      BY <1>1
    <3> QED BY <3>1, <3>2, ProjectAssumption
  <2> QED BY <2>1, <2>2
<1>4. \A f \in DOMAIN r.refs : Shifted(kept, shift, r).refs[f] = NoProjectRow \/ r.refs[f] \in Ids(kept)
  BY <1>2 DEF Translated
<1>5. /\ Shifted(kept, shift, r).id = r.id + shift /\ Shifted(kept, shift, r).table = r.table
      /\ Shifted(kept, shift, r).name = r.name
      /\ DOMAIN Shifted(kept, shift, r).refs = DOMAIN r.refs
  BY DEF Shifted
<1> QED BY <1>3, <1>4, <1>5

(* What comes back is in order, and complete in itself.                    *)
LEMMA RestoredIsSound ==
  ASSUME NEW kept, Sound(kept), NEW shift \in Nat
  PROVE  Sound(Restored(kept, shift)) /\ Closed(Restored(kept, shift))
<1> DEFINE new == [r \in kept |-> Shifted(kept, shift, r)]
           back == Restored(kept, shift)
<1>1. back = {new[r] : r \in kept}
  BY RestoredIs
<1>2. IsFiniteSet(back)
  <2>1. new \in Surjection(kept, back)
    <3> HIDE DEF new, back
    <3>1. new \in [kept -> back]
      BY <1>1 DEF new
    <3> QED BY <1>1, <3>1 DEF Surjection
  <2> HIDE DEF new, back
  <2> QED BY <2>1, FS_Surjection DEF Sound
<1>3. \A r \in kept : r.id \in Nat
  BY DEF Sound, Keyed
<1>4. Keyed(back)
  <2>1. ASSUME NEW r \in kept
        PROVE  LET b == new[r] IN b.id \in Nat /\ b = [table |-> b.table, id |-> b.id, name |-> b.name, refs |-> b.refs]
    BY <1>3 DEF Shifted
  <2>2. ASSUME NEW r \in kept, NEW s \in kept, new[r].id = new[s].id PROVE r = s
    <3>1. r.id + shift = s.id + shift
      BY <2>2, ShiftedRow
    <3>2. r.id = s.id
      BY <1>3, <3>1
    <3> QED BY <3>2 DEF Sound, Keyed
  <2>3. ASSUME NEW r \in kept, NEW s \in kept, NEW f \in DOMAIN new[r].refs, new[r].refs[f] = new[s].id
        PROVE  <<new[r].table, f, new[s].table>> \in ForeignKeys
    <3>1. f \in DOMAIN r.refs /\ r.refs[f] = s.id
      BY <2>3, ShiftedRow
    <3>2. <<r.table, f, s.table>> \in ForeignKeys
      BY <3>1 DEF Sound, Keyed
    <3>3. new[r].table = r.table /\ new[s].table = s.table
      BY ShiftedRow
    <3> QED BY <3>2, <3>3
  <2> HIDE DEF new, back
  <2>4. \A b \in back : b.id \in Nat /\ b = [table |-> b.table, id |-> b.id, name |-> b.name, refs |-> b.refs]
    BY <1>1, <2>1
  <2>5. \A b, c \in back : b.id = c.id => b = c
    BY <1>1, <2>2
  <2>6. \A b, c \in back : \A f \in DOMAIN b.refs : b.refs[f] = c.id => <<b.table, f, c.table>> \in ForeignKeys
    BY <1>1, <2>3
  <2> QED BY <2>4, <2>5, <2>6 DEF Keyed
<1>5. Closed(back)
  <2>1. ASSUME NEW r \in kept, NEW ref \in RefsOf(new[r]) PROVE ref[2] = NoProjectRow \/ ref[2] \in Ids(back)
    <3>1. PICK f \in DOMAIN new[r].refs : ref = <<f, new[r].refs[f]>>
      BY DEF RefsOf
    <3>2. f \in DOMAIN r.refs
      BY ShiftedRow
    <3>3. CASE r.refs[f] \in Ids(kept)
      <4>1. PICK s \in kept : r.refs[f] = s.id
        BY <3>3 DEF Ids
      <4>2. new[r].refs[f] = new[s].id
        BY <3>2, <4>1, ShiftedRow
      <4>3. new[s] \in back
        BY <1>1
      <4> HIDE DEF new, back
      <4> QED BY <3>1, <4>2, <4>3 DEF Ids
    <3>4. CASE r.refs[f] \notin Ids(kept)
      <4>1. new[r].refs[f] = NoProjectRow
        BY <3>2, <3>4, ShiftedRow
      <4> QED BY <3>1, <4>1
    <3> QED BY <3>3, <3>4
  <2> HIDE DEF new, back
  <2> QED BY <1>1, <2>1 DEF Closed
<1> QED BY <1>2, <1>4, <1>5 DEF Sound

(* The locations are complete without the rest.                            *)
LEMMA LocationsAreClosed ==
  ASSUME NEW rows, Sound(rows), Closed(rows)
  PROVE  Closed(LocationsOf(rows))
<1>1. ASSUME NEW r \in LocationsOf(rows), NEW ref \in RefsOf(r), ref[2] # NoProjectRow
      PROVE  ref[2] \in Ids(LocationsOf(rows))
  <2>1. PICK f \in DOMAIN r.refs : ref = <<f, r.refs[f]>>
    BY DEF RefsOf
  <2>2. r \in rows /\ r.table = "locations"
    BY DEF LocationsOf
  <2>3. PICK s \in rows : r.refs[f] = s.id
    BY <1>1, <2>1, <2>2 DEF Closed, Ids
  <2>4. <<"locations", f, s.table>> \in ForeignKeys
    BY <2>2, <2>3 DEF Sound, Keyed
  <2>5. s \in LocationsOf(rows)
    BY <2>4, SchemaOfNeeds DEF LocationsOf
  <2> QED BY <2>1, <2>3, <2>5 DEF Ids
<1> QED BY <1>1 DEF Closed

(* An id leads to the name of its row.                                     *)
LEMMA NameOfRow ==
  ASSUME NEW rows, Sound(rows), NEW r \in rows
  PROVE  NameOf(rows, r.id) = r.name
<1> DEFINE found == CHOOSE s \in rows : s.id = r.id
<1>1. found \in rows /\ found.id = r.id
  OBVIOUS
<1>2. found = r
  <2> HIDE DEF found
  <2> QED BY <1>1 DEF Sound, Keyed
<1>3. r.id \in Ids(rows)
  BY DEF Ids
<1> QED BY <1>2, <1>3 DEF NameOf

(* Rows that miss none come back as they were.                             *)
LEMMA RestoredLooksTheSame ==
  ASSUME NEW kept, Sound(kept), Closed(kept), NEW shift \in Nat
  PROVE  View(Restored(kept, shift)) = View(kept)
<1> DEFINE back == Restored(kept, shift)
           new(r) == Shifted(kept, shift, r)
           Seen(rows, r) == [table |-> r.table, name |-> r.name,
                             refs |-> [f \in DOMAIN r.refs |-> NameOf(rows, r.refs[f])]]
<1>1. back = {new(r) : r \in kept}
  BY RestoredIs
<1>2. Sound(back)
  BY RestoredIsSound
<1>3. ASSUME NEW r \in kept PROVE Seen(back, new(r)) = Seen(kept, r)
  <2>1. new(r).table = r.table /\ new(r).name = r.name /\ DOMAIN new(r).refs = DOMAIN r.refs
    BY ShiftedRow
  <2>2. ASSUME NEW f \in DOMAIN r.refs PROVE NameOf(back, new(r).refs[f]) = NameOf(kept, r.refs[f])
    <3>1. CASE r.refs[f] \in Ids(kept)
      <4>1. PICK s \in kept : r.refs[f] = s.id
        BY <3>1 DEF Ids
      <4>2. new(r).refs[f] = new(s).id /\ new(s).name = s.name /\ new(s) \in back
        BY <1>1, <4>1, ShiftedRow
      <4>3. NameOf(kept, r.refs[f]) = s.name
        BY <4>1, NameOfRow
      <4>4. NameOf(back, new(s).id) = new(s).name
        <5> HIDE DEF back, new
        <5> QED BY <1>2, <4>2, NameOfRow
      <4> QED BY <4>2, <4>3, <4>4
    <3>2. CASE r.refs[f] \notin Ids(kept)
      <4>1. new(r).refs[f] = NoProjectRow
        BY <3>2, ShiftedRow
      <4>2. NoProjectRow \notin Ids(back)
        <5> HIDE DEF back
        <5> QED BY <1>2, ProjectAssumption DEF Sound, Keyed, Ids
      <4>3. NameOf(back, NoProjectRow) = NoProjectRow /\ NameOf(kept, r.refs[f]) = NoProjectRow
        <5> HIDE DEF back
        <5> QED BY <3>2, <4>2 DEF NameOf
      <4> QED BY <4>1, <4>3
    <3> QED BY <3>1, <3>2
  <2>3. [f \in DOMAIN new(r).refs |-> NameOf(back, new(r).refs[f])] = [f \in DOMAIN r.refs |-> NameOf(kept, r.refs[f])]
    <3> HIDE DEF back, new
    <3> QED BY <2>1, <2>2
  <2> HIDE DEF back, new
  <2> QED BY <2>1, <2>3
<1>4. {Seen(back, b) : b \in back} = {Seen(kept, r) : r \in kept}
  <2> HIDE DEF Seen, back, new
  <2> QED BY <1>1, <1>3
<1> QED BY <1>4 DEF View

(* Which rows miss none, reference by reference.                           *)
LEMMA ClosedIs ==
  ASSUME NEW rows
  PROVE  Closed(rows) <=>
           \A r \in rows : \A f \in DOMAIN r.refs : r.refs[f] = NoProjectRow \/ r.refs[f] \in Ids(rows)
<1>1. ASSUME Closed(rows), NEW r \in rows, NEW f \in DOMAIN r.refs
      PROVE  r.refs[f] = NoProjectRow \/ r.refs[f] \in Ids(rows)
  <2>1. <<f, r.refs[f]>> \in RefsOf(r) /\ <<f, r.refs[f]>>[2] = r.refs[f]
    BY DEF RefsOf
  <2> QED BY <1>1, <2>1 DEF Closed
<1>2. ASSUME \A r \in rows : \A f \in DOMAIN r.refs : r.refs[f] = NoProjectRow \/ r.refs[f] \in Ids(rows)
      PROVE  Closed(rows)
  <2>1. ASSUME NEW r \in rows, NEW ref \in RefsOf(r) PROVE ref[2] = NoProjectRow \/ ref[2] \in Ids(rows)
    <3>1. PICK f \in DOMAIN r.refs : ref = <<f, r.refs[f]>>
      BY DEF RefsOf
    <3> QED BY <1>2, <3>1
  <2> QED BY <2>1 DEF Closed
<1> QED BY <1>1, <1>2

(* Deleting an object takes everything along that refers to it.            *)
LEMMA RemovalIsClosed ==
  ASSUME Sound(liveProject), Closed(liveProject), NEW o \in liveProject, o.table = "objects",
         ~\E r \in liveProject : Restricting(r, o.id)
  PROVE  LET first == Dependents({o})
         IN Closed(liveProject \ ({o} \cup first \cup Dependents(first)))
<1> DEFINE first == Dependents({o})
           gone == {o} \cup first \cup Dependents(first)
           left == liveProject \ gone
<1>1. \A rows, s : s \in Dependents(rows) =>
        s \in liveProject /\ \E f \in DOMAIN s.refs : f \in Cascading /\ s.refs[f] \in Ids(rows)
  BY DEF Dependents, RefsOf
<1>2. \A rows : \A r \in liveProject : \A f \in DOMAIN r.refs :
        f \in Cascading /\ r.refs[f] \in Ids(rows) => r \in Dependents(rows)
  <2>1. ASSUME NEW rows, NEW r \in liveProject, NEW f \in DOMAIN r.refs, f \in Cascading, r.refs[f] \in Ids(rows)
        PROVE  r \in Dependents(rows)
    <3>1. <<f, r.refs[f]>> \in RefsOf(r) /\ <<f, r.refs[f]>>[1] = f /\ <<f, r.refs[f]>>[2] = r.refs[f]
      BY DEF RefsOf
    <3> QED BY <2>1, <3>1 DEF Dependents
  <2> QED BY <2>1
<1>3. \A s \in first : s \in liveProject /\ s.table \in Attached
  <2>1. ASSUME NEW s \in first PROVE s \in liveProject /\ s.table \in Attached
    <3>1. PICK f \in DOMAIN s.refs : s.refs[f] \in Ids({o})
      BY <1>1
    <3>2. s \in liveProject /\ s.refs[f] = o.id
      BY <1>1, <3>1 DEF Ids
    <3>3. <<s.table, f, "objects">> \in ForeignKeys
      BY <3>2 DEF Sound, Keyed
    <3> QED BY <3>2, <3>3, SchemaOfObjects
  <2> QED BY <2>1
<1>4. \A s \in Dependents(first) : s \in liveProject /\ s.table = "relationships"
  <2>1. ASSUME NEW s \in Dependents(first) PROVE s \in liveProject /\ s.table = "relationships"
    <3>1. s \in liveProject /\ \E f \in DOMAIN s.refs : f \in Cascading /\ s.refs[f] \in Ids(first)
      <4> HIDE DEF first
      <4> QED BY <1>1
    <3>2. PICK f \in DOMAIN s.refs : s.refs[f] \in Ids(first)
      BY <3>1
    <3>3. PICK t \in first : s.refs[f] = t.id
      <4> HIDE DEF first
      <4> QED BY <3>2 DEF Ids
    <3>4. t \in liveProject /\ t.table \in Attached
      BY <1>3
    <3>5. <<s.table, f, t.table>> \in ForeignKeys
      BY <3>1, <3>3, <3>4 DEF Sound, Keyed
    <3> QED BY <3>1, <3>4, <3>5, SchemaOfObjects
  <2> QED BY <2>1
<1>5. ASSUME NEW r \in left, NEW f \in DOMAIN r.refs, NEW s \in gone, r.refs[f] = s.id PROVE FALSE
  <2>1. r \in liveProject /\ r \notin first /\ r \notin Dependents(first)
    OBVIOUS
  <2>2. s \in liveProject
    BY <1>3, <1>4
  <2>3. <<r.table, f, s.table>> \in ForeignKeys
    BY <1>5, <2>1, <2>2 DEF Sound, Keyed
  <2>4. CASE s = o
    <3>1. f \in {"point", "weight", "object"} /\ (f = "weight" => r.table = "aggregates")
      BY <2>3, <2>4, SchemaOfObjects
    <3>2. f \notin Cascading
      <4>1. r.refs[f] \in Ids({o})
        BY <1>5, <2>4 DEF Ids
      <4> QED BY <1>2, <2>1, <4>1
    <3>3. Restricting(r, o.id)
      BY <1>5, <2>4, <3>1, <3>2 DEF Restricting, Cascading
    <3> QED BY <2>1, <3>3
  <2>5. CASE s \in first
    <3>1. f \in Cascading
      BY <1>3, <2>3, <2>5, SchemaOfObjects DEF Cascading
    <3>2. r.refs[f] \in Ids(first)
      <4> HIDE DEF first
      <4> QED BY <1>5, <2>5 DEF Ids
    <3> HIDE DEF first
    <3> QED BY <1>2, <2>1, <3>1, <3>2
  <2>6. CASE s \in Dependents(first)
    BY <1>4, <2>3, <2>6, SchemaOfObjects
  <2> QED BY <2>4, <2>5, <2>6
<1>6. Closed(left)
  <2>1. ASSUME NEW r \in left, NEW ref \in RefsOf(r), ref[2] # NoProjectRow PROVE ref[2] \in Ids(left)
    <3>1. PICK f \in DOMAIN r.refs : ref = <<f, r.refs[f]>>
      BY DEF RefsOf
    <3>2. r \in liveProject
      OBVIOUS
    <3>3. PICK s \in liveProject : r.refs[f] = s.id
      BY <2>1, <3>1, <3>2 DEF Closed, Ids
    <3>4. s \in left
      <4>1. s \notin gone
        <5> HIDE DEF gone, left
        <5> QED BY <1>5, <3>3
      <4> QED BY <4>1
    <3> HIDE DEF left
    <3> QED BY <3>1, <3>3, <3>4 DEF Ids
  <2> HIDE DEF left
  <2> QED BY <2>1 DEF Closed
<1> QED BY <1>6

(* A device under another location is the same row.                        *)
LEMMA MovedIsInOrder ==
  ASSUME Sound(liveProject), Closed(liveProject), NEW d \in liveProject, NEW l \in liveProject,
         d.table = "devices", l.table = "locations"
  PROVE  LET moved == (liveProject \ {d}) \cup {[d EXCEPT !.refs.location = l.id]}
         IN Sound(moved) /\ Closed(moved)
<1> DEFINE e == [d EXCEPT !.refs.location = l.id]
           moved == (liveProject \ {d}) \cup {e}
<1>1. /\ e = [table |-> e.table, id |-> e.id, name |-> e.name, refs |-> e.refs]
      /\ e.table = "devices" /\ e.id = d.id /\ DOMAIN e.refs = DOMAIN d.refs
      /\ \A f \in DOMAIN d.refs : e.refs[f] = IF f = "location" THEN l.id ELSE d.refs[f]
  <2> DEFINE refs == [d.refs EXCEPT !.location = l.id]
  <2>1. DOMAIN refs = DOMAIN d.refs /\ \A f \in DOMAIN d.refs : refs[f] = IF f = "location" THEN l.id ELSE d.refs[f]
    OBVIOUS
  <2>2. e = [d EXCEPT !.refs = refs]
    OBVIOUS
  <2>3. d = [table |-> d.table, id |-> d.id, name |-> d.name, refs |-> d.refs]
    BY DEF Sound, Keyed
  <2> HIDE DEF refs
  <2>4. [d EXCEPT !.refs = refs] = [table |-> d.table, id |-> d.id, name |-> d.name, refs |-> refs]
    BY <2>3
  <2>5. e = [table |-> d.table, id |-> d.id, name |-> d.name, refs |-> refs]
    BY <2>2, <2>4
  <2> HIDE DEF e
  <2> QED BY <2>1, <2>5
<1> HIDE DEF e
<1>2. d # l /\ d.id # l.id /\ d.id \in Nat
  <2>1. d # l
    OBVIOUS
  <2> QED BY <2>1 DEF Sound, Keyed
<1>3. IsFiniteSet(moved)
  BY FS_Subset, FS_AddElement DEF Sound
<1>4. \A r \in moved : r.id \in Nat /\ r = [table |-> r.table, id |-> r.id, name |-> r.name, refs |-> r.refs]
  BY <1>1, <1>2 DEF Sound, Keyed
<1>5. \A r, s \in moved : r.id = s.id => r = s
  BY <1>1 DEF Sound, Keyed
<1>6. \A s \in moved : \E t \in liveProject : t.id = s.id /\ t.table = s.table
  BY <1>1
<1>7. ASSUME NEW r \in moved, NEW s \in moved, NEW f \in DOMAIN r.refs, r.refs[f] = s.id
      PROVE  <<r.table, f, s.table>> \in ForeignKeys
  <2>1. PICK t \in liveProject : t.id = s.id /\ t.table = s.table
    BY <1>6
  <2>2. CASE r \in liveProject
    BY <1>7, <2>1, <2>2 DEF Sound, Keyed
  <2>3. CASE r = e /\ f # "location"
    <3>1. d.refs[f] = t.id /\ f \in DOMAIN d.refs
      BY <1>1, <1>7, <2>1, <2>3
    <3> QED BY <1>1, <2>1, <2>3, <3>1 DEF Sound, Keyed
  <2>4. CASE r = e /\ f = "location"
    <3>1. t.id = l.id
      BY <1>1, <1>7, <2>1, <2>4
    <3>2. t = l
      BY <3>1 DEF Sound, Keyed
    <3>3. <<"devices", "location", "locations">> \in ForeignKeys
      BY DEF ForeignKeys
    <3> QED BY <1>1, <2>1, <2>4, <3>2, <3>3
  <2> QED BY <2>2, <2>3, <2>4
<1>8. \A x : x \in Ids(liveProject) => x \in Ids(moved)
  BY <1>1 DEF Ids
<1>9. ASSUME NEW r \in moved, NEW f \in DOMAIN r.refs, r.refs[f] # NoProjectRow PROVE r.refs[f] \in Ids(moved)
  <2>1. \A x \in liveProject : \A g \in DOMAIN x.refs : x.refs[g] = NoProjectRow \/ x.refs[g] \in Ids(liveProject)
    BY ClosedIs
  <2>2. r.refs[f] \in Ids(liveProject)
    <3>1. CASE r \in liveProject
      BY <1>9, <2>1, <3>1
    <3>2. CASE r = e /\ f = "location"
      <4>1. r.refs[f] = l.id
        BY <1>1, <3>2
      <4> QED BY <4>1 DEF Ids
    <3>3. CASE r = e /\ f # "location"
      <4>1. r.refs[f] = d.refs[f] /\ f \in DOMAIN d.refs
        BY <1>1, <3>3
      <4> QED BY <1>9, <2>1, <4>1
    <3> QED BY <3>1, <3>2, <3>3
  <2> QED BY <1>8, <2>2
<1>10. Keyed(moved)
  <2> HIDE DEF moved
  <2> QED BY <1>4, <1>5, <1>7 DEF Keyed
<1>11. Closed(moved)
  <2> HIDE DEF moved
  <2>1. \A r \in moved : \A f \in DOMAIN r.refs : r.refs[f] = NoProjectRow \/ r.refs[f] \in Ids(moved)
    BY <1>9
  <2> QED BY <2>1, ClosedIs
<1> QED BY <1>3, <1>10, <1>11 DEF Sound, e

(* Objects and devices are live only between loads.                        *)
LEMMA OnlyLocationsAreBack ==
  ASSUME ProjectsInv, NEW r \in liveProject, r.table # "locations"
  PROVE  loading.step = "idle"
BY DEF ProjectsInv, ProjectTyped, LoadUnderWay, LocationsOf

(* An edit of the live tables claims nothing and may be cut off by none.   *)
LEMMA EditKeepsProjects ==
  ASSUME ProjectsInv, loading.step = "idle", Sound(liveProject'), Closed(liveProject'), fresh' = NoProjectRow,
         UNCHANGED <<lastId, profile, loading, relinking, lastSaved, relinked>>
  PROVE  ProjectsInv'
<1>1. ProjectTyped'
  BY DEF ProjectsInv, ProjectTyped, Saving
<1>2. LoadUnderWay'
  BY DEF ProjectsInv, LoadUnderWay
<1>3. SavedIsStored' /\ RestoredAsSaved'
  BY DEF ProjectsInv, SavedIsStored, RestoredAsSaved
<1> QED BY <1>1, <1>2, <1>3 DEF ProjectsInv

(* Deleting an object keeps the rows in order.                             *)
LEMMA RemoveObjectKeeps ==
  ASSUME ProjectsInv, NEW o \in liveProject, RemoveObject(o)
  PROVE  ProjectsInv'
<1>1. loading.step = "idle"
  BY OnlyLocationsAreBack DEF RemoveObject
<1>2. Sound(liveProject) /\ Closed(liveProject)
  BY <1>1 DEF ProjectsInv, ProjectTyped, RestoredAsSaved
<1>3. Closed(liveProject')
  BY <1>2, RemovalIsClosed DEF RemoveObject
<1>4. liveProject' \in SUBSET liveProject
  BY DEF RemoveObject
<1>5. Sound(liveProject')
  BY <1>2, <1>4, FewerAreSound
<1> QED BY <1>1, <1>3, <1>5, EditKeepsProjects DEF RemoveObject

(* Moving a device keeps the rows in order.                                *)
LEMMA MoveDeviceKeeps ==
  ASSUME ProjectsInv, NEW d \in liveProject, NEW l \in liveProject, MoveDevice(d, l)
  PROVE  ProjectsInv'
<1>1. loading.step = "idle"
  BY OnlyLocationsAreBack DEF MoveDevice
<1>2. Sound(liveProject) /\ Closed(liveProject)
  BY <1>1 DEF ProjectsInv, ProjectTyped, RestoredAsSaved
<1>3. Sound(liveProject') /\ Closed(liveProject')
  BY <1>2, MovedIsInOrder DEF MoveDevice
<1> QED BY <1>1, <1>3, EditKeepsProjects DEF MoveDevice

(* Storing a snapshot changes nothing that is live or being loaded.        *)
LEMMA StoringKeepsProjects ==
  ASSUME ProjectsInv, Saving(profile'), relinking' # NoProjectRow => Saving(relinking'),
         fresh' = NoProjectRow, relinked => relinked', SavedIsStored', UNCHANGED <<liveProject, lastId, loading>>
  PROVE  ProjectsInv'
<1>1. ProjectTyped'
  BY DEF ProjectsInv, ProjectTyped
<1>2. LoadUnderWay'
  BY DEF ProjectsInv, LoadUnderWay
<1>3. RestoredAsSaved'
  BY DEF ProjectsInv, RestoredAsSaved
<1> QED BY <1>1, <1>2, <1>3 DEF ProjectsInv

(* Saving stores what is live.                                             *)
LEMMA SaveProjectKeeps ==
  ASSUME ProjectsInv, SaveProject
  PROVE  ProjectsInv'
<1>1. profile' = [rows |-> liveProject, connections |-> profile.connections]
  BY DEF ProjectsInv, ProjectTyped, Saving, SaveProject
<1>2. Saving(profile') /\ profile'.rows = lastSaved'
  BY <1>1 DEF ProjectsInv, ProjectTyped, Saving, SaveProject
<1>3. SavedIsStored'
  BY <1>2 DEF SavedIsStored
<1> QED BY <1>2, <1>3, StoringKeepsProjects DEF ProjectsInv, ProjectTyped, SaveProject

(* An import may miss a row.                                               *)
LEMMA ImportProjectKeeps ==
  ASSUME ProjectsInv, NEW r \in profile.rows, ImportProject(r)
  PROVE  ProjectsInv'
<1>1. profile' = [rows |-> profile.rows \ {r}, connections |-> profile.connections]
  BY DEF ProjectsInv, ProjectTyped, Saving, ImportProject
<1>2. Sound(profile.rows \ {r})
  BY FewerAreSound DEF ProjectsInv, ProjectTyped, Saving
<1>3. Saving(profile') /\ profile'.rows = lastSaved'
  BY <1>1, <1>2 DEF Saving, ImportProject
<1>4. SavedIsStored'
  BY <1>3 DEF SavedIsStored
<1> QED BY <1>3, <1>4, StoringKeepsProjects DEF ProjectsInv, ProjectTyped, ImportProject

(* Reading a payload changes nothing that is stored.                       *)
LEMMA ReadPayloadKeeps ==
  ASSUME ProjectsInv, ReadPayload
  PROVE  ProjectsInv'
<1>1. ProjectTyped'
  BY DEF ProjectsInv, ProjectTyped, ReadPayload
<1>2. LoadUnderWay'
  BY DEF ProjectsInv, LoadUnderWay, ReadPayload
<1>3. SavedIsStored' /\ RestoredAsSaved'
  BY DEF ProjectsInv, SavedIsStored, RestoredAsSaved, ReadPayload
<1> QED BY <1>1, <1>2, <1>3 DEF ProjectsInv

(* A route writes back what was stored when it read, or notes that it did  *)
(* not.                                                                    *)
LEMMA WritePayloadKeeps ==
  ASSUME ProjectsInv, WritePayload
  PROVE  ProjectsInv'
<1>1. Saving(relinking)
  BY DEF ProjectsInv, ProjectTyped, WritePayload
<1>2. profile' = [rows |-> relinking.rows, connections |-> relinking.connections + 1]
  BY <1>1 DEF Saving, WritePayload
<1>3. Saving(profile') /\ profile'.rows = relinking.rows
  BY <1>1, <1>2 DEF Saving
<1>4. SavedIsStored'
  <2>1. ~relinked' => ~relinked /\ profile = relinking
    BY DEF WritePayload
  <2> QED BY <1>3, <2>1 DEF ProjectsInv, SavedIsStored, WritePayload
<1> QED BY <1>3, <1>4, StoringKeepsProjects DEF ProjectsInv, ProjectTyped, WritePayload

(* A clear leaves nothing, and notes what it took of a load under way.     *)
LEMMA ClearLiveKeeps ==
  ASSUME ProjectsInv, ClearLive
  PROVE  ProjectsInv'
<1>1. liveProject' = {} /\ Sound({}) /\ Closed({})
  BY FS_EmptySet DEF ClearLive, Sound, Keyed, Closed
<1> DEFINE noted == IF loading.step = "locations" THEN NoProjectRow ELSE loading.saved
<1>2. loading' = [step |-> loading.step, rows |-> loading.rows, shift |-> loading.shift, saved |-> noted]
  <2>1. loading' = [loading EXCEPT !.saved = noted]
    BY DEF ClearLive
  <2> HIDE DEF noted
  <2> QED BY <2>1 DEF ProjectsInv, ProjectTyped
<1>3. /\ loading'.step = loading.step /\ loading'.rows = loading.rows /\ loading'.shift = loading.shift
      /\ loading'.saved = noted
  BY <1>2
<1>4. ProjectTyped'
  BY <1>1, <1>2 DEF ProjectsInv, ProjectTyped, ClearLive
<1>5. LoadUnderWay'
  BY <1>1, <1>3 DEF ProjectsInv, LoadUnderWay, ClearLive
<1>6. SavedIsStored' /\ RestoredAsSaved'
  BY <1>1 DEF ProjectsInv, SavedIsStored, RestoredAsSaved, ClearLive
<1> QED BY <1>4, <1>5, <1>6 DEF ProjectsInv

(* A load takes of what is stored the rows that can be restored.           *)
LEMMA LoadWipeKeeps ==
  ASSUME ProjectsInv, LoadWipe
  PROVE  ProjectsInv'
<1>1. liveProject' = {} /\ Sound({}) /\ Closed({})
  BY FS_EmptySet DEF LoadWipe, Sound, Keyed, Closed
<1>2. Sound(profile.rows)
  BY DEF ProjectsInv, ProjectTyped, Saving
<1>3. Sound(Restorable(profile.rows))
  BY <1>2, RestorableRows, FewerAreSound
<1>4. loading' = [step |-> "wiped", rows |-> Restorable(profile.rows), shift |-> lastId, saved |-> lastSaved]
  BY DEF LoadWipe
<1>5. /\ loading'.step = "wiped" /\ loading'.rows = Restorable(profile.rows) /\ loading'.shift = lastId
      /\ loading'.saved = lastSaved
  BY <1>4
<1>6. ProjectTyped'
  BY <1>1, <1>3, <1>4 DEF ProjectsInv, ProjectTyped, LoadWipe
<1>7. LoadUnderWay'
  BY <1>1, <1>2, <1>5 DEF ProjectsInv, SavedIsStored, LoadUnderWay, LoadWipe
<1>8. SavedIsStored' /\ RestoredAsSaved'
  BY <1>1, <1>5 DEF ProjectsInv, SavedIsStored, RestoredAsSaved, LoadWipe
<1> QED BY <1>6, <1>7, <1>8 DEF ProjectsInv

(* The first commit brings the locations back.                             *)
LEMMA LoadLocationsKeeps ==
  ASSUME ProjectsInv, LoadLocations
  PROVE  ProjectsInv'
<1> DEFINE back == Restored(loading.rows, loading.shift)
<1>1. loading' = [step |-> "locations", rows |-> loading.rows, shift |-> loading.shift, saved |-> loading.saved]
  BY DEF ProjectsInv, ProjectTyped, LoadLocations
<1>2. /\ loading'.step = "locations" /\ loading'.rows = loading.rows /\ loading'.shift = loading.shift
      /\ loading'.saved = loading.saved
  BY <1>1
<1>3. Sound(back)
  BY RestoredIsSound DEF ProjectsInv, ProjectTyped
<1>4. liveProject' = LocationsOf(back)
  BY DEF ProjectsInv, LoadUnderWay, LoadLocations, LocationsOf
<1>5. Sound(liveProject')
  <2> HIDE DEF back
  <2>1. LocationsOf(back) \in SUBSET back
    BY DEF LocationsOf
  <2> QED BY <1>3, <1>4, <2>1, FewerAreSound
<1>6. lastId' \in Nat
  <2>1. Max(Ids(loading.rows) \cup {0}) \in Nat
    BY HighestId DEF ProjectsInv, ProjectTyped
  <2> QED BY <2>1 DEF ProjectsInv, ProjectTyped, LoadLocations
<1>7. ProjectTyped'
  <2> HIDE DEF back
  <2> QED BY <1>1, <1>2, <1>5, <1>6 DEF ProjectsInv, ProjectTyped, LoadLocations
<1>8. LoadUnderWay'
  BY <1>2, <1>4 DEF ProjectsInv, LoadUnderWay, LoadLocations
<1>9. SavedIsStored' /\ RestoredAsSaved'
  BY <1>2 DEF ProjectsInv, LoadUnderWay, SavedIsStored, RestoredAsSaved, LoadLocations
<1> QED BY <1>7, <1>8, <1>9 DEF ProjectsInv

(* The end of a load, when its rows are in or it was cut.                  *)
LEMMA LoadEnds ==
  ASSUME ProjectsInv, Sound(liveProject'), Closed(liveProject'), RestoredAsSaved',
         loading' = [loading EXCEPT !.step = "idle", !.rows = {}, !.saved = {}],
         UNCHANGED <<lastId, profile, relinking, lastSaved, relinked>>
  PROVE  ProjectsInv'
<1>1. loading' = [step |-> "idle", rows |-> {}, shift |-> loading.shift, saved |-> {}]
  <2> DEFINE one == [loading EXCEPT !.step = "idle"]
             two == [one EXCEPT !.rows = {}]
  <2>1. loading' = [two EXCEPT !.saved = {}]
    OBVIOUS
  <2>2. one = [step |-> "idle", rows |-> loading.rows, shift |-> loading.shift, saved |-> loading.saved]
    BY DEF ProjectsInv, ProjectTyped
  <2>3. two = [step |-> "idle", rows |-> {}, shift |-> loading.shift, saved |-> loading.saved]
    <3> HIDE DEF one
    <3> QED BY <2>2
  <2> HIDE DEF two
  <2> QED BY <2>1, <2>3
<1>2. loading'.step = "idle"
  BY <1>1
<1>3. Sound({})
  BY FS_EmptySet DEF Sound, Keyed
<1>4. ProjectTyped'
  BY <1>1, <1>3 DEF ProjectsInv, ProjectTyped, Saving
<1>5. LoadUnderWay'
  BY <1>2 DEF LoadUnderWay
<1>6. SavedIsStored'
  BY DEF ProjectsInv, SavedIsStored
<1> QED BY <1>4, <1>5, <1>6 DEF ProjectsInv

(* The last commit completes what the first began, if that is still there. *)
LEMMA LoadRestKeeps ==
  ASSUME ProjectsInv, LoadRest
  PROVE  ProjectsInv'
<1> DEFINE back == Restored(loading.rows, loading.shift)
<1>1. Sound(back)
  BY RestoredIsSound DEF ProjectsInv, ProjectTyped
<1>2. liveProject' = liveProject \cup (back \ LocationsOf(back))
  BY DEF LoadRest, LocationsOf
<1>3. liveProject = {} \/ liveProject = LocationsOf(back)
  BY DEF ProjectsInv, LoadUnderWay, LoadRest
<1>4. Sound(liveProject')
  <2> HIDE DEF back
  <2>1. liveProject' \in SUBSET back
    BY <1>2, <1>3 DEF LocationsOf
  <2> QED BY <1>1, <2>1, FewerAreSound
<1>5. Closed(liveProject')
  BY DEF LoadRest, Closed
<1>6. ASSUME loading.saved # NoProjectRow, ~relinked, Closed(loading.saved), Rooted(loading.saved)
      PROVE  View(liveProject') = View(loading.saved)
  <2>1. liveProject = LocationsOf(back)
    BY <1>6 DEF ProjectsInv, LoadUnderWay, LoadRest
  <2>2. liveProject' = back
    <3> HIDE DEF back
    <3> QED BY <1>2, <2>1 DEF LocationsOf
  <2>3. Sound(loading.saved) /\ loading.rows = Restorable(loading.saved)
    BY <1>6 DEF ProjectsInv, LoadUnderWay, LoadRest
  <2>4. loading.rows = loading.saved
    BY <1>6, <2>3, RestorableRows
  <2>5. loading.shift \in Nat
    BY DEF ProjectsInv, ProjectTyped
  <2>6. View(back) = View(loading.saved)
    BY <1>6, <2>3, <2>4, <2>5, RestoredLooksTheSame
  <2> QED BY <2>2, <2>6
<1>7. RestoredAsSaved'
  BY <1>5, <1>6 DEF RestoredAsSaved, LoadRest
<1> QED BY <1>4, <1>5, <1>7, LoadEnds DEF LoadRest

(* A load that is cut leaves the locations it had brought back, or nothing *)
LEMMA LoadFailsKeeps ==
  ASSUME ProjectsInv, LoadFails
  PROVE  ProjectsInv'
<1> DEFINE back == Restored(loading.rows, loading.shift)
<1>1. Sound(back) /\ Closed(back)
  BY RestoredIsSound DEF ProjectsInv, ProjectTyped
<1>2. Closed(LocationsOf(back))
  <2> HIDE DEF back
  <2> QED BY <1>1, LocationsAreClosed
<1>3. liveProject = {} \/ liveProject = LocationsOf(back)
  BY DEF ProjectsInv, ProjectTyped, LoadUnderWay, LoadFails
<1>4. Closed(liveProject)
  <2> HIDE DEF back
  <2>1. Closed({})
    BY DEF Closed
  <2> QED BY <1>2, <1>3, <2>1
<1>5. fresh = NoProjectRow
  BY DEF ProjectsInv, LoadUnderWay, LoadFails
<1>6. Sound(liveProject') /\ Closed(liveProject') /\ RestoredAsSaved'
  BY <1>4, <1>5 DEF ProjectsInv, ProjectTyped, RestoredAsSaved, LoadFails
<1> QED BY <1>6, LoadEnds DEF LoadFails

(* Loading gives back what was saved, however often loads were cut and     *)
(* whatever was saved, imported or cleared in between.                     *)
THEOREM LoadsGiveBack == ProjectsSpec => []RestoredAsSaved
<1>1. ProjectsInit => ProjectsInv
  <2> SUFFICES ASSUME ProjectsInit PROVE ProjectsInv
    OBVIOUS
  <2>1. Sound(Sample) /\ Closed(Sample) /\ Sound({})
    BY ProjectAssumption, FS_EmptySet DEF Sound, Keyed
  <2>2. ProjectTyped
    BY <2>1, HighestId DEF ProjectsInit, ProjectTyped, Saving
  <2> QED BY <2>1, <2>2 DEF ProjectsInit, ProjectsInv, LoadUnderWay, SavedIsStored, RestoredAsSaved
<1>2. ProjectsInv /\ [ProjectsNext]_pjVars => ProjectsInv'
  <2> SUFFICES ASSUME ProjectsInv, [ProjectsNext]_pjVars PROVE ProjectsInv'
    OBVIOUS
  <2>1. CASE UNCHANGED pjVars
    <3> USE <2>1 DEF pjVars
    <3>1. ProjectTyped'
      BY DEF ProjectsInv, ProjectTyped
    <3>2. LoadUnderWay'
      BY DEF ProjectsInv, LoadUnderWay
    <3>3. SavedIsStored' /\ RestoredAsSaved'
      BY DEF ProjectsInv, SavedIsStored, RestoredAsSaved
    <3> QED BY <3>1, <3>2, <3>3 DEF ProjectsInv
  <2>2. CASE ProjectsNext
    BY <2>2, RemoveObjectKeeps, MoveDeviceKeeps, SaveProjectKeeps, ReadPayloadKeeps, WritePayloadKeeps,
       ClearLiveKeeps, ImportProjectKeeps, LoadWipeKeeps, LoadLocationsKeeps, LoadRestKeeps, LoadFailsKeeps
       DEF ProjectsNext
  <2> QED BY <2>1, <2>2
<1>3. ProjectsInv => RestoredAsSaved
  BY DEF ProjectsInv
<1> QED BY <1>1, <1>2, <1>3, PTL DEF ProjectsSpec

=============================================================================
