------------------------------- MODULE Waves -------------------------------
(***************************************************************************)
(* One tick of the registered simulation providers                         *)
(* (SimEngine._run_registered_providers, simulation/engine.py, and the     *)
(* inputs and outputs of FMUSimulationProvider, simulation/providers/      *)
(* fmu.py).  It runs in a worker thread: providers are staged in waves, a  *)
(* wave steps in a pool of threads, and its outputs are merged before the  *)
(* next one reads.  Requests on the event loop register and unregister     *)
(* providers meanwhile, also the same one with other points: the waves are *)
(* made of the points declared when the pass begins, while inputs and      *)
(* outputs are looked up when a wave reads and merges.                     *)
(*                                                                         *)
(* A registration or removal is one step: the pass blocks in HTTP calls    *)
(* only, and so does a registration (stop, initialize), between which a    *)
(* replaced provider is as good as removed.                                *)
(*                                                                         *)
(* A value is the number of the tick that computed it.                     *)
(***************************************************************************)
EXTENDS Naturals, Sequences, SequencesExt

CONSTANTS
  Modelled, \* provider ids
  Outputs,  \* points
  Wirings,  \* [Modelled -> SUBSET Wiring] a user may configure
  Served,   \* points with a live object
  Nobody,
  MaxTicks, MaxRegistrations \* bounds

Wiring == [ins: SUBSET Outputs,      \* bound to a point each
           all: SUBSET Outputs,      \* members of a max or min aggregate
           averaged: SUBSET Outputs, \* value points of a weighted average
           outs: SUBSET Outputs,
           shown: SUBSET (Outputs \X Outputs)] \* input exposures: <<source, point>>

ASSUME WavesAssumption ==
  /\ Wirings \in [Modelled -> SUBSET Wiring]
  /\ MaxTicks \in Nat /\ MaxRegistrations \in Nat /\ Nobody \notin Modelled

VARIABLES
  wires,    \* the wiring each provider is registered with, or NoWiring
  order,    \* _providers without "builtin", as registered
  holder,   \* _point_output_owner
  model,    \* the registered provider objects
  lasting,  \* _prev_values, or the presentValue of the live object
  stepping, \* the pass of the current tick
  registrations

wavesVars == <<wires, order, holder, model, lasting, stepping, registrations>>

None == <<>>   \* a dict without entries
Read(p) == wires[p].ins \cup wires[p].all \cup wires[p].averaged
Declared(w) == w.outs \cup {s[2] : s \in w.shown}
Written(p) == Declared(wires[p])

NoWiring == [ins |-> {}, all |-> {}, averaged |-> {}, outs |-> {}, shown |-> {}]
NoObject == [inputs |-> None, outputs |-> None, running |-> FALSE]
NoPass == [phase |-> "idle", tick |-> 0, items |-> <<>>, staged |-> None, wave |-> <<>>, now |-> 0,
           generated |-> None, source |-> None, seen |-> None, results |-> None, left |-> None]

WavesInit ==
  /\ wires = [p \in Modelled |-> NoWiring]
  /\ order = <<>>
  /\ holder = [x \in Outputs |-> Nobody]
  /\ model = [p \in Modelled |-> NoObject]
  /\ lasting = [x \in Served |-> 0]
  /\ stepping = NoPass
  /\ registrations = 0

\* Entries of d with those of new over them.
Updated(d, new) == [x \in DOMAIN d \cup DOMAIN new |-> IF x \in DOMAIN new THEN new[x] ELSE d[x]]
Only(d, keys) == [x \in DOMAIN d \cap keys |-> d[x]]

---------------------------------------------------------------------------
(* The registry, on the event loop *)

\* The pass goes on with the object it found; that one is stopped, and only
\* its last outputs are left.
Leave(p) ==
  IF p \in ToSet(stepping.items) /\ p \notin DOMAIN stepping.left
  THEN [stepping EXCEPT !.left = Updated(@, [x \in {p} |-> model[p].outputs])]
  ELSE stepping

HeldBut(p, points) ==
  [x \in Outputs |-> IF x \in points THEN p ELSE IF holder[x] = p THEN Nobody ELSE holder[x]]

\* With replace = TRUE the old provider goes first, also when a point is taken
\* or initialize fails.
RegisterWired(p, w) ==
  LET free == \A x \in Declared(w) : holder[x] \in {Nobody, p}
  IN /\ registrations < MaxRegistrations /\ registrations' = registrations + 1
     /\ stepping' = Leave(p)
     /\ \E started \in IF free THEN BOOLEAN ELSE {FALSE} :
          /\ wires' = [wires EXCEPT ![p] = IF started THEN w ELSE NoWiring]
          /\ order' = IF started THEN Append(RemoveFirst(order, p), p) ELSE RemoveFirst(order, p)
          /\ holder' = HeldBut(p, IF started THEN Declared(w) ELSE {})
          /\ model' = [model EXCEPT ![p] = [NoObject EXCEPT !.running = started]]
     /\ UNCHANGED lasting

UnregisterWired(p) ==
  /\ Contains(order, p)
  /\ registrations < MaxRegistrations /\ registrations' = registrations + 1
  /\ stepping' = Leave(p)
  /\ wires' = [wires EXCEPT ![p] = NoWiring]
  /\ order' = RemoveFirst(order, p)
  /\ holder' = HeldBut(p, {})
  /\ model' = [model EXCEPT ![p] = NoObject]
  /\ UNCHANGED lasting

---------------------------------------------------------------------------
(* The pass, in a worker thread *)

\* Mutant: a provider waits for the wave of what it reads, not for the next.
WaveOfTogether(items) ==
  LET wave[n \in 1..Len(items)] ==
        LET before == {k \in 1..(n - 1) : Read(items[n]) \cap Written(items[k]) # {}}
        IN IF before = {} THEN 0
           ELSE CHOOSE w \in {wave[k] : k \in before} : \A k \in before : wave[k] <= w
  IN wave

\* One more than the last wave of an earlier provider it reads from.
WaveOf(items) ==
  LET wave[n \in 1..Len(items)] ==
        LET before == {k \in 1..(n - 1) : Read(items[n]) \cap Written(items[k]) # {}}
        IN IF before = {} THEN 0
           ELSE 1 + CHOOSE w \in {wave[k] : k \in before} : \A k \in before : wave[k] <= w
  IN wave

\* Built-in has stepped: it owns the live points nobody claimed.
BeginRound ==
  LET t == stepping.tick + 1
      builtin == [x \in {x \in Served : holder[x] = Nobody} |-> t]
  IN /\ stepping.phase = "idle" /\ stepping.tick < MaxTicks
     /\ stepping' = [NoPass EXCEPT !.phase = "read", !.tick = t, !.items = order,
                                   !.staged = [p \in ToSet(order) |-> Read(p)],
                                   !.wave = WaveOf(order), !.generated = builtin]
     /\ UNCHANGED <<wires, order, holder, model, lasting, registrations>>

InWave == {stepping.items[n] : n \in {n \in DOMAIN stepping.items : stepping.wave[n] = stepping.now}}

\* _provider_input_value: of this tick, else the last one; None is left out.
InputValues(p) == Only(Updated(lasting, stepping.generated), Read(p))

ReadWave ==
  /\ stepping.phase = "read" /\ InWave # {}
  /\ stepping' = [stepping EXCEPT
       !.phase = "step",
       !.seen = Updated(@, [p \in InWave |-> InputValues(p)])]
  /\ UNCHANGED <<wires, order, holder, model, lasting, registrations>>

\* One missing member fails a max or min; an average leaves out the pairs it
\* lacks and, where all weights are zero, falls back to the plain mean.
AllResolve(p, inputs) == wires[p].all \subseteq DOMAIN inputs
AverageResolves(p, inputs) == wires[p].averaged # {} => wires[p].averaged \cap DOMAIN inputs # {}

\* _build_step_payload: a bound point without a value is left to the runtime.
Built(p, inputs) == AllResolve(p, inputs) /\ AverageResolves(p, inputs)

\* An exposure repeats the value its input was given, when it was given one.
Exposed(p, inputs) ==
  LET shown == {s \in wires[p].shown : s[1] \in DOMAIN inputs}
  IN [x \in {s[2] : s \in shown} |-> inputs[(CHOOSE s \in shown : s[2] = x)[1]]]

\* _step_one_provider and step(): set_inputs never takes a value away; an HTTP
\* error leaves the outputs, a warm-up or a lost session empties them.
StepOne(p) ==
  LET gone == p \in DOMAIN stepping.left
      inputs == Updated(model[p].inputs, stepping.seen[p])
      fresh == [x \in wires[p].outs |-> stepping.tick]
  IN /\ stepping.phase = "step" /\ p \in InWave \ DOMAIN stepping.results
     /\ \E answer \in IF gone \/ ~model[p].running \/ ~Built(p, inputs) THEN {"none"}
                      ELSE {"values", "error", "warmup", "lost"} :
          LET outputs == CASE answer = "values" -> Updated(model[p].outputs, Updated(fresh, Exposed(p, inputs)))
                           [] answer \in {"warmup", "lost"} -> None
                           [] OTHER -> IF gone THEN stepping.left[p] ELSE model[p].outputs
          IN /\ stepping' = [stepping EXCEPT !.results = Updated(@, [q \in {p} |-> outputs])]
             /\ model' = IF gone THEN model
                         ELSE [model EXCEPT ![p] = [inputs |-> inputs, outputs |-> outputs,
                                running |-> @.running /\ Built(p, inputs) /\ answer # "lost"]]
     /\ UNCHANGED <<wires, order, holder, lasting, registrations>>

\* An output counts if the id now declares and owns the point.
MergeWave ==
  LET kept(p) == Only(stepping.results[p], {x \in Written(p) : holder[x] = p})
      merged == [x \in UNION {DOMAIN kept(p) : p \in InWave} |->
                   CHOOSE p \in InWave : x \in DOMAIN kept(p)]
  IN /\ stepping.phase = "step" /\ InWave \subseteq DOMAIN stepping.results
     /\ stepping' = [stepping EXCEPT
          !.phase = "read", !.now = @ + 1,
          !.generated = Updated(@, [x \in DOMAIN merged |-> kept(merged[x])[x]]),
          !.source = Updated(@, merged)]
     /\ UNCHANGED <<wires, order, holder, model, lasting, registrations>>

\* Back in tick(): live objects take the generated values, the others keep theirs.
EndRound ==
  /\ stepping.phase = "read" /\ InWave = {}
  /\ lasting' = Updated(lasting, Only(stepping.generated, Served))
  /\ stepping' = [NoPass EXCEPT !.tick = stepping.tick]
  /\ UNCHANGED <<wires, order, holder, model, registrations>>

WavesNext ==
  \/ \E p \in Modelled :
       \/ \E w \in Wirings[p] : RegisterWired(p, w)
       \/ UnregisterWired(p) \/ StepOne(p)
  \/ BeginRound \/ ReadWave \/ MergeWave \/ EndRound

WavesSpec == WavesInit /\ [][WavesNext]_wavesVars

---------------------------------------------------------------------------
\* "if provider B reads a point produced by provider A and A was registered
\* first, B sees A's value from the same tick" (_run_registered_providers):
\* whatever was registered, with whatever points, unregistered or lost while
\* the waves ran, each provider that read an earlier one's point read what the
\* tick has of it.  Of one that was replaced or removed before it read this is
\* so for the points it was staged with: a point its id has got since may come
\* from a wave that has yet to step (but the object of this pass is stopped,
\* and computes nothing with it).
EarlierIsSeen ==
  \A i, j \in DOMAIN stepping.items :
    LET p == stepping.items[i]
        q == stepping.items[j]
    IN i < j /\ q \in DOMAIN stepping.seen =>
         \A x \in DOMAIN stepping.seen[q] \cap DOMAIN stepping.source :
           stepping.source[x] = p /\ (q \in DOMAIN stepping.left => x \in stepping.staged[q]) =>
             stepping.seen[q][x] = stepping.generated[x]
=============================================================================
