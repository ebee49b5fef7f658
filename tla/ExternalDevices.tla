---------------------------- MODULE ExternalDevices ----------------------------
(***************************************************************************)
(* Devices of a real BACnet network: discovery (bacnet/client/discovery.py *)
(* and transport.py, api/routers/discovery.py), their points               *)
(* (api/routers/external_objects.py), and the twins that mirror them       *)
(* (simulation/runtime.py, SimEngine.inject_mirror_values).                *)
(*                                                                         *)
(* A host answers for all its devices: a read names the host and the       *)
(* point, never the device.  A lost message and a timeout are an answer    *)
(* that is NoAnswer.                                                       *)
(***************************************************************************)
EXTENDS Naturals, FiniteSets

CONSTANTS
  Hosts,
  Externals,   \* device instances on the network
  Twins,       \* simulated devices made as copies of one of them
  TwinSource,  \* which one
  FieldPoints, \* (type, instance) of points, the same for every device
  Values,      \* values a device may hold
  OwnValue,    \* what a twin's own behaviours make
  NoAnswer,
  MaxFieldEdits, MaxInquiries, MaxPasses, MaxTwinTicks \* bounds

ASSUME ExternalsAssumption ==
  /\ TwinSource \in [Twins -> Externals]
  /\ OwnValue \notin Values /\ NoAnswer \notin Values \cup {OwnValue} \cup Hosts
  /\ {MaxFieldEdits, MaxInquiries, MaxPasses, MaxTwinTicks} \subseteq Nat

VARIABLES
  field,       \* the network, by host: the devices there, and the value of each point
  inventory,   \* external-bacnet rows: host, points, and whether marked as seen
  twins,       \* rows of the twins: mode, enabled
  twinShown,   \* present values of the twins the engine has built
  twinsOwed,   \* a reload has been scheduled
  session,     \* _discovery_lock
  inquiry,     \* a request for devices, for a device's points or for their values
  sweep,       \* mirror_sync_loop
  pulse,       \* the tick: the modes it has read
  followed,    \* ghost: what the sweeps since the last disturbance were answered
  undisturbed, \* ghost: there was none since this sweep began
  fieldEdits, inquiries, sweeps, pulses

externalVars == <<field, inventory, twins, twinShown, twinsOwed, session, inquiry, sweep, pulse,
                  followed, undisturbed, fieldEdits, inquiries, sweeps, pulses>>

NoRecord == [host |-> NoAnswer, points |-> {}, seen |-> FALSE]
NoInquiry == [pc |-> "idle", what |-> NoAnswer, target |-> NoAnswer, host |-> NoAnswer,
              points |-> {}, found |-> NoAnswer]
NoSweep == [pc |-> "idle", hosts |-> NoAnswer, linked |-> {}, todo |-> {}, source |-> NoAnswer,
            values |-> NoAnswer, feed |-> {}]
Free == "free"
Unfollowed == [i \in Externals |-> [p \in FieldPoints |-> NoAnswer]]

ExternalsInit ==
  /\ \E at \in [Externals -> Hosts], known \in SUBSET Externals :
       /\ field = [h \in Hosts |-> [devices |-> {i \in Externals : at[i] = h},
                                    value |-> [p \in FieldPoints |-> CHOOSE v \in Values : TRUE]]]
       /\ inventory = [i \in Externals |->
            IF i \in known THEN [host |-> at[i], points |-> FieldPoints, seen |-> TRUE] ELSE NoRecord]
  /\ twins = [t \in Twins |-> [mode |-> "mirror", enabled |-> TRUE]]
  /\ twinShown = [t \in Twins |-> [p \in FieldPoints |-> OwnValue]]
  /\ twinsOwed = FALSE /\ session = Free
  /\ inquiry = NoInquiry /\ sweep = NoSweep /\ pulse = NoAnswer
  /\ followed = Unfollowed /\ undisturbed = FALSE
  /\ fieldEdits = 0 /\ inquiries = 0 /\ sweeps = 0 /\ pulses = 0

Forget == followed' = Unfollowed /\ undisturbed' = FALSE
Remember == UNCHANGED <<followed, undisturbed>>

---------------------------------------------------------------------------
(* The network *)

FieldEdit ==
  /\ fieldEdits < MaxFieldEdits /\ fieldEdits' = fieldEdits + 1
  /\ UNCHANGED <<inventory, twinShown, session, inquiry, sweep, pulse, inquiries, sweeps, pulses>>

Change(h, p, v) ==
  /\ FieldEdit
  /\ field' = [field EXCEPT ![h].value[p] = v]
  /\ UNCHANGED <<twins, twinsOwed>> /\ Remember

\* A device is given another address.
Move(i, h) ==
  /\ FieldEdit
  /\ field' = [x \in Hosts |-> [field[x] EXCEPT !.devices = IF x = h THEN @ \cup {i} ELSE @ \ {i}]]
  /\ UNCHANGED <<twins, twinsOwed>> /\ Remember

---------------------------------------------------------------------------
(* Sessions.  A broadcast needs port 47808, which the engine holds while it *)
(* serves anything: it fails after two seconds.                             *)

ServedTwins == {t \in Twins : twinShown[t] # NoAnswer}

Asks(what, target, host, points) ==
  /\ inquiry.pc = "idle" /\ inquiries < MaxInquiries
  /\ inquiries' = inquiries + 1
  /\ inquiry' = [NoInquiry EXCEPT !.pc = "wait", !.what = what, !.target = target,
                                  !.host = host, !.points = points]
  /\ UNCHANGED <<field, inventory, twins, twinShown, twinsOwed, session, sweep, pulse, followed,
                 undisturbed, fieldEdits, sweeps, pulses>>

\* POST /sync: a target, or the subnet.
AskDevices(h) == Asks("devices", NoAnswer, h, {})

\* Both read the row before they wait for a session.
AskPoints(i) == inventory[i].host # NoAnswer /\ Asks("points", i, inventory[i].host, {})
AskValues(i) == inventory[i].host # NoAnswer /\ Asks("values", i, inventory[i].host, inventory[i].points)

\* raise_discovery_bind_error
RefuseBroadcast ==
  /\ inquiry.pc = "wait" /\ session = Free
  /\ inquiry.what = "devices" /\ inquiry.host = NoAnswer /\ ServedTwins # {}
  /\ inquiry' = NoInquiry
  /\ UNCHANGED <<field, inventory, twins, twinShown, twinsOwed, session, sweep, pulse, followed,
                 undisturbed, fieldEdits, inquiries, sweeps, pulses>>

OpenSession ==
  /\ inquiry.pc = "wait" /\ session = Free
  /\ ~(inquiry.what = "devices" /\ inquiry.host = NoAnswer /\ ServedTwins # {})
  /\ session' = "inquiry"
  /\ inquiry' = [inquiry EXCEPT !.pc = "ask"]
  /\ UNCHANGED <<field, inventory, twins, twinShown, twinsOwed, sweep, pulse, followed,
                 undisturbed, fieldEdits, inquiries, sweeps, pulses>>

\* who_is with a listener, and by_instance: of several hosts that answer for an
\* instance, the first; a target's answers are told apart by their source.
HeardFrom(replies) ==
  {found \in [Externals -> Hosts \cup {NoAnswer}] :
     \A i \in Externals :
       /\ found[i] # NoAnswer => i \in replies[found[i]]
       /\ found[i] = NoAnswer => \A h \in Hosts : i \notin replies[h]}
Reachable(h) == IF inquiry.host \in {NoAnswer, h} THEN field[h].devices ELSE {}

\* read_property of one point at a host: an answer, or a failure.
Answers(h, p) == {field[h].value[p], NoAnswer}

Closes(what) ==
  /\ inquiry.pc = "ask" /\ inquiry.what = what
  /\ session' = Free
  /\ UNCHANGED <<field, inventory, twins, twinShown, twinsOwed, sweep, pulse, followed, undisturbed,
                 fieldEdits, inquiries, sweeps, pulses>>

\* discover: an answer is lost or not.
HearDevices ==
  /\ Closes("devices")
  /\ \E replies \in [Hosts -> SUBSET Externals] :
       /\ \A h \in Hosts : replies[h] \subseteq Reachable(h)
       /\ \E found \in HeardFrom(replies) :
            inquiry' = [inquiry EXCEPT !.pc = "store", !.found = found]

\* validate: without the Object_List the request fails; a point whose name
\* cannot be read is left out.
ReadPoints ==
  /\ Closes("points")
  /\ \/ inquiry' = NoInquiry
     \/ \E named \in SUBSET FieldPoints :
          inquiry' = [inquiry EXCEPT !.pc = "store", !.points = named]

\* read_present_values: never fails.
ReadValues ==
  /\ Closes("values")
  /\ inquiry' = [inquiry EXCEPT !.pc = "store"]

---------------------------------------------------------------------------
(* What an inquiry leaves in the inventory *)

StoreFound ==
  /\ inquiry.pc = "store"
  /\ inquiry' = NoInquiry
  /\ UNCHANGED <<field, twins, twinShown, twinsOwed, session, sweep, pulse, fieldEdits, inquiries, sweeps, pulses>>

\* sync_external_devices: no row is ever removed.
SyncDevices ==
  /\ StoreFound /\ inquiry.what = "devices"
  /\ inventory' = [i \in Externals |->
       IF inquiry.found[i] = NoAnswer THEN inventory[i]
       ELSE [inventory[i] EXCEPT !.host = inquiry.found[i], !.seen = TRUE]]
  /\ IF \A i \in Externals : inquiry.found[i] \in {NoAnswer, inventory[i].host} THEN Remember ELSE Forget

\* sync_external_objects and touch_external_device_last_seen.
SyncPoints ==
  /\ StoreFound /\ inquiry.what = "points"
  /\ inventory' = [inventory EXCEPT ![inquiry.target].points = @ \cup inquiry.points,
                                   ![inquiry.target].seen = TRUE]
  /\ Remember

\* refresh_external_objects: it marks the device as seen, answered or not.
TouchValues ==
  /\ StoreFound /\ inquiry.what = "values"
  /\ inventory' = [inventory EXCEPT ![inquiry.target].seen = TRUE]
  /\ Remember

---------------------------------------------------------------------------
(* _mirror_sync_once *)

SweepStep == UNCHANGED <<field, twins, twinsOwed, inquiry, pulse, fieldEdits, inquiries, pulses>>

SweepBegins ==
  /\ sweep.pc = "idle" /\ sweeps < MaxPasses
  /\ sweeps' = sweeps + 1
  /\ LET mirrors == {t \in Twins : twins[t].mode = "mirror" /\ twins[t].enabled}
     IN sweep' = [NoSweep EXCEPT !.pc = "next", !.linked = mirrors,
                                 !.hosts = [i \in Externals |-> inventory[i].host],
                                 !.todo = {TwinSource[t] : t \in mirrors}]
  /\ undisturbed' = ~twinsOwed
  /\ SweepStep /\ UNCHANGED <<inventory, twinShown, session, followed>>

\* A source without a host is passed over.
SweepPasses(i) ==
  /\ sweep.pc = "next" /\ i \in sweep.todo
  /\ session = Free \/ sweep.hosts[i] = NoAnswer
  /\ IF sweep.hosts[i] = NoAnswer
     THEN sweep' = [sweep EXCEPT !.todo = @ \ {i}] /\ UNCHANGED session
     ELSE /\ sweep' = [sweep EXCEPT !.todo = @ \ {i}, !.pc = "read", !.source = i]
          /\ session' = "sweep"
  /\ SweepStep /\ UNCHANGED <<inventory, twinShown, followed, undisturbed, sweeps>>

\* The points of all its twins are read once.
Linked(i) == {t \in sweep.linked : TwinSource[t] = i}
SweepReads ==
  /\ sweep.pc = "read"
  /\ \E values \in [FieldPoints -> Values \cup {NoAnswer}] :
       /\ \A p \in FieldPoints : values[p] \in Answers(sweep.hosts[sweep.source], p)
       /\ sweep' = [sweep EXCEPT !.pc = "touch", !.values = values]
  /\ session' = Free
  /\ SweepStep /\ UNCHANGED <<inventory, twinShown, followed, undisturbed, sweeps>>

\* A session that fails as a whole: the source is skipped in this sweep.
SweepMisses ==
  /\ sweep.pc = "read"
  /\ sweep' = [sweep EXCEPT !.pc = "next", !.source = NoAnswer]
  /\ session' = Free
  /\ SweepStep /\ UNCHANGED <<inventory, twinShown, followed, undisturbed, sweeps>>

SweepTouches ==
  /\ sweep.pc = "touch"
  /\ inventory' = [inventory EXCEPT ![sweep.source].seen = TRUE]
  /\ sweep' = [sweep EXCEPT !.pc = "inject", !.feed = Linked(sweep.source)]
  /\ SweepStep /\ UNCHANGED <<twinShown, session, followed, undisturbed, sweeps>>

\* Mutant: a point that was not read is written as nothing.
WithNoAnswers(old, values) == [p \in FieldPoints |-> values[p]]

\* A point that was not read keeps its value.
WithAnswers(old, values) == [p \in FieldPoints |-> IF values[p] = NoAnswer THEN old[p] ELSE values[p]]

\* inject_mirror_values, of a twin the engine has built: the mode is not read again.
SweepInjects(t) ==
  /\ sweep.pc = "inject" /\ t \in sweep.feed
  /\ sweep' = [sweep EXCEPT !.feed = @ \ {t}]
  /\ twinShown' = IF t \in ServedTwins THEN [twinShown EXCEPT ![t] = WithAnswers(@, sweep.values)] ELSE twinShown
  /\ SweepStep /\ UNCHANGED <<inventory, session, followed, undisturbed, sweeps>>

\* Ghost: nothing the sweep has read of the rows has changed under it.
SweepSettles ==
  /\ sweep.pc = "inject" /\ sweep.feed = {}
  /\ sweep' = [sweep EXCEPT !.pc = "next", !.source = NoAnswer, !.values = NoAnswer]
  /\ followed' = IF undisturbed
                 THEN [followed EXCEPT ![sweep.source] =
                         [p \in FieldPoints |-> IF sweep.values[p] = NoAnswer THEN @[p] ELSE sweep.values[p]]]
                 ELSE followed
  /\ SweepStep /\ UNCHANGED <<inventory, twinShown, session, undisturbed, sweeps>>

SweepEnds ==
  /\ sweep.pc = "next" /\ sweep.todo = {}
  /\ sweep' = NoSweep
  /\ SweepStep /\ UNCHANGED <<inventory, twinShown, session, followed, undisturbed, sweeps>>

---------------------------------------------------------------------------
(* The twins *)

\* update_device, and the reload it schedules.
EditTwin(t, mode, enabled) ==
  /\ FieldEdit
  /\ twins' = [twins EXCEPT ![t] = [mode |-> mode, enabled |-> enabled]]
  /\ twinsOwed' = TRUE /\ Forget
  /\ UNCHANGED field

\* The engine builds every enabled device anew, a mirror too with what its row
\* is configured with.
ReloadTwins ==
  /\ twinsOwed /\ twinsOwed' = FALSE
  /\ twinShown' = [t \in Twins |-> IF twins[t].enabled THEN [p \in FieldPoints |-> OwnValue] ELSE NoAnswer]
  /\ Forget
  /\ UNCHANGED <<field, inventory, twins, session, inquiry, sweep, pulse, fieldEdits, inquiries, sweeps, pulses>>

PulseReads ==
  /\ pulse = NoAnswer /\ pulses < MaxTwinTicks
  /\ pulses' = pulses + 1
  /\ pulse' = [t \in Twins |-> twins[t].mode]
  /\ UNCHANGED <<field, inventory, twins, twinShown, twinsOwed, session, inquiry, sweep, followed,
                 undisturbed, fieldEdits, inquiries, sweeps>>

\* The behaviours of a mirror do not run; one that has become a mirror since
\* the rows were read is written once more.
PulseServes ==
  /\ pulse # NoAnswer /\ pulse' = NoAnswer
  /\ twinShown' = [t \in Twins |-> IF t \in ServedTwins /\ pulse[t] = "simulation"
                               THEN [p \in FieldPoints |-> OwnValue] ELSE twinShown[t]]
  /\ IF \A t \in Twins : pulse[t] = twins[t].mode THEN Remember ELSE Forget
  /\ UNCHANGED <<field, inventory, twins, twinsOwed, session, inquiry, sweep, fieldEdits, inquiries, sweeps, pulses>>

ExternalsNext ==
  \/ \E h \in Hosts :
       \/ \E p \in FieldPoints, v \in Values : Change(h, p, v)
       \/ \E i \in Externals : Move(i, h)
  \/ \E h \in Hosts \cup {NoAnswer} : AskDevices(h)
  \/ \E i \in Externals : AskPoints(i) \/ AskValues(i) \/ SweepPasses(i)
  \/ RefuseBroadcast \/ OpenSession \/ HearDevices \/ ReadPoints \/ ReadValues
  \/ SyncDevices \/ SyncPoints \/ TouchValues
  \/ SweepBegins \/ SweepReads \/ SweepMisses \/ SweepTouches \/ SweepSettles \/ SweepEnds
  \/ \E t \in Twins :
       \/ SweepInjects(t)
       \/ \E mode \in {"mirror", "simulation"}, enabled \in BOOLEAN : EditTwin(t, mode, enabled)
  \/ ReloadTwins \/ PulseReads \/ PulseServes

ExternalsSpec == ExternalsInit /\ [][ExternalsNext]_externalVars

---------------------------------------------------------------------------
\* "propagates them into all linked Mirror simulated devices"
\* (mirror_sync_loop): between sweeps, all twins that mirror a device show what
\* the host its row names last answered, each point of them, and a point whose
\* read failed keeps the answer before, whatever inquiries, ticks, reloads and
\* changes of the rows went on in between.
TwinsFollow ==
  sweep.pc = "idle" /\ ~twinsOwed =>
    \A t \in ServedTwins : twins[t].mode = "mirror" =>
      \A p \in FieldPoints :
        LET answer == followed[TwinSource[t]][p]
        IN answer # NoAnswer => twinShown[t][p] = answer
===============================================================================
