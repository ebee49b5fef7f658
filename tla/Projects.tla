------------------------------ MODULE Projects ------------------------------
(***************************************************************************)
(* Saving and loading a project (db/database.py, api/routers/projects.py). *)
(* A project is a snapshot of the live tables.  Loading it empties them    *)
(* and inserts the rows again under new ids, so every reference between    *)
(* rows has to be translated.  load_project commits three times; a crash   *)
(* or another call may come in between.  The routes for discovery          *)
(* connections rewrite the whole stored snapshot.                          *)
(*                                                                         *)
(* A row is [table, id, name, refs]: refs maps the names of its foreign    *)
(* keys to ids, or to NoProjectRow.  Ids are unique across tables here.    *)
(* A snapshot names the point of a trend log and of a schedule target by   *)
(* type and instance on the device that owns the log or the schedule; the  *)
(* routes accept no point of another device, so that names one row.        *)
(***************************************************************************)
EXTENDS Integers, FiniteSets, FiniteSetsExt

CONSTANTS
  Sample,         \* the live rows to begin with
  NoProjectRow,   \* no id; no snapshot
  MaxProjectEdits \* bound on edits, saves, loads and imports

Ids(rows) == {r.id : r \in rows}
RefsOf(r) == {<<f, r.refs[f]>> : f \in DOMAIN r.refs}

\* The schema: <<table, name of the foreign key, table it refers to>>.
ForeignKeys ==
  {<<"locations", "parent", "locations">>, <<"devices", "location", "locations">>,
   <<"equipment", "location", "locations">>, <<"devices", "source", "devices">>,
   <<"models", "createdFrom", "devices">>, <<"targets", "schedule", "schedules">>,
   <<"aggregates", "weight", "objects">>, <<"entities", "object", "objects">>,
   <<"entities", "device", "devices">>, <<"entities", "equipment", "equipment">>,
   <<"entities", "place", "locations">>,
   <<"relationships", "entity", "entities">>, <<"relationships", "peer", "entities">>}
  \cup {<<t, "owner", "devices">> : t \in {"objects", "trendLogs", "schedules", "calendars", "energyConfigs"}}
  \cup {<<t, "owner", "models">> : t \in {"mappings", "exposures", "aggregates"}}
  \cup {<<t, "point", "objects">> : t \in {"trendLogs", "targets", "mappings", "exposures", "aggregates"}}

\* A row has an id of its own and refers to rows of the right tables.
Keyed(rows) ==
  /\ \A r \in rows : r.id \in Nat /\ r = [table |-> r.table, id |-> r.id, name |-> r.name, refs |-> r.refs]
  /\ \A r, s \in rows : r.id = s.id => r = s
  /\ \A r, s \in rows : \A f \in DOMAIN r.refs : r.refs[f] = s.id => <<r.table, f, s.table>> \in ForeignKeys

\* No reference leads to a row that is not there.
Closed(rows) == \A r \in rows : \A ref \in RefsOf(r) : ref[2] = NoProjectRow \/ ref[2] \in Ids(rows)

\* Parents lead to the top.
Rooted(rows) ==
  \A S \in SUBSET {r \in rows : r.table = "locations"} :
    S # {} => \E r \in S : \A ref \in RefsOf(r) : ref[2] \notin Ids(S)

ASSUME ProjectAssumption ==
  /\ MaxProjectEdits \in Nat /\ NoProjectRow \notin Nat
  /\ IsFiniteSet(Sample) /\ Keyed(Sample) /\ Closed(Sample)

VARIABLES
  liveProject, \* the live rows
  lastId,      \* the highest id ever used (AUTOINCREMENT)
  profile,     \* profiles.data of one project: rows, connections
  loading,     \* load_project: the payload, and how far it is
  relinking,   \* a discovery connection route: the payload it has read
  fresh,       \* history: what was saved when a load began, if nothing was changed since
  lastSaved,   \* history: the rows the last save or import stored
  relinked,    \* history: a connection route wrote back what a save had replaced
  pjEdits

pjVars == <<liveProject, lastId, profile, loading, relinking, fresh, lastSaved, relinked, pjEdits>>

\* Without the row these refer to, load_project leaves a row out; any other
\* reference it cannot translate becomes NULL.
Needed == {"parent", "owner", "point", "weight", "schedule", "entity", "peer"}

\* Deleting an object deletes what refers to it by these ...
Cascading == {"point", "object", "entity", "peer"}
\* ... and is refused while it is a member of an aggregate.
Restricting(r, id) == r.table = "aggregates" /\ \E f \in {"point", "weight"} : r.refs[f] = id

ProjectsInit ==
  /\ liveProject = Sample /\ lastId = Max(Ids(Sample) \cup {0})
  /\ profile = [rows |-> {}, connections |-> 0]
  /\ loading = [step |-> "idle", rows |-> {}, shift |-> 0, saved |-> {}]
  /\ relinking = NoProjectRow
  /\ fresh = NoProjectRow /\ lastSaved = {} /\ relinked = FALSE
  /\ pjEdits = 0

ProjectEdit == pjEdits < MaxProjectEdits /\ pjEdits' = pjEdits + 1

---------------------------------------------------------------------------
(* Edits of the live tables *)

Dependents(rows) ==
  {r \in liveProject : \E ref \in RefsOf(r) : ref[1] \in Cascading /\ ref[2] \in Ids(rows)}

\* DELETE /objects/{id}
RemoveObject(o) ==
  /\ ProjectEdit
  /\ o.table = "objects" /\ ~\E r \in liveProject : Restricting(r, o.id)
  /\ LET first == Dependents({o})
     IN liveProject' = liveProject \ ({o} \cup first \cup Dependents(first))
  /\ fresh' = NoProjectRow
  /\ UNCHANGED <<lastId, profile, loading, relinking, lastSaved, relinked>>

\* PUT /devices/{id}: another location
MoveDevice(d, l) ==
  /\ ProjectEdit
  /\ d.table = "devices" /\ l.table = "locations" /\ d.refs.location # l.id
  /\ liveProject' = (liveProject \ {d}) \cup {[d EXCEPT !.refs.location = l.id]}
  /\ fresh' = NoProjectRow
  /\ UNCHANGED <<lastId, profile, loading, relinking, lastSaved, relinked>>

---------------------------------------------------------------------------
(* Snapshots *)

\* save_project, update_project: whatever is live.
SaveProject ==
  /\ ProjectEdit
  /\ profile' = [profile EXCEPT !.rows = liveProject] /\ lastSaved' = liveProject
  /\ fresh' = NoProjectRow
  /\ UNCHANGED <<liveProject, lastId, loading, relinking, relinked>>

\* import_project stores what it is given, here a snapshot without one row.
ImportProject(r) ==
  /\ ProjectEdit
  /\ profile' = [profile EXCEPT !.rows = @ \ {r}] /\ lastSaved' = profile.rows \ {r}
  /\ fresh' = NoProjectRow
  /\ UNCHANGED <<liveProject, lastId, loading, relinking, relinked>>

\* A discovery connection route reads the payload ...
ReadPayload ==
  /\ relinking = NoProjectRow /\ profile.connections = 0
  /\ relinking' = profile
  /\ UNCHANGED <<liveProject, lastId, profile, loading, fresh, lastSaved, relinked, pjEdits>>

\* ... and writes it back, all of it, with its connections changed.
WritePayload ==
  /\ relinking # NoProjectRow
  /\ profile' = [relinking EXCEPT !.connections = @ + 1]
  /\ relinking' = NoProjectRow
  /\ relinked' = (relinked \/ profile # relinking)
  /\ fresh' = NoProjectRow
  /\ UNCHANGED <<liveProject, lastId, loading, lastSaved, pjEdits>>

---------------------------------------------------------------------------
(* Loading *)

\* The rows that can be restored: the least set that has, with a row, every
\* row it needs.
Restorable(rows) ==
  LET With(kept) ==
        {r \in rows : \A ref \in RefsOf(r) : ref[1] \in Needed /\ ref[2] # NoProjectRow => ref[2] \in Ids(kept)}
      grown[n \in 0..Cardinality(rows)] == IF n = 0 THEN {} ELSE With(grown[n - 1])
  IN grown[Cardinality(rows)]

\* Mutant: a stored id is used as it is.
NotTranslated(kept, shift, id) == id

\* location_id_map, dev_id_map, global_obj_id_map, equipment_id_map, entity_id_map
Translated(kept, shift, id) == IF id \in Ids(kept) THEN id + shift ELSE NoProjectRow

Restored(kept, shift) ==
  {[r EXCEPT !.id = @ + shift,
             !.refs = [f \in DOMAIN r.refs |-> Translated(kept, shift, r.refs[f])]] : r \in kept}

\* clear_live_state, and the first commit of load_project.  Deleting devices
\* takes everything attached to them along.
ClearLive ==
  /\ ProjectEdit
  /\ liveProject' = {} /\ fresh' = NoProjectRow
  /\ loading' = [loading EXCEPT !.saved = IF loading.step = "locations" THEN NoProjectRow ELSE @]
  /\ UNCHANGED <<lastId, profile, relinking, lastSaved, relinked>>

LoadWipe ==
  /\ ProjectEdit
  /\ loading.step = "idle" /\ profile.rows # {}
  /\ liveProject' = {} /\ fresh' = NoProjectRow
  /\ loading' = [step |-> "wiped", rows |-> Restorable(profile.rows), shift |-> lastId,
                 saved |-> lastSaved]
  /\ UNCHANGED <<lastId, profile, relinking, lastSaved, relinked>>

\* The locations, parents first, are committed on their own ...
LoadLocations ==
  /\ loading.step = "wiped"
  /\ liveProject' = liveProject \cup {r \in Restored(loading.rows, loading.shift) : r.table = "locations"}
  /\ lastId' = lastId + Max(Ids(loading.rows) \cup {0})
  /\ loading' = [loading EXCEPT !.step = "locations"]
  /\ UNCHANGED <<profile, relinking, fresh, lastSaved, relinked, pjEdits>>

\* ... and the rest together.  The database refuses a reference to a location
\* that is gone again.
LoadRest ==
  /\ loading.step = "locations"
  /\ liveProject' = liveProject \cup {r \in Restored(loading.rows, loading.shift) : r.table # "locations"}
  /\ \A r \in liveProject' : \A ref \in RefsOf(r) : ref[2] # NoProjectRow => ref[2] \in Ids(liveProject')
  /\ loading' = [loading EXCEPT !.step = "idle", !.rows = {}, !.saved = {}]
  /\ fresh' = loading.saved
  /\ UNCHANGED <<lastId, profile, relinking, lastSaved, relinked, pjEdits>>

\* The process dies on the way, or an insert fails.
LoadFails ==
  /\ loading.step # "idle"
  /\ loading' = [loading EXCEPT !.step = "idle", !.rows = {}, !.saved = {}]
  /\ UNCHANGED <<liveProject, lastId, profile, relinking, fresh, lastSaved, relinked, pjEdits>>

ProjectsNext ==
  \/ \E r \in liveProject : RemoveObject(r) \/ \E l \in liveProject : MoveDevice(r, l)
  \/ SaveProject \/ ReadPayload \/ WritePayload \/ ClearLive
  \/ \E r \in profile.rows : ImportProject(r)
  \/ LoadWipe \/ LoadLocations \/ LoadRest \/ LoadFails

ProjectsSpec == ProjectsInit /\ [][ProjectsNext]_pjVars

---------------------------------------------------------------------------
NameOf(rows, id) == IF id \in Ids(rows) THEN (CHOOSE r \in rows : r.id = id).name ELSE NoProjectRow

\* The rows with names in the place of ids.
View(rows) ==
  {[table |-> r.table, name |-> r.name,
    refs |-> [f \in DOMAIN r.refs |-> NameOf(rows, r.refs[f])]] : r \in rows}

\* Loading gives back what the last save or import stored: the same rows,
\* each referring to the same ones, under ids that were never used before -
\* also when an earlier load was cut short or other projects were loaded in
\* between.  Of a snapshot with a row missing, nothing that comes back refers
\* to a row that is not there.  (A save that a connection route overwrites is
\* lost: relinked; so are locations cleared before the last commit of a load,
\* and those whose parents have a cycle.)
RestoredAsSaved ==
  /\ loading.step = "idle" => Closed(liveProject)
  /\ fresh # NoProjectRow /\ ~relinked /\ Closed(fresh) /\ Rooted(fresh) => View(liveProject) = View(fresh)
=============================================================================
