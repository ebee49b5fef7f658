-------------------------------- MODULE Site --------------------------------
(***************************************************************************)
(* Locations, devices, objects, pieces of equipment, and the Brick graph   *)
(* about them (db/database.py, semantics/mirror.py, semantics/backfill.py  *)
(* and the routes for each).  A row has a class of its own, a flat field   *)
(* (locations.kind, devices.equipment_type, objects.point_type,            *)
(* equipment.equipment_type), and so has the semantic entity about it; the *)
(* drawers write the one, the Semantic panel the other, and each updates   *)
(* the other in its transaction.  A route that looks for a cycle does so   *)
(* in calls of its own, before the transaction that closes the edge.       *)
(*                                                                         *)
(* Local slugs are left out: the key of an entity is its kind, class and   *)
(* row.  So is the migration of the old AHU fan classes.                   *)
(***************************************************************************)
EXTENDS Integers, FiniteSets, FiniteSetsExt

CONSTANTS
  Locations, Devices, Objects, Equipment,  \* rows that may come to exist
  HostOf,      \* [Objects -> Devices]
  Imported,    \* devices found by discovery, not simulated
  Classes,
  NoPlace, NoClass,
  SiteAtStart, \* the rows there are to begin with, at no location
  Callers,     \* requests that look for a cycle at the same time
  Idle,        \* such a request is not under way
  MaxEntities, \* bound on the entities ever created
  MaxSiteEdits \* bound on all edits

SiteRows == Locations \cup Devices \cup Objects \cup Equipment
Placed == Locations \cup Devices \cup Equipment

\* Ids of different tables are told apart.
ASSUME SiteAssumption ==
  /\ HostOf \in [Objects -> Devices] /\ Imported \subseteq Devices
  /\ MaxEntities \in Nat /\ MaxSiteEdits \in Nat
  /\ NoPlace \notin Locations /\ NoClass \notin Classes
  /\ IsFiniteSet(Locations) /\ IsFiniteSet(Devices)
  /\ Locations \cap Devices = {} /\ (Locations \cup Devices) \cap (Objects \cup Equipment) = {}
  /\ Objects \cap Equipment = {}

VARIABLES
  rows,    \* those that exist
  used,    \* those that ever did: ids are not given twice
  place,   \* parent_location_id, location_id
  flat,    \* the class of each row, or NoClass
  graph,   \* semantic_entities: id, kind, row, class; semantic_relationships; the last id given
  pinned,  \* rows that aggregate_members, functional_test_runs or a twin's source_device_id refers to
  looked,  \* by caller: the edge for which no cycle was found
  raced,   \* history: an edge was stored that had been looked at before another was
  siteEdits

siteVars == <<rows, used, place, flat, graph, pinned, looked, raced, siteEdits>>

SiteInit ==
  /\ rows = SiteAtStart /\ used = SiteAtStart
  /\ place = [r \in Placed |-> NoPlace]
  /\ flat = [r \in SiteRows |-> NoClass]
  /\ graph = [entities |-> {}, edges |-> {}, last |-> 0]
  /\ pinned = {}
  /\ looked = [c \in Callers |-> Idle]
  /\ raced = FALSE
  /\ siteEdits = 0

SiteEdit == siteEdits < MaxSiteEdits /\ siteEdits' = siteEdits + 1

\* An id is given once.
New(r) == r \notin used
Saved(rs) == rows' = rows \cup rs /\ used' = used \cup rs
AtPlace(l) == l \in (rows \cap Locations) \cup {NoPlace}

---------------------------------------------------------------------------
(* The tree of locations *)

\* The locations at and above l, as far as parents lead; at and below it.
Above(l) ==
  LET up[n \in 0..Cardinality(Locations)] ==
        IF n = 0 THEN {l} ELSE up[n - 1] \cup {place[x] : x \in up[n - 1] \ {NoPlace}}
  IN up[Cardinality(Locations)]
Subtree(l) == {x \in rows \cap Locations : l \in Above(x)}

OnCycle(l) == place[l] # NoPlace /\ l \in Above(place[l])

---------------------------------------------------------------------------
(* The Brick graph.  Operators from one graph to the next. *)

\* The top-level entity of a device is the first that is not part of another;
\* any other row has at most one.
Direct(g, kind, row) ==
  LET candidates == {e \in g.entities : /\ e.kind = kind /\ e.row = row
                                        /\ row \in Devices /\ kind = "equipment" =>
                                             ~\E x \in g.edges : x[1] = e.id /\ x[2] = "isPartOf"}
  IN {e \in candidates : \A x \in candidates : e.id <= x.id}
DirectIds(g, kind, row) == {e.id : e \in Direct(g, kind, row)}

\* Two entities may not have the same key, nor a row of another table, or the
\* controller role of a device, two entities.
Unique(g) ==
  \A e, x \in g.entities :
    e # x /\ e.row = x.row /\ e.kind = x.kind =>
      e.row \in Devices /\ e.kind # "controller" /\ e.class # x.class

Without(g, gone) ==
  [g EXCEPT !.entities = {e \in @ : e.id \notin gone},
            !.edges = {x \in @ : x[1] \notin gone /\ x[3] \notin gone}]

With(g, kind, row, class) ==
  [g EXCEPT !.entities = @ \cup {[id |-> g.last + 1, kind |-> kind, row |-> row, class |-> class]},
            !.last = @ + 1]

Changed(g, e, x) == [g EXCEPT !.entities = (@ \ {e}) \cup {x}]

\* _write_direct_entity
Classified(g, kind, row, class) ==
  LET existing == Direct(g, kind, row)
  IN IF class = NoClass THEN Without(g, DirectIds(g, kind, row))
     ELSE IF existing = {} THEN With(g, kind, row, class)
     ELSE LET e == CHOOSE e \in existing : TRUE IN Changed(g, e, [e EXCEPT !.class = class])

\* _sync_point_membership, for the point or for every classified point of the
\* device.
Belonging(g, objects) ==
  [g EXCEPT !.edges = @ \cup
     UNION {DirectIds(g, "point", o) \X {"isPointOf"} \X DirectIds(g, "equipment", HostOf[o]) : o \in objects}]

\* sync_device_location_relationship
Sited(g, d, l) ==
  LET top == DirectIds(g, "equipment", d)
      desired == IF l = NoPlace THEN {} ELSE DirectIds(g, "location", l)
      now == {x \in g.edges : x[1] \in top /\ x[2] = "hasLocation"}
  IN IF \E x \in now : x[3] \in desired THEN g
     ELSE [g EXCEPT !.edges = (@ \ now) \cup (top \X {"hasLocation"} \X desired)]

AllSited(g, ds) == FoldSet(LAMBDA d, acc : Sited(acc, d, place[d]), g, ds)

\* sync_entity_from_flat_field, for each kind of row; d is at l.
SyncedLocation(g, l, class) ==
  AllSited(Classified(g, "location", l, class), {d \in rows \cap Devices : place[d] = l})
SyncedEquipment(g, q, class) == Classified(g, "equipment", q, class)
SyncedObject(g, o, class) == Belonging(Classified(g, "point", o, class), {o})
SyncedDevice(g, d, l, class) ==
  LET own == {o \in rows \cap Objects : HostOf[o] = d /\ flat[o] # NoClass}
  IN Sited(Belonging(Classified(g, "equipment", d, class), own), d, l)

\* A graph the unique indexes accept.
Graph(g) == Unique(g) /\ g.last <= MaxEntities /\ graph' = g

---------------------------------------------------------------------------
(* A row and the entity about it, in one transaction (db/database.py) *)

ObjectRow(o, class) ==
  /\ Saved({o}) /\ flat' = [flat EXCEPT ![o] = class]
  /\ Graph(SyncedObject(graph, o, class))
  /\ UNCHANGED <<place, pinned, looked, raced>>

DeviceRow(d, l, class) ==
  /\ Saved({d})
  /\ place' = [place EXCEPT ![d] = l] /\ flat' = [flat EXCEPT ![d] = class]
  /\ Graph(SyncedDevice(graph, d, l, class))
  /\ UNCHANGED <<pinned, looked, raced>>

EquipmentRow(q, l, class) ==
  /\ Saved({q})
  /\ place' = [place EXCEPT ![q] = l] /\ flat' = [flat EXCEPT ![q] = class]
  /\ Graph(SyncedEquipment(graph, q, class))
  /\ UNCHANGED <<pinned, looked, raced>>

LocationRow(l, above, class) ==
  /\ Saved({l})
  /\ place' = [place EXCEPT ![l] = above] /\ flat' = [flat EXCEPT ![l] = class]
  /\ Graph(SyncedLocation(graph, l, class))

---------------------------------------------------------------------------
(* The drawers: POST and PUT of each row.  The reload of the engine that   *)
(* follows is in EngineReload.                                             *)

CreateObject(o, class) == SiteEdit /\ New(o) /\ HostOf[o] \in rows \ Imported /\ ObjectRow(o, class)
UpdateObject(o, class) == SiteEdit /\ o \in rows /\ ObjectRow(o, class)

CreateDevice(d, l, class) == SiteEdit /\ New(d) /\ AtPlace(l) /\ DeviceRow(d, l, class)
UpdateDevice(d, l, class) == SiteEdit /\ d \in rows /\ AtPlace(l) /\ DeviceRow(d, l, class)

CreateEquipment(q, l, class) == SiteEdit /\ New(q) /\ AtPlace(l) /\ EquipmentRow(q, l, class)
UpdateEquipment(q, l, class) == SiteEdit /\ q \in rows /\ AtPlace(l) /\ EquipmentRow(q, l, class)

CreateLocation(l, above, class) ==
  /\ SiteEdit /\ New(l) /\ AtPlace(above)
  /\ LocationRow(l, above, class)
  /\ UNCHANGED <<pinned, looked, raced>>

\* sync_external_devices, sync_external_objects: a row without class or place;
\* one that is there keeps both.
DiscoverDevice(d) ==
  /\ SiteEdit /\ New(d) /\ d \in Imported
  /\ Saved({d})
  /\ UNCHANGED <<place, flat, graph, pinned, looked, raced>>
DiscoverObject(o) ==
  /\ SiteEdit /\ New(o) /\ HostOf[o] \in rows \cap Imported
  /\ Saved({o})
  /\ UNCHANGED <<place, flat, graph, pinned, looked, raced>>

\* import_ede_objects does the same for a simulated device.
ImportObject(o) ==
  /\ SiteEdit /\ New(o) /\ HostOf[o] \in rows \ Imported
  /\ Saved({o})
  /\ UNCHANGED <<place, flat, graph, pinned, looked, raced>>

\* generate_building_levels, all or nothing.
GenerateLevels(building, levels, class) ==
  /\ SiteEdit /\ New(building) /\ \A l \in levels : New(l) /\ l # building
  /\ levels # {}
  /\ Saved(levels \cup {building})
  /\ place' = [r \in Placed |-> IF r \in levels THEN building ELSE place[r]]
  /\ flat' = [r \in SiteRows |-> IF r \in levels \cup {building} THEN class ELSE flat[r]]
  /\ Graph(FoldSet(LAMBDA l, g : Classified(g, "location", l, class), graph, levels \cup {building}))
  /\ UNCHANGED <<pinned, looked, raced>>

\* PUT /locations/{id}, up to update_location: _is_descendant_location walks up
\* from the new parent, one call at a time.  On a cycle it never comes back.
LookAbove(c, l, above) ==
  /\ looked[c] = Idle /\ siteEdits < MaxSiteEdits
  /\ {l, above} \subseteq rows /\ l # above
  /\ l \notin Above(above) /\ ~\E x \in Above(above) \ {NoPlace} : OnCycle(x)
  /\ looked' = [looked EXCEPT ![c] = <<l, "under", above>>]
  /\ UNCHANGED <<rows, used, place, flat, graph, pinned, raced, siteEdits>>

Others(c) == \E x \in Callers \ {c} : looked[x] # Idle

\* A parent that is gone by now breaks a foreign key.
MoveLocation(c, class) ==
  LET l == looked[c][1]
      above == looked[c][3]
  IN /\ looked[c] # Idle /\ SiteEdit
     /\ looked[c][2] = "under"
     /\ looked' = [looked EXCEPT ![c] = Idle]
     /\ IF {l, above} \subseteq rows
        THEN LocationRow(l, above, class) /\ raced' = (raced \/ Others(c))
        ELSE UNCHANGED <<rows, used, place, flat, graph, raced>>
     /\ UNCHANGED pinned

---------------------------------------------------------------------------
(* Deletions *)

\* Foreign keys take a device's objects and the entities about any row along,
\* and refuse it while a row that has no such rule refers to one of them.
Gone(rs) == rs \cup {o \in Objects : HostOf[o] \in rs}

RemoveRows(rs) ==
  /\ SiteEdit
  /\ Gone(rs) \cap pinned = {}
  /\ rows' = rows \ Gone(rs)
  /\ flat' = [r \in SiteRows |-> IF r \in Gone(rs) THEN NoClass ELSE flat[r]]
  /\ place' = [r \in Placed |-> IF r \in rs THEN NoPlace ELSE place[r]]
  /\ Graph(Without(graph, {e.id : e \in {e \in graph.entities : e.row \in Gone(rs)}}))
  /\ UNCHANGED <<used, pinned, looked, raced>>

\* An object that an aggregate counts is refused before, too.
DeleteObject(o) == o \in (rows \cap Objects) \ pinned /\ HostOf[o] \notin Imported /\ RemoveRows({o})
DeleteDevice(d) == d \in rows \cap Devices /\ RemoveRows({d})
DeleteEquipment(q) == q \in rows \cap Equipment /\ RemoveRows({q})

\* delete_location refuses a location that is not empty.
DeleteLocation(l) ==
  /\ l \in rows \cap Locations /\ ~\E r \in rows \cap Placed : place[r] = l
  /\ RemoveRows({l})

\* delete_location_cascade; on a cycle _subtree_location_ids never ends.
DeleteSubtree(l) ==
  /\ l \in rows \cap Locations /\ ~OnCycle(l)
  /\ LET under == Subtree(l)
     IN RemoveRows(under \cup {r \in rows \cap (Devices \cup Equipment) : place[r] \in under})

\* An aggregate mapping, a test run or a twin comes or goes.
Pin(r) ==
  /\ SiteEdit /\ r \in rows \cap (Devices \cup Objects)
  /\ pinned' = (pinned \ {r}) \cup ({r} \ pinned)
  /\ UNCHANGED <<rows, used, place, flat, graph, looked, raced>>

---------------------------------------------------------------------------
(* The Semantic panel *)

Mirrored(kind, row) == row \in rows \ Devices

RowsOf(kind) ==
  CASE kind = "point" -> Objects [] kind = "location" -> Locations \cup Devices
    [] kind = "equipment" -> Devices \cup Equipment [] kind = "controller" -> Devices
Kinds == {"point", "location", "equipment", "controller"}

\* create_semantic_entity
WithEntity(kind, row, class) ==
  /\ Graph(With(graph, kind, row, class))
  /\ flat' = IF Mirrored(kind, row) THEN [flat EXCEPT ![row] = class] ELSE flat

CreateEntity(kind, row, class) ==
  /\ SiteEdit /\ row \in rows \cap RowsOf(kind)
  /\ WithEntity(kind, row, class)
  /\ UNCHANGED <<rows, used, place, pinned, looked, raced>>

\* sync_controller_entity: a device has one such entity, which is kept.
MarkController(d, class) ==
  /\ SiteEdit /\ d \in rows \cap Devices
  /\ Direct(graph, "controller", d) = {}
  /\ Graph(With(graph, "controller", d, class))
  /\ UNCHANGED <<rows, used, place, flat, pinned, looked, raced>>

\* Mutant: the row an entity was about keeps its class.
EntityOnly(e, kind, row, class) ==
  /\ Graph(Changed(graph, e, [e EXCEPT !.kind = kind, !.row = row, !.class = class]))
  /\ flat' = [r \in SiteRows |-> IF r = row /\ Mirrored(kind, row) THEN class ELSE flat[r]]

\* update_semantic_entity: of the row it was about before, too.
EntityAndRows(e, kind, row, class) ==
  /\ Graph(Changed(graph, e, [e EXCEPT !.kind = kind, !.row = row, !.class = class]))
  /\ flat' = [r \in SiteRows |-> IF r = row /\ Mirrored(kind, row) THEN class
                                 ELSE IF r = e.row /\ Mirrored(e.kind, r) THEN NoClass
                                 ELSE flat[r]]

UpdateEntity(e, kind, row, class) ==
  /\ SiteEdit /\ row \in rows \cap RowsOf(kind)
  /\ EntityAndRows(e, kind, row, class)
  /\ UNCHANGED <<rows, used, place, pinned, looked, raced>>

\* delete_semantic_entity
WithoutEntity(e) ==
  /\ Graph(Without(graph, {e.id}))
  /\ flat' = IF Mirrored(e.kind, e.row) THEN [flat EXCEPT ![e.row] = NoClass] ELSE flat

DeleteEntity(e) ==
  /\ SiteEdit
  /\ WithoutEntity(e)
  /\ UNCHANGED <<rows, used, place, pinned, looked, raced>>

\* _would_create_ispartof_cycle ...
PartsOf(e) ==
  LET up[n \in 0..graph.last] ==
        IF n = 0 THEN {e}
        ELSE up[n - 1] \cup {x[3] : x \in {x \in graph.edges : x[1] \in up[n - 1] /\ x[2] = "isPartOf"}}
  IN up[graph.last]

LookForParts(c, e, whole) ==
  /\ looked[c] = Idle /\ siteEdits < MaxSiteEdits
  /\ e # whole /\ e \notin PartsOf(whole)
  /\ looked' = [looked EXCEPT ![c] = <<e, "isPartOf", whole>>]
  /\ UNCHANGED <<rows, used, place, flat, graph, pinned, raced, siteEdits>>

\* ... and create_semantic_relationship.
StorePart(c) ==
  /\ looked[c] # Idle /\ SiteEdit
  /\ looked[c][2] = "isPartOf"
  /\ looked' = [looked EXCEPT ![c] = Idle]
  /\ IF {looked[c][1], looked[c][3]} \subseteq {e.id : e \in graph.entities}
     THEN Graph([graph EXCEPT !.edges = @ \cup {looked[c]}]) /\ raced' = (raced \/ Others(c))
     ELSE UNCHANGED <<graph, raced>>
  /\ UNCHANGED <<rows, used, place, flat, pinned>>

DeleteEdge(x) ==
  /\ SiteEdit
  /\ graph' = [graph EXCEPT !.edges = @ \ {x}]
  /\ UNCHANGED <<rows, used, place, flat, pinned, looked, raced>>

\* The process starts again: Database.setup() adds the entity of a classified
\* device, and the edges, that are missing; other rows lack none.
SetUp ==
  /\ SiteEdit
  /\ LET bare == {d \in rows \cap Devices : flat[d] # NoClass /\ Direct(graph, "equipment", d) = {}}
         full == FoldSet(LAMBDA d, g : IF Unique(With(g, "equipment", d, flat[d]))
                                       THEN With(g, "equipment", d, flat[d]) ELSE g, graph, bare)
     IN Graph(AllSited(Belonging(full, rows \cap Objects), {d \in rows \cap Devices : place[d] # NoPlace}))
  /\ looked' = [c \in Callers |-> Idle]
  /\ UNCHANGED <<rows, used, place, flat, pinned, raced>>

SiteNext ==
  \/ \E class \in Classes \cup {NoClass} :
       \/ \E o \in Objects : CreateObject(o, class) \/ UpdateObject(o, class)
       \/ \E l \in Locations \cup {NoPlace} :
            \/ \E d \in Devices : CreateDevice(d, l, class) \/ UpdateDevice(d, l, class)
            \/ \E q \in Equipment : CreateEquipment(q, l, class) \/ UpdateEquipment(q, l, class)
            \/ \E x \in Locations : CreateLocation(x, l, class)
       \/ \E c \in Callers : MoveLocation(c, class)
  \/ \E d \in Devices : DiscoverDevice(d) \/ DeleteDevice(d)
  \/ \E o \in Objects : DiscoverObject(o) \/ ImportObject(o) \/ DeleteObject(o)
  \/ \E q \in Equipment : DeleteEquipment(q)
  \/ \E l \in Locations, levels \in SUBSET Locations, class \in Classes : GenerateLevels(l, levels, class)
  \/ \E c \in Callers, l, above \in Locations : LookAbove(c, l, above)
  \/ \E r \in SiteRows : Pin(r)
  \/ \E l \in Locations : DeleteLocation(l) \/ DeleteSubtree(l)
  \/ \E kind \in Kinds, row \in SiteRows, class \in Classes :
       \/ CreateEntity(kind, row, class)
       \/ \E e \in graph.entities : UpdateEntity(e, kind, row, class)
  \/ \E d \in Devices, class \in Classes : MarkController(d, class)
  \/ \E e \in graph.entities : DeleteEntity(e)
  \/ \E c \in Callers, e, whole \in 1..graph.last : LookForParts(c, e, whole)
  \/ \E c \in Callers : StorePart(c)
  \/ \E x \in graph.edges : DeleteEdge(x)
  \/ SetUp

SiteSpec == SiteInit /\ [][SiteNext]_siteVars

---------------------------------------------------------------------------
\* "both systems agree, with no risk of silently diverging" (mirror.py): the
\* class of a location, an object or a piece of equipment is that of the entity
\* about it, whichever side was written, re-linked or deleted.  Devices are the
\* exception mirror.py states.  And parents lead to the top, unless two moves
\* raced.
ClassesAgree ==
  /\ \A r \in SiteRows \ Devices :
       LET about == {e \in graph.entities : e.row = r}
       IN IF flat[r] = NoClass THEN about = {}
          ELSE \E e \in about : about = {e} /\ e.class = flat[r]
  /\ ~raced => ~\E l \in Locations : OnCycle(l)
=============================================================================
