----------------------------- MODULE Schedules -----------------------------
(***************************************************************************)
(* Schedules and calendars of one device: the routes that edit them        *)
(* (api/routers/schedules.py, api/routers/calendars.py), their rows        *)
(* (db/database.py), the objects a reload builds from the rows             *)
(* (simulation/engine.py, bacnet/schedule.py, bacnet/calendar.py), and the *)
(* writes a schedule makes.                                                *)
(*                                                                         *)
(* A schedule names the calendars its exceptions refer to; the reload      *)
(* resolves the names.  bacpypes3 evaluates a schedule and decides when    *)
(* its value changes.  Times, values and their types are left out; dates   *)
(* stands for the contents of a calendar.                                  *)
(***************************************************************************)
EXTENDS Naturals

CONSTANTS
  ScheduleIds, CalendarIds, CalendarNames,
  Dates,
  Targets,         \* objects of the device
  Editors,         \* requests in flight
  NoRow, NoTask,
  MaxScheduleEdits \* bound on all edits

CalendarRow == [name: CalendarNames, dates: SUBSET Dates, on: BOOLEAN]
ScheduleRow == [targets: SUBSET Targets, names: SUBSET CalendarNames, on: BOOLEAN]
RebuildState == [step: {"points", "calendars", "schedules"},
                 byName: UNION {[names -> CalendarIds] : names \in SUBSET CalendarNames}]

ASSUME SchedulesAssumption ==
  /\ MaxScheduleEdits \in Nat
  /\ NoRow \notin CalendarIds /\ NoTask \notin ScheduleIds \cup CalendarIds \cup RebuildState

VARIABLES
  calendars, schedules, \* rows: bacnet_calendars; bacnet_schedules with bacnet_schedule_targets
  points,               \* of the targets: the rows there are, the enabled ones, those a write made manual
  liveCalendars,        \* _calendar_objects: dateList and presentValue
  liveSchedules,        \* _schedule_objects: references and exceptions
  livePoints,           \* _objects
  rebuild,              \* the reload under way; the calendars it has built, by name
  owed,                 \* reload tasks that wait
  asked,                \* by editor: what it was found allowed to store
  transitions,          \* write_object tasks
  today,                \* the date
  scheduleEdits

schedulesVars == <<calendars, schedules, points, liveCalendars, liveSchedules, livePoints,
                   rebuild, owed, asked, transitions, today, scheduleEdits>>

SchedulesInit ==
  /\ calendars = [c \in CalendarIds |-> NoRow]
  /\ schedules = [s \in ScheduleIds |-> NoRow]
  /\ points = [there |-> Targets, on |-> Targets, manual |-> {}]
  /\ liveCalendars = [c \in {} |-> NoRow]
  /\ liveSchedules = [s \in {} |-> NoRow]
  /\ livePoints = Targets
  /\ rebuild = NoTask
  /\ owed = 0
  /\ asked = [e \in Editors |-> NoTask]
  /\ transitions = {}
  /\ today \in Dates
  /\ scheduleEdits = 0

ScheduleEdit == scheduleEdits < MaxScheduleEdits /\ scheduleEdits' = scheduleEdits + 1
Stored(rows) == {r \in DOMAIN rows : rows[r] # NoRow}
live == <<liveCalendars, liveSchedules, livePoints, rebuild, transitions, today>>

\* schedule_engine_reload: a task each time; Engine.reload() holds a lock.
ReloadOwed == owed' = owed + 1

---------------------------------------------------------------------------
(* Routes.  A POST or a PUT checks in calls of its own. *)

\* create_calendar, update_calendar: a name is given once.
CheckCalendar(e, c, row) ==
  /\ asked[e] = NoTask /\ scheduleEdits < MaxScheduleEdits
  /\ \A x \in Stored(calendars) \ {c} : calendars[x].name # row.name
  /\ asked' = [asked EXCEPT ![e] = [kind |-> "calendar", id |-> c, row |-> row, new |-> calendars[c] = NoRow]]
  /\ UNCHANGED <<calendars, schedules, points, live, owed, scheduleEdits>>

\* validate_schedule: targets of this device, calendars by their names.
CheckSchedule(e, s, row) ==
  /\ asked[e] = NoTask /\ scheduleEdits < MaxScheduleEdits
  /\ row.targets \subseteq points.there
  /\ row.names \subseteq {calendars[c].name : c \in Stored(calendars)}
  /\ asked' = [asked EXCEPT ![e] = [kind |-> "schedule", id |-> s, row |-> row, new |-> schedules[s] = NoRow]]
  /\ UNCHANGED <<calendars, schedules, points, live, owed, scheduleEdits>>

\* A new row gets an id of its own; an update of a row that is gone does nothing.
Stores(e, rows) == asked[e].new = (rows[asked[e].id] = NoRow)

StoreCalendar(e) ==
  /\ asked[e] # NoTask /\ ScheduleEdit
  /\ asked[e].kind = "calendar"
  /\ asked' = [asked EXCEPT ![e] = NoTask]
  /\ IF Stores(e, calendars)
     THEN calendars' = [calendars EXCEPT ![asked[e].id] = asked[e].row] /\ ReloadOwed
     ELSE UNCHANGED <<calendars, owed>>
  /\ UNCHANGED <<schedules, points, live>>

\* A target that is gone by now breaks a foreign key.
StoreSchedule(e) ==
  /\ asked[e] # NoTask /\ ScheduleEdit
  /\ asked[e].kind = "schedule"
  /\ asked' = [asked EXCEPT ![e] = NoTask]
  /\ IF Stores(e, schedules) /\ asked[e].row.targets \subseteq points.there
     THEN schedules' = [schedules EXCEPT ![asked[e].id] = asked[e].row] /\ ReloadOwed
     ELSE UNCHANGED <<schedules, owed>>
  /\ UNCHANGED <<calendars, points, live>>

\* Mutant: no reload follows.
DeleteCalendarQuietly(c) ==
  /\ ScheduleEdit /\ calendars[c] # NoRow
  /\ calendars' = [calendars EXCEPT ![c] = NoRow]
  /\ UNCHANGED <<schedules, points, live, owed, asked>>

\* Schedules that name the calendar keep its name.
DeleteCalendar(c) ==
  /\ ScheduleEdit /\ calendars[c] # NoRow
  /\ calendars' = [calendars EXCEPT ![c] = NoRow] /\ ReloadOwed
  /\ UNCHANGED <<schedules, points, live, asked>>

DeleteSchedule(s) ==
  /\ ScheduleEdit /\ schedules[s] # NoRow
  /\ schedules' = [schedules EXCEPT ![s] = NoRow] /\ ReloadOwed
  /\ UNCHANGED <<calendars, points, live, asked>>

SwitchSchedule(s, on) ==
  /\ schedules[s] # NoRow /\ ScheduleEdit
  /\ schedules' = [schedules EXCEPT ![s].on = on] /\ ReloadOwed
  /\ UNCHANGED <<calendars, points, live, asked>>

EnableSchedule(s) == SwitchSchedule(s, TRUE)
DisableSchedule(s) == SwitchSchedule(s, FALSE)

\* A target row is switched, or deleted together with the references to it.
SwitchPoint(p) ==
  /\ ScheduleEdit /\ p \in points.there
  /\ points' = [points EXCEPT !.on = (@ \ {p}) \cup ({p} \ @)] /\ ReloadOwed
  /\ UNCHANGED <<calendars, schedules, live, asked>>

DeletePoint(p) ==
  /\ ScheduleEdit /\ p \in points.there
  /\ points' = [there |-> points.there \ {p}, on |-> points.on \ {p}, manual |-> points.manual \ {p}]
  /\ schedules' = [s \in ScheduleIds |-> IF schedules[s] = NoRow THEN NoRow
                                         ELSE [schedules[s] EXCEPT !.targets = @ \ {p}]]
  /\ ReloadOwed
  /\ UNCHANGED <<calendars, live, asked>>

---------------------------------------------------------------------------
(* The reload, one awaited read at a time *)

TakeDown ==
  /\ rebuild = NoTask /\ owed > 0
  /\ owed' = owed - 1
  /\ rebuild' = [step |-> "points", byName |-> [n \in {} |-> NoRow]]
  /\ livePoints' = {}
  /\ liveCalendars' = [c \in {} |-> NoRow] /\ liveSchedules' = [s \in {} |-> NoRow]
  /\ UNCHANGED <<calendars, schedules, points, asked, transitions, today, scheduleEdits>>

BuildPoints ==
  /\ rebuild # NoTask /\ rebuild.step = "points"
  /\ livePoints' = points.on
  /\ rebuild' = [rebuild EXCEPT !.step = "calendars"]
  /\ UNCHANGED <<calendars, schedules, points, liveCalendars, liveSchedules, owed, asked, transitions, today, scheduleEdits>>

\* The dates an object is given, and whether today is among them.
CalendarObject(row) == [dates |-> row.dates, value |-> today \in row.dates]

\* Of two with the same name, the later one in the result answers to it.
BuildCalendars ==
  LET built == {c \in Stored(calendars) : calendars[c].on}
      named == {calendars[c].name : c \in built}
  IN /\ rebuild # NoTask /\ rebuild.step = "calendars"
     /\ liveCalendars' = [c \in built |-> CalendarObject(calendars[c])]
     /\ rebuild' = [step |-> "schedules",
                    byName |-> [n \in named |-> CHOOSE c \in built : calendars[c].name = n]]
     /\ UNCHANGED <<calendars, schedules, points, liveSchedules, livePoints, owed, asked, transitions, today, scheduleEdits>>

\* References to objects there are; an exception whose calendar is not is left out.
ScheduleObject(row, there, byName) ==
  [refs |-> row.targets \cap there, exceptions |-> {byName[n] : n \in row.names \cap DOMAIN byName}]

BuildSchedules ==
  /\ rebuild # NoTask /\ rebuild.step = "schedules"
  /\ liveSchedules' = [s \in {s \in Stored(schedules) : schedules[s].on} |->
                         ScheduleObject(schedules[s], livePoints, rebuild.byName)]
  /\ rebuild' = NoTask
  /\ UNCHANGED <<calendars, schedules, points, liveCalendars, livePoints, owed, asked, transitions, today, scheduleEdits>>

---------------------------------------------------------------------------
(* While the device is up *)

\* present_value_changed: a task for each reference.
Transition(s) ==
  /\ s \in DOMAIN liveSchedules
  /\ transitions' = transitions \cup (liveSchedules[s].refs \cap livePoints)
  /\ UNCHANGED <<calendars, schedules, points, liveCalendars, liveSchedules, livePoints, rebuild, owed, asked, today, scheduleEdits>>

\* write_object makes the row manual, if the object is still live.
WriteTarget(p) ==
  /\ p \in transitions
  /\ transitions' = transitions \ {p}
  /\ points' = IF p \in livePoints THEN [points EXCEPT !.manual = @ \cup ({p} \cap points.there)] ELSE points
  /\ UNCHANGED <<calendars, schedules, liveCalendars, liveSchedules, livePoints, rebuild, owed, asked, today, scheduleEdits>>

\* tick() refreshes presentValue from the row, not from the dateList it built.
Refresh ==
  /\ liveCalendars' = [c \in DOMAIN liveCalendars |->
       IF calendars[c] = NoRow THEN liveCalendars[c]
       ELSE [liveCalendars[c] EXCEPT !.value = today \in calendars[c].dates]]
  /\ UNCHANGED <<calendars, schedules, points, liveSchedules, livePoints, rebuild, owed, asked, transitions, today, scheduleEdits>>

Midnight(d) ==
  /\ today' = d
  /\ UNCHANGED <<calendars, schedules, points, liveCalendars, liveSchedules, livePoints, rebuild, owed, asked, transitions, scheduleEdits>>

\* evaluate_schedule evaluates the live object, then looks for the exception in
\* the newest rows, by name and date.
Reported(s) ==
  IF s \notin DOMAIN liveSchedules THEN {}
  ELSE {c \in Stored(calendars) : calendars[c].name \in schedules[s].names /\ today \in calendars[c].dates}

SchedulesNext ==
  \/ \E e \in Editors :
       \/ \E c \in CalendarIds, row \in CalendarRow : CheckCalendar(e, c, row)
       \/ \E s \in ScheduleIds, row \in ScheduleRow : CheckSchedule(e, s, row)
       \/ StoreCalendar(e) \/ StoreSchedule(e)
  \/ \E c \in CalendarIds : DeleteCalendar(c)
  \/ \E s \in ScheduleIds :
       DeleteSchedule(s) \/ EnableSchedule(s) \/ DisableSchedule(s) \/ Transition(s)
  \/ \E p \in Targets : SwitchPoint(p) \/ DeletePoint(p) \/ WriteTarget(p)
  \/ TakeDown \/ BuildPoints \/ BuildCalendars \/ BuildSchedules \/ Refresh
  \/ \E d \in Dates : Midnight(d)

SchedulesSpec == SchedulesInit /\ [][SchedulesNext]_schedulesVars

---------------------------------------------------------------------------
\* Edits land between the reads of a rebuild and while one waits.  Once every
\* reload that was asked for is done, a schedule is live exactly when its row is
\* enabled, writes to the live objects among its targets, follows an enabled
\* calendar under each name it gives, with that calendar's dates; and a calendar
\* that evaluate_schedule reports is one it follows, unless it is disabled or
\* shares its name.
SchedulesAreCurrent ==
  rebuild = NoTask /\ owed = 0 =>
    /\ DOMAIN liveSchedules = {s \in Stored(schedules) : schedules[s].on}
    /\ \A s \in DOMAIN liveSchedules :
         LET row == schedules[s]
             followed == liveSchedules[s].exceptions
         IN /\ liveSchedules[s].refs = row.targets \cap points.on
            /\ followed \subseteq Stored(calendars)
            /\ {calendars[c].name : c \in followed}
                 = row.names \cap {calendars[c].name : c \in {c \in Stored(calendars) : calendars[c].on}}
            /\ \A c \in followed : liveCalendars[c].dates = calendars[c].dates
            /\ \A c \in Reported(s) \ followed :
                 ~calendars[c].on \/ \E x \in Stored(calendars) \ {c} : calendars[x].name = calendars[c].name
=============================================================================
