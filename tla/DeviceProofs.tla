---------------------------- MODULE DeviceProofs ----------------------------
(***************************************************************************)
(* What the devices serve, proved for any numbers of them and any bounds:  *)
(* the twins of devices of a real network (ExternalDevices), schedules and *)
(* calendars (Schedules), the value of a written point (PointValues), and  *)
(* where they are: locations, classes and the graph about them (Site).     *)
(***************************************************************************)
EXTENDS ExternalDevices, Schedules, PointValues, Site, FiniteInduction, TLAPS

---------------------------------------------------------------------------
(* Twins of external devices                                               *)

FieldOf == [FieldPoints -> Values \cup {OwnValue}]
AnswersOf == [FieldPoints -> Values \cup {NoAnswer}]
HostsOf == [Externals -> Hosts \cup {NoAnswer}]

InventoryType == inventory \in [Externals -> [host: Hosts \cup {NoAnswer}, points: SUBSET FieldPoints, seen: BOOLEAN]]

TwinsType ==
  /\ twins \in [Twins -> [mode: {"mirror", "simulation"}, enabled: BOOLEAN]]
  /\ twinShown \in [Twins -> {NoAnswer} \cup FieldOf]
  /\ twinsOwed \in BOOLEAN /\ undisturbed \in BOOLEAN
  /\ followed \in [Externals -> AnswersOf]

InquiryType ==
  /\ inquiry \in [pc: {"idle", "wait", "ask", "store"}, what: {NoAnswer, "devices", "points", "values"},
                  target: Externals \cup {NoAnswer}, host: Hosts \cup {NoAnswer},
                  points: SUBSET FieldPoints, found: {NoAnswer} \cup HostsOf]
  /\ (inquiry.pc # "idle" /\ inquiry.what \in {"points", "values"} => inquiry.target \in Externals)
  /\ (inquiry.pc = "store" /\ inquiry.what = "devices" => inquiry.found \in HostsOf)

SweepType ==
  /\ sweep \in [pc: {"idle", "next", "read", "touch", "inject"},
                hosts: {NoAnswer} \cup HostsOf,
                linked: SUBSET Twins, todo: SUBSET Externals, source: Externals \cup {NoAnswer},
                values: {NoAnswer} \cup AnswersOf, feed: SUBSET Twins]
  /\ (sweep.pc \in {"read", "touch", "inject"} => sweep.source \in Externals)
  /\ (sweep.pc \in {"touch", "inject"} => sweep.values \in AnswersOf)

ExternalsType == InventoryType /\ TwinsType /\ InquiryType /\ SweepType

Mirrors == {t \in Twins : twins[t].mode = "mirror" /\ twins[t].enabled}

(* A sweep that is not undisturbed follows nothing; one that is has the    *)
(* twins there are now, and injects into those it has still to feed.       *)
SweepKnows ==
  /\ (twinsOwed => followed = Unfollowed /\ ~undisturbed)
  /\ (sweep.pc # "idle" /\ ~undisturbed => followed = Unfollowed)
  /\ (sweep.pc # "idle" /\ undisturbed => sweep.linked = Mirrors)
  /\ (~twinsOwed => \A t \in ServedTwins : twins[t].enabled)
  /\ (sweep.pc = "inject" => sweep.feed \subseteq Linked(sweep.source))

(* A twin the sweep has fed is ahead of followed by what was just read. *)
Expected(t, p) ==
  IF /\ sweep.pc = "inject" /\ undisturbed
     /\ TwinSource[t] = sweep.source /\ t \notin sweep.feed
     /\ sweep.values[p] # NoAnswer
  THEN sweep.values[p] ELSE followed[TwinSource[t]][p]

TwinsExpected ==
  \A t \in ServedTwins : twins[t].mode = "mirror" =>
    \A p \in FieldPoints : Expected(t, p) # NoAnswer => twinShown[t][p] = Expected(t, p)

TwinsInv == ExternalsType /\ SweepKnows /\ TwinsExpected

(* Only the end of an inquiry and a sweep that has read write the rows. *)
LEMMA InventoryTyped ==
  ASSUME ExternalsType, [ExternalsNext]_externalVars
  PROVE  InventoryType'
<1> DEFINE Record == [host: Hosts \cup {NoAnswer}, points: SUBSET FieldPoints, seen: BOOLEAN]
<1>0. inventory \in [Externals -> Record] /\ \A i \in Externals : inventory[i] \in Record
  BY DEF ExternalsType, InventoryType
<1>1. CASE SyncDevices
  <2>1. inquiry.found \in HostsOf
    BY <1>1 DEF ExternalsType, InquiryType, SyncDevices, StoreFound
  <2>2. inventory' = [i \in Externals |->
          IF inquiry.found[i] = NoAnswer THEN inventory[i]
          ELSE [inventory[i] EXCEPT !.host = inquiry.found[i], !.seen = TRUE]]
    BY <1>1 DEF SyncDevices
  <2>3. ASSUME NEW i \in Externals
        PROVE  [inventory[i] EXCEPT !.host = inquiry.found[i], !.seen = TRUE] \in Record
    BY <1>0, <2>1 DEF HostsOf
  <2> HIDE DEF Record
  <2>4. inventory' \in [Externals -> Record]
    BY <1>0, <2>2, <2>3
  <2> QED BY <2>4 DEF InventoryType, Record
<1>2. CASE SyncPoints
  <2>1. inquiry.target \in Externals /\ inquiry.points \in SUBSET FieldPoints
    BY <1>2 DEF ExternalsType, InquiryType, SyncPoints, StoreFound
  <2> DEFINE touched == [inventory EXCEPT ![inquiry.target].points = @ \cup inquiry.points]
  <2>2. touched \in [Externals -> Record] /\ \A i \in Externals : touched[i] \in Record
    BY <1>0, <2>1
  <2>3. inventory' = [touched EXCEPT ![inquiry.target].seen = TRUE]
    BY <1>2 DEF SyncPoints
  <2> HIDE DEF touched
  <2>4. [touched[inquiry.target] EXCEPT !.seen = TRUE] \in Record
    BY <2>1, <2>2
  <2>5. inventory' = [touched EXCEPT ![inquiry.target] = [touched[inquiry.target] EXCEPT !.seen = TRUE]]
    BY <2>3
  <2> HIDE DEF Record
  <2>6. inventory' \in [Externals -> Record]
    BY <2>1, <2>2, <2>4, <2>5
  <2> QED BY <2>6 DEF InventoryType, Record
<1>3. ASSUME NEW i \in Externals, inventory' = [inventory EXCEPT ![i].seen = TRUE]
      PROVE  InventoryType'
  <2>1. [inventory[i] EXCEPT !.seen = TRUE] \in Record
    BY <1>0
  <2>2. inventory' = [inventory EXCEPT ![i] = [inventory[i] EXCEPT !.seen = TRUE]]
    BY <1>3
  <2> HIDE DEF Record
  <2>3. inventory' \in [Externals -> Record]
    BY <1>0, <2>1, <2>2
  <2> QED BY <2>3 DEF InventoryType, Record
<1>4. CASE TouchValues
  <2>1. inquiry.target \in Externals
    BY <1>4 DEF ExternalsType, InquiryType, TouchValues, StoreFound
  <2> QED BY <1>3, <1>4, <2>1 DEF TouchValues
<1>5. CASE SweepTouches
  <2>1. sweep.source \in Externals
    BY <1>5 DEF ExternalsType, SweepType, SweepTouches
  <2> QED BY <1>3, <1>5, <2>1 DEF SweepTouches
<1>6. CASE UNCHANGED inventory
  BY <1>6 DEF ExternalsType, InventoryType
<1> QED
  BY <1>1, <1>2, <1>4, <1>5, <1>6
  DEF ExternalsNext, externalVars, FieldEdit, Change, Move, Asks, AskDevices, AskPoints, AskValues,
      RefuseBroadcast, OpenSession, Closes, HearDevices, ReadPoints, ReadValues,
      SweepBegins, SweepPasses, SweepReads, SweepMisses, SweepSettles, SweepEnds, SweepInjects,
      EditTwin, ReloadTwins, PulseReads, PulseServes

(* An inquiry keeps what it asks for until its answer is stored. *)
LEMMA InquiryTyped ==
  ASSUME ExternalsType, [ExternalsNext]_externalVars
  PROVE  InquiryType'
<1> USE ExternalsAssumption
<1>0. InventoryType /\ InquiryType
  BY DEF ExternalsType
<1>1. ASSUME NEW what \in {"devices", "points", "values"}, NEW target \in Externals \cup {NoAnswer},
             NEW host \in Hosts \cup {NoAnswer}, NEW asks \in SUBSET FieldPoints,
             Asks(what, target, host, asks), what = "devices" \/ target \in Externals
      PROVE  InquiryType'
  BY <1>1 DEF InquiryType, Asks, NoInquiry
<1>2. ASSUME NEW h \in Hosts \cup {NoAnswer}, AskDevices(h)
      PROVE  InquiryType'
  BY <1>1, <1>2 DEF AskDevices
<1>3. ASSUME NEW i \in Externals, AskPoints(i) \/ AskValues(i)
      PROVE  InquiryType'
  <2>1. inventory[i].host \in Hosts \cup {NoAnswer} /\ inventory[i].points \in SUBSET FieldPoints
    BY <1>0 DEF InventoryType
  <2> QED BY <1>1, <1>3, <2>1 DEF AskPoints, AskValues
<1>4. CASE inquiry' = NoInquiry
  BY <1>4 DEF InquiryType, NoInquiry
<1>5. CASE OpenSession
  BY <1>0, <1>5 DEF OpenSession, InquiryType
<1>6. CASE HearDevices
  <2>1. PICK replies \in [Hosts -> SUBSET Externals] : \E found \in HeardFrom(replies) :
          inquiry' = [inquiry EXCEPT !.pc = "store", !.found = found]
    BY <1>6 DEF HearDevices
  <2>2. PICK found \in HostsOf : inquiry' = [inquiry EXCEPT !.pc = "store", !.found = found]
    BY <2>1 DEF HeardFrom, HostsOf
  <2> QED BY <1>0, <1>6, <2>2 DEF InquiryType, HearDevices, Closes
<1>7. CASE ReadPoints
  <2>1. CASE inquiry' = NoInquiry
    BY <1>4, <2>1
  <2>2. ASSUME NEW named \in SUBSET FieldPoints,
               inquiry' = [inquiry EXCEPT !.pc = "store", !.points = named]
        PROVE  InquiryType'
    BY <1>0, <1>7, <2>2 DEF InquiryType, ReadPoints, Closes
  <2> QED BY <1>7, <2>1, <2>2 DEF ReadPoints
<1>8. CASE ReadValues
  BY <1>0, <1>8 DEF ReadValues, Closes, InquiryType
<1>9. CASE UNCHANGED inquiry
  BY <1>0, <1>9 DEF InquiryType
<1> QED
  BY <1>2, <1>3, <1>4, <1>5, <1>6, <1>7, <1>8, <1>9
  DEF ExternalsNext, externalVars, FieldEdit, Change, Move, RefuseBroadcast, StoreFound, SyncDevices,
      SyncPoints, TouchValues, SweepStep, SweepBegins, SweepPasses, SweepReads, SweepMisses, SweepTouches,
      SweepSettles, SweepEnds, SweepInjects, EditTwin, ReloadTwins, PulseReads, PulseServes

(* A sweep has a source while it reads, and its answers until they are in. *)
LEMMA SweepTyped ==
  ASSUME ExternalsType, [ExternalsNext]_externalVars
  PROVE  SweepType'
<1> USE ExternalsAssumption
<1>0. InventoryType /\ SweepType
  BY DEF ExternalsType
<1>1. CASE SweepBegins
  <2>1. [i \in Externals |-> inventory[i].host] \in HostsOf
    BY <1>0 DEF InventoryType, HostsOf
  <2>2. \A t \in Twins : TwinSource[t] \in Externals
    OBVIOUS
  <2> QED BY <1>1, <2>1, <2>2 DEF SweepBegins, SweepType, NoSweep
<1>2. ASSUME NEW i \in Externals, SweepPasses(i)
      PROVE  SweepType'
  <2>1. CASE sweep.hosts[i] = NoAnswer
    <3>1. sweep' = [sweep EXCEPT !.todo = @ \ {i}]
      BY <1>2, <2>1 DEF SweepPasses
    <3> QED BY <1>0, <1>2, <3>1 DEF SweepType, SweepPasses
  <2>2. CASE sweep.hosts[i] # NoAnswer
    <3>1. sweep' = [sweep EXCEPT !.todo = @ \ {i}, !.pc = "read", !.source = i]
      BY <1>2, <2>2 DEF SweepPasses
    <3> QED BY <1>0, <3>1 DEF SweepType
  <2> QED BY <2>1, <2>2
<1>3. CASE SweepReads
  <2>1. PICK values \in AnswersOf : sweep' = [sweep EXCEPT !.pc = "touch", !.values = values]
    BY <1>3 DEF SweepReads, AnswersOf
  <2> QED BY <1>0, <1>3, <2>1 DEF SweepReads, SweepType
<1>3a. CASE SweepMisses
  BY <1>0, <1>3a DEF SweepMisses, SweepType
<1>4. CASE SweepTouches
  BY <1>0, <1>4 DEF SweepTouches, SweepType, Linked
<1>5. ASSUME NEW t \in Twins, SweepInjects(t)
      PROVE  SweepType'
  BY <1>0, <1>5 DEF SweepInjects, SweepType
<1>6. CASE SweepSettles
  BY <1>0, <1>6 DEF SweepSettles, SweepType
<1>7. CASE SweepEnds
  BY <1>7 DEF SweepEnds, SweepType, NoSweep
<1>8. CASE UNCHANGED sweep
  BY <1>0, <1>8 DEF SweepType
<1> QED
  BY <1>1, <1>2, <1>3, <1>3a, <1>4, <1>5, <1>6, <1>7, <1>8
  DEF ExternalsNext, externalVars, FieldEdit, Change, Move, Asks, AskDevices, AskPoints, AskValues,
      RefuseBroadcast, OpenSession, Closes, HearDevices, ReadPoints, ReadValues, StoreFound,
      SyncDevices, SyncPoints, TouchValues, EditTwin, ReloadTwins, PulseReads, PulseServes

(* A served twin has a value at every point. *)
LEMMA TwinsTyped ==
  ASSUME ExternalsType, [ExternalsNext]_externalVars
  PROVE  TwinsType'
<1> USE ExternalsAssumption
<1>0. TwinsType /\ SweepType
  BY DEF ExternalsType
<1>1. Unfollowed \in [Externals -> AnswersOf]
  BY DEF Unfollowed, AnswersOf
<1>2. [p \in FieldPoints |-> OwnValue] \in FieldOf
  BY DEF FieldOf
<1>3. ASSUME NEW t \in Twins, SweepInjects(t)
      PROVE  TwinsType'
  <2>1. CASE t \in ServedTwins
    <3>1. twinShown[t] \in FieldOf
      BY <1>0, <2>1 DEF TwinsType, ServedTwins
    <3>2. sweep.values \in AnswersOf
      BY <1>0, <1>3 DEF SweepType, SweepInjects
    <3>3. WithAnswers(twinShown[t], sweep.values) \in FieldOf
      BY <3>1, <3>2 DEF WithAnswers, FieldOf, AnswersOf
    <3>4. twinShown' = [twinShown EXCEPT ![t] = WithAnswers(twinShown[t], sweep.values)]
      BY <1>3, <2>1 DEF SweepInjects
    <3> QED BY <1>0, <1>3, <3>3, <3>4 DEF SweepInjects, SweepStep, TwinsType
  <2> QED BY <1>0, <1>3, <2>1 DEF SweepInjects, SweepStep, TwinsType
<1>4. CASE SweepSettles
  <2>1. sweep.source \in Externals /\ sweep.values \in AnswersOf
    BY <1>0, <1>4 DEF SweepSettles, SweepType
  <2> DEFINE answers == [p \in FieldPoints |->
                 IF sweep.values[p] = NoAnswer THEN followed[sweep.source][p] ELSE sweep.values[p]]
  <2>2. followed \in [Externals -> AnswersOf]
    BY <1>0 DEF TwinsType
  <2>3. answers \in AnswersOf
    BY <2>1, <2>2 DEF AnswersOf
  <2>4. followed' = [followed EXCEPT ![sweep.source] = answers] \/ followed' = followed
    BY <1>4 DEF SweepSettles
  <2> HIDE DEF answers
  <2>5. followed' \in [Externals -> AnswersOf]
    BY <2>1, <2>2, <2>3, <2>4
  <2> QED BY <1>0, <1>4, <2>5 DEF SweepSettles, SweepStep, TwinsType
<1>5. ASSUME NEW t \in Twins, NEW mode \in {"mirror", "simulation"}, NEW enabled \in BOOLEAN,
             EditTwin(t, mode, enabled)
      PROVE  TwinsType'
  BY <1>0, <1>1, <1>5 DEF EditTwin, FieldEdit, Forget, TwinsType
<1>6. CASE ReloadTwins
  <2>1. twinShown' \in [Twins -> {NoAnswer} \cup FieldOf]
    BY <1>2, <1>6 DEF ReloadTwins
  <2> QED BY <1>0, <1>1, <1>6, <2>1 DEF ReloadTwins, Forget, TwinsType
<1>7. CASE PulseServes
  <2>1. twinShown' \in [Twins -> {NoAnswer} \cup FieldOf]
    <3>1. \A t \in Twins : twinShown[t] \in {NoAnswer} \cup FieldOf
      BY <1>0 DEF TwinsType
    <3> QED BY <1>2, <1>7, <3>1 DEF PulseServes
  <2> QED BY <1>0, <1>1, <1>7, <2>1 DEF PulseServes, Forget, Remember, TwinsType
<1>8. CASE SweepBegins
  BY <1>0, <1>8 DEF SweepBegins, SweepStep, TwinsType
<1>9. CASE SyncDevices
  BY <1>0, <1>1, <1>9 DEF SyncDevices, StoreFound, Forget, Remember, TwinsType
<1>10. CASE UNCHANGED <<twins, twinShown, twinsOwed, undisturbed, followed>>
  BY <1>0, <1>10 DEF TwinsType
<1> QED
  BY <1>3, <1>4, <1>5, <1>6, <1>7, <1>8, <1>9, <1>10
  DEF ExternalsNext, externalVars, FieldEdit, Change, Move, Asks, AskDevices, AskPoints, AskValues,
      RefuseBroadcast, OpenSession, Closes, HearDevices, ReadPoints, ReadValues, StoreFound, Remember,
      SyncPoints, TouchValues, SweepStep, SweepPasses, SweepReads, SweepMisses, SweepTouches, SweepEnds, PulseReads

(* Whether a sweep was disturbed, whom it feeds, and who is served. *)
LEMMA SweepKnowsStep ==
  ASSUME TwinsInv, [ExternalsNext]_externalVars
  PROVE  SweepKnows'
<1> USE ExternalsAssumption
<1>0. TwinsType /\ SweepType /\ SweepKnows
  BY DEF TwinsInv, ExternalsType
<1>1. ASSUME UNCHANGED <<twins, twinShown, twinsOwed, undisturbed, followed>>,
             sweep'.pc # "idle" => sweep.pc # "idle" /\ sweep'.linked = sweep.linked,
             sweep'.pc = "inject" => sweep'.feed \subseteq Linked(sweep'.source)
      PROVE  SweepKnows'
  BY <1>0, <1>1 DEF SweepKnows, Mirrors, ServedTwins, Linked
<1>2. CASE SweepBegins
  <2>1. sweep'.pc = "next" /\ sweep'.linked = Mirrors
    BY <1>2 DEF SweepBegins, NoSweep, Mirrors
  <2> QED BY <1>0, <1>2, <2>1 DEF SweepBegins, SweepStep, SweepKnows, Mirrors, ServedTwins, Unfollowed
<1>3. ASSUME NEW i \in Externals, SweepPasses(i)
      PROVE  SweepKnows'
  <2>1. sweep.pc = "next" /\ sweep'.linked = sweep.linked /\ sweep'.pc \in {"next", "read"}
    BY <1>0, <1>3 DEF SweepPasses, SweepType
  <2> QED BY <1>1, <1>3, <2>1 DEF SweepPasses, SweepStep
<1>4. CASE SweepReads \/ SweepMisses
  <2>1. sweep.pc = "read" /\ sweep'.linked = sweep.linked /\ sweep'.pc \in {"touch", "next"}
    BY <1>0, <1>4 DEF SweepReads, SweepMisses, SweepType
  <2> QED BY <1>1, <1>4, <2>1 DEF SweepReads, SweepMisses, SweepStep
<1>5. CASE SweepTouches
  <2>1. /\ sweep.pc = "touch" /\ sweep'.linked = sweep.linked /\ sweep'.pc = "inject"
        /\ sweep'.feed = Linked(sweep.source) /\ sweep'.source = sweep.source
    BY <1>0, <1>5 DEF SweepTouches, SweepType
  <2> QED BY <1>1, <1>5, <2>1 DEF SweepTouches, SweepStep, Linked
<1>6. ASSUME NEW t \in Twins, SweepInjects(t)
      PROVE  SweepKnows'
  <2>1. /\ sweep.pc = "inject" /\ sweep'.linked = sweep.linked /\ sweep'.pc = "inject"
        /\ sweep'.feed = sweep.feed \ {t} /\ sweep'.source = sweep.source
    BY <1>0, <1>6 DEF SweepInjects, SweepType
  <2>2. ServedTwins' \subseteq ServedTwins
    BY <1>0, <1>6 DEF SweepInjects, ServedTwins, TwinsType
  <2> QED BY <1>0, <1>6, <2>1, <2>2 DEF SweepInjects, SweepStep, SweepKnows, Mirrors, Linked, Unfollowed
<1>7. CASE SweepSettles
  <2>1. sweep.pc = "inject" /\ sweep'.linked = sweep.linked /\ sweep'.pc = "next"
    BY <1>0, <1>7 DEF SweepSettles, SweepType
  <2>2. ~undisturbed => followed' = followed
    BY <1>7 DEF SweepSettles
  <2> QED BY <1>0, <1>7, <2>1, <2>2 DEF SweepSettles, SweepStep, SweepKnows, Mirrors, ServedTwins, Unfollowed
<1>8. CASE SweepEnds
  <2>1. sweep'.pc = "idle"
    BY <1>8 DEF SweepEnds, NoSweep
  <2> QED BY <1>1, <1>8, <2>1 DEF SweepEnds, SweepStep
<1>9. ASSUME NEW t \in Twins, NEW mode \in {"mirror", "simulation"}, NEW enabled \in BOOLEAN,
             EditTwin(t, mode, enabled)
      PROVE  SweepKnows'
  BY <1>0, <1>9 DEF EditTwin, FieldEdit, Forget, SweepKnows, Unfollowed, Linked
<1>10. CASE ReloadTwins
  BY <1>0, <1>10 DEF ReloadTwins, Forget, SweepKnows, Unfollowed, ServedTwins, Linked
<1>11. CASE PulseServes
  <2>1. ServedTwins' \subseteq ServedTwins
    BY <1>11 DEF PulseServes, ServedTwins
  <2>2. UNCHANGED <<twins, twinsOwed, sweep>> /\ (Forget \/ Remember)
    BY <1>11 DEF PulseServes
  <2> QED BY <1>0, <2>1, <2>2 DEF Forget, Remember, SweepKnows, Unfollowed, Mirrors, Linked
<1>12. CASE SyncDevices
  BY <1>0, <1>12 DEF SyncDevices, StoreFound, Forget, Remember, SweepKnows, Unfollowed, Mirrors, ServedTwins, Linked
<1>13. CASE UNCHANGED <<twins, twinShown, twinsOwed, undisturbed, followed, sweep>>
  BY <1>0, <1>1, <1>13 DEF SweepKnows
<1> QED
  BY <1>2, <1>3, <1>4, <1>5, <1>6, <1>7, <1>8, <1>9, <1>10, <1>11, <1>12, <1>13
  DEF ExternalsNext, externalVars, FieldEdit, Change, Move, Asks, AskDevices, AskPoints, AskValues,
      RefuseBroadcast, OpenSession, Closes, HearDevices, ReadPoints, ReadValues, StoreFound, Remember,
      SyncPoints, TouchValues, PulseReads

(* Where nothing is followed nothing is expected. *)
LEMMA NothingExpected ==
  ASSUME Forget
  PROVE  TwinsExpected'
<1>1. \A i \in Externals, p \in FieldPoints : followed'[i][p] = NoAnswer
  BY DEF Forget, Unfollowed
<1>2. ~undisturbed'
  BY DEF Forget
<1>3. \A t \in Twins, p \in FieldPoints : Expected(t, p)' = NoAnswer
  BY <1>1, <1>2, ExternalsAssumption DEF Expected
<1> QED BY <1>3 DEF TwinsExpected, ServedTwins

(* Each twin shows what it is expected to, fed or not. *)
LEMMA TwinsExpectedStep ==
  ASSUME TwinsInv, [ExternalsNext]_externalVars
  PROVE  TwinsExpected'
<1> USE ExternalsAssumption
<1>0. TwinsType /\ SweepType /\ SweepKnows /\ TwinsExpected
  BY DEF TwinsInv, ExternalsType
<1>a. \A t \in Twins : TwinSource[t] \in Externals
  OBVIOUS
<1>b. ~undisturbed /\ sweep.pc # "idle" =>
        \A i \in Externals, p \in FieldPoints : followed[i][p] = NoAnswer
  BY <1>0 DEF SweepKnows, Unfollowed
<1>1. ASSUME UNCHANGED <<twins, twinShown, followed>>,
             \A t \in Twins, p \in FieldPoints : t \in ServedTwins /\ twins[t].mode = "mirror" =>
               Expected(t, p)' = Expected(t, p) \/ Expected(t, p)' = NoAnswer
      PROVE  TwinsExpected'
  BY <1>0, <1>1 DEF TwinsExpected, ServedTwins
<1>2. CASE UNCHANGED <<twins, twinShown, followed>> /\ sweep.pc # "inject" /\ sweep'.pc # "inject"
  BY <1>1, <1>2 DEF Expected
<1>3. CASE SweepBegins
  <2>1. sweep.pc # "inject" /\ sweep'.pc # "inject"
    BY <1>3 DEF SweepBegins, NoSweep
  <2> QED BY <1>2, <1>3, <2>1 DEF SweepBegins, SweepStep
<1>4. ASSUME NEW i \in Externals, SweepPasses(i)
      PROVE  TwinsExpected'
  <2>1. sweep.pc # "inject" /\ sweep'.pc # "inject"
    BY <1>0, <1>4 DEF SweepPasses, SweepType
  <2> QED BY <1>2, <1>4, <2>1 DEF SweepPasses, SweepStep
<1>5. CASE SweepReads \/ SweepMisses
  <2>1. sweep.pc # "inject" /\ sweep'.pc # "inject"
    BY <1>0, <1>5 DEF SweepReads, SweepMisses, SweepType
  <2> QED BY <1>2, <1>5, <2>1 DEF SweepReads, SweepMisses, SweepStep
<1>6. CASE SweepEnds
  <2>1. sweep.pc # "inject" /\ sweep'.pc # "inject"
    BY <1>6 DEF SweepEnds, NoSweep
  <2> QED BY <1>2, <1>6, <2>1 DEF SweepEnds, SweepStep
<1>7. CASE SweepTouches
  <2>1. /\ sweep.pc = "touch" /\ sweep'.pc = "inject" /\ sweep'.feed = Linked(sweep.source)
        /\ sweep'.source = sweep.source /\ UNCHANGED <<twins, twinShown, followed, undisturbed>>
    BY <1>0, <1>7 DEF SweepTouches, SweepType, SweepStep
  <2>2. ASSUME NEW t \in ServedTwins, twins[t].mode = "mirror", undisturbed, TwinSource[t] = sweep.source
        PROVE  t \in sweep'.feed
    BY <1>0, <2>1, <2>2 DEF SweepKnows, Mirrors, Linked, ServedTwins
  <2> QED BY <1>1, <2>1, <2>2 DEF Expected
<1>8. ASSUME NEW t \in Twins, SweepInjects(t)
      PROVE  TwinsExpected'
  <2>1. /\ sweep.pc = "inject" /\ sweep'.pc = "inject" /\ sweep'.feed = sweep.feed \ {t}
        /\ sweep'.source = sweep.source /\ sweep'.values = sweep.values /\ t \in sweep.feed
        /\ UNCHANGED <<twins, followed, undisturbed>>
    BY <1>0, <1>8 DEF SweepInjects, SweepType, SweepStep
  <2>2. \A x \in Twins \ {t} : twinShown'[x] = twinShown[x]
    BY <1>0, <1>8 DEF SweepInjects, TwinsType
  <2>3. t \in ServedTwins => \A p \in FieldPoints :
          twinShown'[t][p] = IF sweep.values[p] = NoAnswer THEN twinShown[t][p] ELSE sweep.values[p]
    BY <1>0, <1>8 DEF SweepInjects, TwinsType, WithAnswers
  <2>4. t \notin ServedTwins => twinShown' = twinShown
    BY <1>8 DEF SweepInjects
  <2>5. ASSUME NEW x \in ServedTwins', twins[x].mode = "mirror", NEW p \in FieldPoints, Expected(x, p)' # NoAnswer
        PROVE  twinShown'[x][p] = Expected(x, p)'
    <3>1. x \in ServedTwins
      BY <2>2, <2>3, <2>4 DEF ServedTwins
    <3>2. CASE x # t
      BY <1>0, <2>1, <2>2, <2>5, <3>1, <3>2 DEF Expected, TwinsExpected, ServedTwins
    <3>3. CASE x = t
      <4>1. undisturbed
        BY <1>a, <1>b, <2>1, <2>5 DEF Expected, ServedTwins
      <4>2. TwinSource[t] = sweep.source
        BY <1>0, <2>1 DEF SweepKnows, Linked
      <4>3. Expected(t, p) = followed[TwinSource[t]][p]
        BY <2>1 DEF Expected
      <4>4. Expected(t, p)' = IF sweep.values[p] = NoAnswer THEN followed[TwinSource[t]][p] ELSE sweep.values[p]
        BY <2>1, <4>1, <4>2 DEF Expected
      <4> QED BY <1>0, <2>3, <2>5, <3>1, <3>3, <4>3, <4>4 DEF TwinsExpected
    <3> QED BY <3>2, <3>3
  <2> QED BY <2>1, <2>5 DEF TwinsExpected
<1>9. CASE SweepSettles
  <2>1. /\ sweep.pc = "inject" /\ sweep'.pc = "next" /\ sweep.feed = {} /\ UNCHANGED <<twins, twinShown, undisturbed>>
    BY <1>0, <1>9 DEF SweepSettles, SweepType, SweepStep
  <2>2. CASE undisturbed
    <3> DEFINE answers == [p \in FieldPoints |->
                   IF sweep.values[p] = NoAnswer THEN followed[sweep.source][p] ELSE sweep.values[p]]
    <3>1. followed' = [followed EXCEPT ![sweep.source] = answers]
      BY <1>9, <2>2 DEF SweepSettles
    <3>2. followed \in [Externals -> AnswersOf]
      BY <1>0 DEF TwinsType
    <3>3. ASSUME NEW t \in Twins, NEW p \in FieldPoints
          PROVE  Expected(t, p)' = Expected(t, p)
      <4>1. Expected(t, p)' = followed'[TwinSource[t]][p]
        BY <2>1 DEF Expected
      <4>2. answers[p] = IF sweep.values[p] = NoAnswer THEN followed[sweep.source][p] ELSE sweep.values[p]
        OBVIOUS
      <4> HIDE DEF answers
      <4>3. followed'[TwinSource[t]] = IF TwinSource[t] = sweep.source THEN answers ELSE followed[TwinSource[t]]
        BY <1>a, <3>1, <3>2
      <4> QED BY <2>1, <2>2, <4>1, <4>2, <4>3 DEF Expected
    <3> QED BY <1>0, <2>1, <3>3 DEF TwinsExpected, ServedTwins
  <2>3. CASE ~undisturbed
    BY <1>1, <1>9, <2>1, <2>3 DEF SweepSettles, Expected
  <2> QED BY <2>2, <2>3
<1>10. ASSUME NEW t \in Twins, NEW mode \in {"mirror", "simulation"}, NEW enabled \in BOOLEAN,
              EditTwin(t, mode, enabled)
       PROVE  TwinsExpected'
  BY <1>10, NothingExpected DEF EditTwin
<1>11. CASE ReloadTwins
  BY <1>11, NothingExpected DEF ReloadTwins
<1>12. CASE PulseServes
  <2>1. CASE \A t \in Twins : pulse[t] = twins[t].mode
    <3>1. UNCHANGED <<twins, followed, undisturbed, sweep>>
      BY <1>12, <2>1 DEF PulseServes, Remember
    <3>2. \A t \in ServedTwins' : t \in ServedTwins
      BY <1>12 DEF PulseServes, ServedTwins
    <3>3. \A t \in Twins : twins[t].mode = "mirror" => twinShown'[t] = twinShown[t]
      BY <1>12, <2>1 DEF PulseServes
    <3>4. \A t \in Twins, p \in FieldPoints : Expected(t, p)' = Expected(t, p)
      BY <3>1 DEF Expected
    <3> QED BY <1>0, <3>1, <3>2, <3>3, <3>4 DEF TwinsExpected, ServedTwins
  <2>2. CASE ~\A t \in Twins : pulse[t] = twins[t].mode
    BY <1>12, <2>2, NothingExpected DEF PulseServes
  <2> QED BY <2>1, <2>2
<1>13. CASE UNCHANGED <<twins, twinShown, followed, undisturbed, sweep>>
  BY <1>1, <1>13 DEF Expected
<1>14. CASE SyncDevices
  <2>1. CASE Forget
    BY <2>1, NothingExpected
  <2> QED BY <1>13, <1>14, <2>1 DEF SyncDevices, StoreFound, Remember
<1> QED
  BY <1>3, <1>4, <1>5, <1>6, <1>7, <1>8, <1>9, <1>10, <1>11, <1>12, <1>13, <1>14
  DEF ExternalsNext, externalVars, FieldEdit, Change, Move, Asks, AskDevices, AskPoints, AskValues,
      RefuseBroadcast, OpenSession, Closes, HearDevices, ReadPoints, ReadValues, StoreFound, Remember,
      SyncPoints, TouchValues, PulseReads

(* TwinsFollow: between sweeps every twin of a device shows what its host  *)
(* last answered, for any network, twins and interleaving of inquiries,    *)
(* sweeps, ticks and edits.                                                *)
THEOREM TwinsShowAnswers == ExternalsSpec => []TwinsFollow
<1>1. ExternalsInit => TwinsInv
  <2> SUFFICES ASSUME ExternalsInit PROVE TwinsInv
    OBVIOUS
  <2> USE ExternalsAssumption
  <2>1. Unfollowed \in [Externals -> AnswersOf]
    BY DEF Unfollowed, AnswersOf
  <2>2. [p \in FieldPoints |-> OwnValue] \in FieldOf
    BY DEF FieldOf
  <2>3. InventoryType
    <3>1. PICK at \in [Externals -> Hosts], known \in SUBSET Externals :
            inventory = [i \in Externals |->
              IF i \in known THEN [host |-> at[i], points |-> FieldPoints, seen |-> TRUE] ELSE NoRecord]
      BY DEF ExternalsInit
    <3> QED BY <3>1 DEF InventoryType, NoRecord
  <2>4. TwinsType
    BY <2>1, <2>2 DEF ExternalsInit, TwinsType
  <2>5. InquiryType
    BY DEF ExternalsInit, InquiryType, NoInquiry
  <2>6. SweepType
    BY DEF ExternalsInit, SweepType, NoSweep
  <2>7. SweepKnows
    BY DEF ExternalsInit, SweepKnows, NoSweep, ServedTwins
  <2>8. TwinsExpected
    <3>1. \A t \in Twins, p \in FieldPoints : Expected(t, p) = NoAnswer
      BY DEF ExternalsInit, Expected, NoSweep, Unfollowed
    <3> QED BY <3>1 DEF TwinsExpected, ServedTwins
  <2> QED BY <2>3, <2>4, <2>5, <2>6, <2>7, <2>8 DEF TwinsInv, ExternalsType
<1>2. TwinsInv /\ [ExternalsNext]_externalVars => TwinsInv'
  BY InventoryTyped, InquiryTyped, SweepTyped, TwinsTyped, SweepKnowsStep, TwinsExpectedStep
  DEF TwinsInv, ExternalsType
<1>3. TwinsInv => TwinsFollow
  BY DEF TwinsInv, TwinsExpected, Expected, TwinsFollow
<1> QED BY <1>1, <1>2, <1>3, PTL DEF ExternalsSpec

---------------------------------------------------------------------------
(* Schedules and calendars                                                 *)

RowsType ==
  /\ calendars \in [CalendarIds -> CalendarRow \cup {NoRow}]
  /\ schedules \in [ScheduleIds -> ScheduleRow \cup {NoRow}]
  /\ points \in [there: SUBSET Targets, on: SUBSET Targets, manual: SUBSET Targets]
  /\ owed \in Nat

(* A row that is stored has the fields of a row. *)
AskedType ==
  \A e \in Editors : asked[e] = NoTask \/
    \/ (asked[e].kind = "calendar" /\ asked[e].id \in CalendarIds /\ asked[e].row \in CalendarRow)
    \/ (asked[e].kind = "schedule" /\ asked[e].id \in ScheduleIds /\ asked[e].row \in ScheduleRow)

LiveType ==
  /\ rebuild \in {NoTask} \cup RebuildState
  /\ \A c \in DOMAIN liveCalendars : liveCalendars[c] \in [dates: SUBSET Dates, value: BOOLEAN]

EnabledCalendars == {c \in Stored(calendars) : calendars[c].on}
NamesOf(ids) == {calendars[c].name : c \in ids}
RebuildIn(steps) == rebuild = NoTask \/ rebuild.step \in steps

PointsCurrent == RebuildIn({"calendars", "schedules"}) => livePoints = points.on

CalendarsCurrent ==
  RebuildIn({"schedules"}) =>
    /\ DOMAIN liveCalendars = EnabledCalendars
    /\ \A c \in EnabledCalendars : liveCalendars[c].dates = calendars[c].dates

NamesCurrent ==
  rebuild # NoTask /\ rebuild.step = "schedules" =>
    /\ DOMAIN rebuild.byName = NamesOf(EnabledCalendars)
    /\ \A n \in NamesOf(EnabledCalendars) :
         rebuild.byName[n] \in EnabledCalendars /\ calendars[rebuild.byName[n]].name = n

SchedulesCurrent ==
  rebuild = NoTask =>
    /\ DOMAIN liveSchedules = {s \in Stored(schedules) : schedules[s].on}
    /\ \A s \in DOMAIN liveSchedules :
         /\ liveSchedules[s].refs = schedules[s].targets \cap points.on
         /\ liveSchedules[s].exceptions \subseteq EnabledCalendars
         /\ NamesOf(liveSchedules[s].exceptions) = schedules[s].names \cap NamesOf(EnabledCalendars)

(* While no reload waits, what the rebuild under way has read is current. *)
ReadIsCurrent == owed = 0 => PointsCurrent /\ CalendarsCurrent /\ NamesCurrent /\ SchedulesCurrent

SchedulesInv == RowsType /\ AskedType /\ LiveType /\ ReadIsCurrent

(* An edit that asks for a reload leaves nothing to be current with. *)
LEMMA EditOwes ==
  ASSUME SchedulesInv, RowsType', AskedType', UNCHANGED <<rebuild, liveCalendars>>, ReloadOwed
  PROVE  SchedulesInv'
<1>1. owed' # 0
  BY DEF SchedulesInv, RowsType, ReloadOwed
<1> QED BY <1>1 DEF SchedulesInv, LiveType, ReadIsCurrent

(* Rows, points and objects the same, nothing changes. *)
LEMMA NothingRead ==
  ASSUME SchedulesInv, AskedType',
         UNCHANGED <<calendars, schedules, points, owed, rebuild, liveCalendars, liveSchedules, livePoints>>
  PROVE  SchedulesInv'
BY DEF SchedulesInv, RowsType, LiveType, ReadIsCurrent, PointsCurrent, CalendarsCurrent, NamesCurrent,
       SchedulesCurrent, RebuildIn, EnabledCalendars, NamesOf, Stored

(* Routes that check and store. *)
LEMMA EditorsKeepCurrent ==
  ASSUME SchedulesInv, NEW e \in Editors,
         \/ \E c \in CalendarIds, row \in CalendarRow : CheckCalendar(e, c, row)
         \/ \E s \in ScheduleIds, row \in ScheduleRow : CheckSchedule(e, s, row)
         \/ StoreCalendar(e) \/ StoreSchedule(e)
  PROVE  SchedulesInv'
<1>0. RowsType /\ AskedType
  BY DEF SchedulesInv
<1>1. ASSUME NEW x, asked' = [asked EXCEPT ![e] = x],
             \/ x = NoTask
             \/ (x.kind = "calendar" /\ x.id \in CalendarIds /\ x.row \in CalendarRow)
             \/ (x.kind = "schedule" /\ x.id \in ScheduleIds /\ x.row \in ScheduleRow)
      PROVE  AskedType'
  <2>1. \A f \in Editors : asked'[f] = asked[f] \/ asked'[f] = x
    BY <1>1
  <2> QED BY <1>0, <1>1, <2>1 DEF AskedType
<1>2. ASSUME NEW c \in CalendarIds, NEW row \in CalendarRow, CheckCalendar(e, c, row)
      PROVE  SchedulesInv'
  <2> DEFINE x == [kind |-> "calendar", id |-> c, row |-> row, new |-> calendars[c] = NoRow]
  <2>1. x.kind = "calendar" /\ x.id = c /\ x.row = row /\ asked' = [asked EXCEPT ![e] = x]
    BY <1>2 DEF CheckCalendar
  <2> HIDE DEF x
  <2>2. AskedType'
    BY <1>1, <2>1
  <2> QED BY <1>2, <2>2, NothingRead DEF CheckCalendar, live
<1>3. ASSUME NEW s \in ScheduleIds, NEW row \in ScheduleRow, CheckSchedule(e, s, row)
      PROVE  SchedulesInv'
  <2> DEFINE x == [kind |-> "schedule", id |-> s, row |-> row, new |-> schedules[s] = NoRow]
  <2>1. x.kind = "schedule" /\ x.id = s /\ x.row = row /\ asked' = [asked EXCEPT ![e] = x]
    BY <1>3 DEF CheckSchedule
  <2> HIDE DEF x
  <2>2. AskedType'
    BY <1>1, <2>1
  <2> QED BY <1>3, <2>2, NothingRead DEF CheckSchedule, live
<1>4. CASE StoreCalendar(e)
  <2>1. AskedType'
    BY <1>1, <1>4 DEF StoreCalendar
  <2>2. CASE Stores(e, calendars)
    <3>1. asked[e].id \in CalendarIds /\ asked[e].row \in CalendarRow
      BY <1>0, <1>4 DEF AskedType, StoreCalendar
    <3>2. calendars' = [calendars EXCEPT ![asked[e].id] = asked[e].row] /\ ReloadOwed
      BY <1>4, <2>2 DEF StoreCalendar
    <3>3. RowsType'
      BY <1>0, <1>4, <3>1, <3>2 DEF RowsType, StoreCalendar, ReloadOwed
    <3> QED BY <1>4, <2>1, <3>2, <3>3, EditOwes DEF StoreCalendar, live
  <2>3. CASE ~Stores(e, calendars)
    BY <1>4, <2>1, <2>3, NothingRead DEF StoreCalendar, live
  <2> QED BY <2>2, <2>3
<1>5. CASE StoreSchedule(e)
  <2>1. AskedType'
    BY <1>1, <1>5 DEF StoreSchedule
  <2>2. CASE Stores(e, schedules) /\ asked[e].row.targets \subseteq points.there
    <3>1. asked[e].id \in ScheduleIds /\ asked[e].row \in ScheduleRow
      BY <1>0, <1>5 DEF AskedType, StoreSchedule
    <3>2. schedules' = [schedules EXCEPT ![asked[e].id] = asked[e].row] /\ ReloadOwed
      BY <1>5, <2>2 DEF StoreSchedule
    <3>3. RowsType'
      BY <1>0, <1>5, <3>1, <3>2 DEF RowsType, StoreSchedule, ReloadOwed
    <3> QED BY <1>5, <2>1, <3>2, <3>3, EditOwes DEF StoreSchedule, live
  <2>3. CASE ~(Stores(e, schedules) /\ asked[e].row.targets \subseteq points.there)
    BY <1>5, <2>1, <2>3, NothingRead DEF StoreSchedule, live
  <2> QED BY <2>2, <2>3
<1> QED BY <1>2, <1>3, <1>4, <1>5

(* Routes that delete and switch rows. *)
LEMMA DeletionsKeepCurrent ==
  ASSUME SchedulesInv,
         \/ \E c \in CalendarIds : DeleteCalendar(c)
         \/ \E s \in ScheduleIds : DeleteSchedule(s) \/ EnableSchedule(s) \/ DisableSchedule(s)
         \/ \E p \in Targets : SwitchPoint(p) \/ DeletePoint(p)
  PROVE  SchedulesInv'
<1>0. RowsType /\ AskedType
  BY DEF SchedulesInv
<1>1. ReloadOwed /\ UNCHANGED <<live, asked>>
  BY DEF DeleteCalendar, DeleteSchedule, EnableSchedule, DisableSchedule, SwitchSchedule, SwitchPoint, DeletePoint
<1>2. AskedType' /\ owed' \in Nat /\ UNCHANGED <<rebuild, liveCalendars>>
  BY <1>0, <1>1 DEF AskedType, RowsType, ReloadOwed, live
<1>3. ASSUME NEW c \in CalendarIds, DeleteCalendar(c)
      PROVE  RowsType'
  BY <1>0, <1>2, <1>3 DEF DeleteCalendar, RowsType
<1>4. ASSUME NEW s \in ScheduleIds, DeleteSchedule(s)
      PROVE  RowsType'
  BY <1>0, <1>2, <1>4 DEF DeleteSchedule, RowsType
<1>5. ASSUME NEW s \in ScheduleIds, NEW on \in BOOLEAN, SwitchSchedule(s, on)
      PROVE  RowsType'
  <2>1. schedules[s] \in ScheduleRow
    BY <1>0, <1>5 DEF SwitchSchedule, RowsType
  <2>2. [schedules[s] EXCEPT !.on = on] \in ScheduleRow
    BY <2>1 DEF ScheduleRow
  <2>3. schedules' = [schedules EXCEPT ![s] = [schedules[s] EXCEPT !.on = on]]
    BY <1>5 DEF SwitchSchedule
  <2> QED BY <1>0, <1>2, <1>5, <2>2, <2>3 DEF SwitchSchedule, RowsType
<1>6. ASSUME NEW p \in Targets, SwitchPoint(p)
      PROVE  RowsType'
  BY <1>0, <1>2, <1>6 DEF SwitchPoint, RowsType
<1>7. ASSUME NEW p \in Targets, DeletePoint(p)
      PROVE  RowsType'
  <2>1. \A s \in ScheduleIds : schedules[s] # NoRow =>
          [schedules[s] EXCEPT !.targets = @ \ {p}] \in ScheduleRow
    BY <1>0 DEF RowsType, ScheduleRow
  <2>2. schedules' \in [ScheduleIds -> ScheduleRow \cup {NoRow}]
    BY <1>7, <2>1 DEF DeletePoint
  <2>3. points' \in [there: SUBSET Targets, on: SUBSET Targets, manual: SUBSET Targets]
    BY <1>0, <1>7 DEF DeletePoint, RowsType
  <2> QED BY <1>0, <1>2, <1>7, <2>2, <2>3 DEF DeletePoint, RowsType
<1>8. RowsType'
  BY <1>3, <1>4, <1>5, <1>6, <1>7 DEF EnableSchedule, DisableSchedule
<1> QED BY <1>1, <1>2, <1>8, EditOwes

(* The rebuild, a read at a time. *)
LEMMA RebuildKeepsCurrent ==
  ASSUME SchedulesInv, TakeDown \/ BuildPoints \/ BuildCalendars \/ BuildSchedules
  PROVE  SchedulesInv'
<1> USE SchedulesAssumption
<1>0. RowsType /\ AskedType /\ LiveType /\ ReadIsCurrent
  BY DEF SchedulesInv
<1>1. AskedType' /\ UNCHANGED <<calendars, schedules, points>>
  BY <1>0 DEF AskedType, TakeDown, BuildPoints, BuildCalendars, BuildSchedules
<1>2. CASE TakeDown
  <2>1. rebuild' = [step |-> "points", byName |-> [n \in {} |-> NoRow]] /\ liveCalendars' = [c \in {} |-> NoRow]
    BY <1>2 DEF TakeDown
  <2>2. rebuild'.step = "points" /\ rebuild' \in RebuildState /\ rebuild' # NoTask
    <3> DEFINE none == [n \in {} |-> NoRow]
               names == {}
    <3>1. none \in [names -> CalendarIds] /\ names \in SUBSET CalendarNames
      OBVIOUS
    <3>2. rebuild' = [step |-> "points", byName |-> none]
      BY <2>1
    <3> HIDE DEF none, names
    <3> QED BY <3>1, <3>2 DEF RebuildState
  <2>3. RowsType'
    BY <1>0, <1>1, <1>2 DEF RowsType, TakeDown
  <2>4. LiveType'
    BY <2>1, <2>2 DEF LiveType
  <2> QED BY <1>1, <2>2, <2>3, <2>4
          DEF SchedulesInv, ReadIsCurrent, PointsCurrent, CalendarsCurrent, NamesCurrent, SchedulesCurrent, RebuildIn
<1>3. CASE BuildPoints
  <2>1. rebuild' = [rebuild EXCEPT !.step = "calendars"] /\ rebuild \in RebuildState
    BY <1>0, <1>3 DEF BuildPoints, LiveType
  <2>2. rebuild'.step = "calendars" /\ rebuild' \in RebuildState /\ rebuild' # NoTask
    BY <2>1 DEF RebuildState
  <2>3. RowsType' /\ LiveType'
    BY <1>0, <1>1, <1>3, <2>2 DEF RowsType, LiveType, BuildPoints
  <2> QED BY <1>1, <1>3, <2>2, <2>3
          DEF BuildPoints, SchedulesInv, ReadIsCurrent, PointsCurrent, CalendarsCurrent, NamesCurrent, SchedulesCurrent, RebuildIn
<1>4. CASE BuildCalendars
  <2> DEFINE names == NamesOf(EnabledCalendars)
             byName == [n \in names |-> CHOOSE c \in EnabledCalendars : calendars[c].name = n]
  <2>1. /\ liveCalendars' = [c \in EnabledCalendars |-> CalendarObject(calendars[c])]
        /\ rebuild' = [step |-> "schedules", byName |-> byName]
        /\ rebuild # NoTask /\ rebuild.step = "calendars"
        /\ UNCHANGED <<livePoints, liveSchedules, owed>>
    BY <1>4 DEF BuildCalendars, EnabledCalendars, NamesOf
  <2>2. \A n \in names : byName[n] \in EnabledCalendars /\ calendars[byName[n]].name = n
    BY DEF NamesOf
  <2>3. \A c \in EnabledCalendars : c \in CalendarIds /\ calendars[c] \in CalendarRow
    BY <1>0 DEF EnabledCalendars, Stored, RowsType
  <2>4. rebuild' \in RebuildState
    <3>1. names \in SUBSET CalendarNames
      BY <2>3 DEF NamesOf, CalendarRow
    <3>2. byName \in [names -> CalendarIds]
      BY <2>2, <2>3
    <3> QED BY <2>1, <3>1, <3>2 DEF RebuildState
  <2>5. rebuild' # NoTask /\ rebuild'.step = "schedules" /\ rebuild'.byName = byName
    BY <2>1, <2>4
  <2>6. \A c \in EnabledCalendars :
          /\ liveCalendars'[c] \in [dates: SUBSET Dates, value: BOOLEAN]
          /\ liveCalendars'[c].dates = calendars[c].dates
    BY <2>1, <2>3 DEF CalendarObject, CalendarRow
  <2>7. DOMAIN liveCalendars' = EnabledCalendars
    BY <2>1
  <2>8. RowsType' /\ LiveType'
    BY <1>0, <1>1, <2>1, <2>4, <2>6, <2>7 DEF RowsType, LiveType
  <2>9. EnabledCalendars' = EnabledCalendars /\ NamesOf(EnabledCalendars)' = names
    BY <1>1 DEF EnabledCalendars, NamesOf, Stored
  <2>10. DOMAIN byName = names
    OBVIOUS
  <2> HIDE DEF byName, names
  <2> QED BY <1>0, <1>1, <2>1, <2>2, <2>5, <2>6, <2>7, <2>8, <2>9, <2>10
          DEF SchedulesInv, ReadIsCurrent, PointsCurrent, CalendarsCurrent, NamesCurrent, SchedulesCurrent, RebuildIn
<1>5. CASE BuildSchedules
  <2>1. /\ liveSchedules' = [s \in {s \in Stored(schedules) : schedules[s].on} |->
                               ScheduleObject(schedules[s], livePoints, rebuild.byName)]
        /\ rebuild' = NoTask /\ rebuild # NoTask /\ rebuild.step = "schedules"
        /\ UNCHANGED <<livePoints, liveCalendars, owed>>
    BY <1>5 DEF BuildSchedules
  <2>2. RowsType' /\ LiveType'
    BY <1>0, <1>1, <2>1 DEF RowsType, LiveType
  <2>3. EnabledCalendars' = EnabledCalendars
    BY <1>1 DEF EnabledCalendars, Stored
  <2>4. ASSUME owed = 0
        PROVE  PointsCurrent' /\ CalendarsCurrent' /\ NamesCurrent' /\ SchedulesCurrent'
    <3>1. PointsCurrent /\ CalendarsCurrent /\ NamesCurrent
      BY <1>0, <2>4 DEF ReadIsCurrent
    <3>2. PointsCurrent' /\ CalendarsCurrent' /\ NamesCurrent'
      BY <1>1, <2>1, <2>3, <3>1 DEF PointsCurrent, CalendarsCurrent, NamesCurrent, RebuildIn
    <3>3. livePoints = points.on
      BY <2>1, <3>1 DEF PointsCurrent, RebuildIn
    <3>4. /\ DOMAIN rebuild.byName = NamesOf(EnabledCalendars)
          /\ \A n \in NamesOf(EnabledCalendars) :
               rebuild.byName[n] \in EnabledCalendars /\ calendars[rebuild.byName[n]].name = n
      BY <2>1, <3>1 DEF NamesCurrent
    <3>5. ASSUME NEW s \in {s \in Stored(schedules) : schedules[s].on}
          PROVE  LET object == liveSchedules'[s]
                 IN /\ object.refs = schedules[s].targets \cap points.on
                    /\ object.exceptions \subseteq EnabledCalendars
                    /\ NamesOf(object.exceptions) = schedules[s].names \cap NamesOf(EnabledCalendars)
      <4>1. /\ liveSchedules'[s].refs = schedules[s].targets \cap livePoints
            /\ liveSchedules'[s].exceptions =
                 {rebuild.byName[n] : n \in schedules[s].names \cap DOMAIN rebuild.byName}
        BY <2>1 DEF ScheduleObject
      <4> QED BY <3>3, <3>4, <4>1 DEF NamesOf
    <3>6. SchedulesCurrent'
      <4>1. DOMAIN liveSchedules' = {s \in Stored(schedules) : schedules[s].on}
        BY <2>1
      <4> QED BY <1>1, <2>3, <3>5, <4>1 DEF SchedulesCurrent, NamesOf, Stored
    <3> QED BY <3>2, <3>6
  <2> QED BY <1>1, <2>1, <2>2, <2>4 DEF SchedulesInv, ReadIsCurrent
<1> QED BY <1>2, <1>3, <1>4, <1>5

(* While the device is up: a refresh leaves the dates alone, and a write   *)
(* makes a point manual and no more.                                       *)
LEMMA RunningKeepsCurrent ==
  ASSUME SchedulesInv,
         \/ \E s \in ScheduleIds : Transition(s)
         \/ \E p \in Targets : WriteTarget(p)
         \/ Refresh
         \/ \E d \in Dates : Midnight(d)
         \/ UNCHANGED schedulesVars
  PROVE  SchedulesInv'
<1>0. RowsType /\ AskedType /\ LiveType /\ ReadIsCurrent
  BY DEF SchedulesInv
<1>1. AskedType' /\ UNCHANGED <<calendars, schedules, owed, rebuild, liveSchedules, livePoints>>
  BY <1>0 DEF AskedType, Transition, WriteTarget, Refresh, Midnight, schedulesVars
<1>2. ASSUME NEW p \in Targets, WriteTarget(p)
      PROVE  SchedulesInv'
  <2>1. points' \in [there: SUBSET Targets, on: SUBSET Targets, manual: SUBSET Targets] /\ points'.on = points.on
    BY <1>0, <1>2 DEF RowsType, WriteTarget
  <2>2. UNCHANGED liveCalendars
    BY <1>2 DEF WriteTarget
  <2> QED BY <1>0, <1>1, <2>1, <2>2
          DEF SchedulesInv, RowsType, LiveType, ReadIsCurrent, PointsCurrent, CalendarsCurrent, NamesCurrent,
              SchedulesCurrent, RebuildIn, EnabledCalendars, NamesOf, Stored
<1>3. CASE Refresh
  <2>1. DOMAIN liveCalendars' = DOMAIN liveCalendars /\ UNCHANGED points
    BY <1>3 DEF Refresh
  <2>2. \A c \in DOMAIN liveCalendars :
          /\ liveCalendars'[c] \in [dates: SUBSET Dates, value: BOOLEAN]
          /\ liveCalendars'[c].dates = liveCalendars[c].dates
    <3>1. SUFFICES ASSUME NEW c \in DOMAIN liveCalendars
                   PROVE  /\ liveCalendars'[c] \in [dates: SUBSET Dates, value: BOOLEAN]
                          /\ liveCalendars'[c].dates = liveCalendars[c].dates
      OBVIOUS
    <3>2. liveCalendars[c] \in [dates: SUBSET Dates, value: BOOLEAN]
      BY <1>0 DEF LiveType
    <3> DEFINE value == today \in calendars[c].dates
    <3>3. liveCalendars'[c] = IF calendars[c] = NoRow THEN liveCalendars[c]
                              ELSE [liveCalendars[c] EXCEPT !.value = value]
      BY <1>3, Zenon DEF Refresh
    <3>4. value \in BOOLEAN
      OBVIOUS
    <3> HIDE DEF value
    <3> QED BY <3>2, <3>3, <3>4
  <2> QED BY <1>0, <1>1, <2>1, <2>2
          DEF SchedulesInv, RowsType, LiveType, ReadIsCurrent, PointsCurrent, CalendarsCurrent, NamesCurrent,
              SchedulesCurrent, RebuildIn, EnabledCalendars, NamesOf, Stored
<1>4. CASE UNCHANGED <<points, liveCalendars>>
  BY <1>1, <1>4, NothingRead
<1> QED BY <1>2, <1>3, <1>4 DEF Transition, Midnight, schedulesVars

(* SchedulesAreCurrent: once the reloads that edits asked for are done,    *)
(* what a schedule writes to and follows is what the rows say, for any     *)
(* rows, editors and interleaving of edits with the reads of a rebuild.    *)
THEOREM LiveFollowsRows == SchedulesSpec => []SchedulesAreCurrent
<1> USE SchedulesAssumption
<1>1. SchedulesInit => SchedulesInv
  <2> SUFFICES ASSUME SchedulesInit PROVE SchedulesInv
    OBVIOUS
  <2>1. Stored(calendars) = {} /\ Stored(schedules) = {}
    BY DEF SchedulesInit, Stored
  <2>2. RowsType /\ AskedType /\ LiveType
    BY DEF SchedulesInit, RowsType, AskedType, LiveType
  <2>3. DOMAIN liveCalendars = {} /\ DOMAIN liveSchedules = {} /\ rebuild = NoTask /\ livePoints = points.on
    BY DEF SchedulesInit
  <2> QED BY <2>1, <2>2, <2>3
          DEF SchedulesInv, ReadIsCurrent, PointsCurrent, CalendarsCurrent, NamesCurrent, SchedulesCurrent, EnabledCalendars
<1>2. SchedulesInv /\ [SchedulesNext]_schedulesVars => SchedulesInv'
  BY EditorsKeepCurrent, DeletionsKeepCurrent, RebuildKeepsCurrent, RunningKeepsCurrent DEF SchedulesNext
<1>3. SchedulesInv => SchedulesAreCurrent
  <2> SUFFICES ASSUME SchedulesInv, rebuild = NoTask, owed = 0 PROVE SchedulesAreCurrent
    BY DEF SchedulesAreCurrent
  <2>1. PointsCurrent /\ CalendarsCurrent /\ SchedulesCurrent
    BY DEF SchedulesInv, ReadIsCurrent
  <2>2. /\ DOMAIN liveCalendars = EnabledCalendars
        /\ \A c \in EnabledCalendars : liveCalendars[c].dates = calendars[c].dates
    BY <2>1 DEF CalendarsCurrent, RebuildIn
  <2>3. DOMAIN liveSchedules = {s \in Stored(schedules) : schedules[s].on}
    BY <2>1 DEF SchedulesCurrent
  <2>4. ASSUME NEW s \in DOMAIN liveSchedules
        PROVE  LET row == schedules[s]
                   exceptions == liveSchedules[s].exceptions
               IN /\ liveSchedules[s].refs = row.targets \cap points.on
                  /\ exceptions \subseteq Stored(calendars)
                  /\ NamesOf(exceptions) = row.names \cap NamesOf(EnabledCalendars)
                  /\ \A c \in exceptions : liveCalendars[c].dates = calendars[c].dates
                  /\ \A c \in Reported(s) \ exceptions :
                       ~calendars[c].on \/ \E x \in Stored(calendars) \ {c} : calendars[x].name = calendars[c].name
    <3> DEFINE given == liveSchedules[s].exceptions
    <3>1. /\ liveSchedules[s].refs = schedules[s].targets \cap points.on
          /\ given \subseteq EnabledCalendars
          /\ NamesOf(given) = schedules[s].names \cap NamesOf(EnabledCalendars)
      BY <2>1 DEF SchedulesCurrent
    <3>2. EnabledCalendars \subseteq Stored(calendars)
      BY DEF EnabledCalendars
    <3> HIDE DEF given
    <3>3. ASSUME NEW c \in Reported(s) \ given, calendars[c].on
          PROVE  \E x \in Stored(calendars) \ {c} : calendars[x].name = calendars[c].name
      <4>1. c \in EnabledCalendars /\ calendars[c].name \in schedules[s].names
        BY <3>3 DEF Reported, EnabledCalendars
      <4>2. calendars[c].name \in NamesOf(given)
        BY <3>1, <4>1 DEF NamesOf
      <4>3. PICK x \in given : calendars[x].name = calendars[c].name
        BY <4>2 DEF NamesOf
      <4> QED BY <3>1, <3>2, <3>3, <4>3
    <3> QED BY <2>2, <3>1, <3>2, <3>3 DEF given
  <2> QED BY <2>3, <2>4 DEF SchedulesAreCurrent, NamesOf, EnabledCalendars
<1> QED BY <1>1, <1>2, <1>3, PTL DEF SchedulesSpec

---------------------------------------------------------------------------
(* The value of a written point                                            *)

PointRead == Value \cup {Unset}
Behaviour == [manual: BOOLEAN, value: Numbers \cup {Unset}]
Sources == [config: Row \cup {Unset}, inner: Behaviour, kept: [manual: BOOLEAN, value: Numbers], shared: BOOLEAN]
Calls == [pc: {"idle", "store", "install", "read", "finish", "set", "apply", "command"},
          value: Numbers \cup {Unset}, row: Row \cup {Unset}, alone: BOOLEAN]

(* A behaviour is of the kind its configuration says. *)
Agrees(src) ==
  /\ src \in Sources
  /\ (src.inner # NoBehavior =>
        /\ src.config \in Row /\ src.inner.value \in Numbers
        /\ (src.inner.manual <=> (src.config.behavior = "manual")))

PointType ==
  /\ stored \in Row /\ claimed \in BOOLEAN
  /\ liveObject \in [slots: [{Commanded, Least} -> PointRead], default: Value]
  /\ answer \in PointRead
  /\ claim \in [value: Numbers \cup {Unset}, settled: BOOLEAN]

BeatType ==
  /\ beat \in [pc: {"idle", "step", "serve", "remember"}, row: Row \cup {Unset}, value: PointRead]
  /\ (beat.pc \in {"step", "serve"} => beat.row \in Row)
  /\ (beat.pc = "serve" => beat.value \in Numbers)

CallType(call) ==
  /\ call \in Calls
  /\ (call.pc # "idle" => call.value \in Numbers)
  /\ (call.pc = "finish" => call.row \in Row)

CallsType ==
  /\ pointCalls \in [PointWriters -> Calls]
  /\ \A w \in PointWriters : CallType(pointCalls[w])

ManualRow(v) == [behavior |-> "manual", params |-> v, manual |-> v]

(* The row is the one a writer that no other overlapped has stored. *)
CallsAlone ==
  \A w \in PointWriters : pointCalls[w].alone /\ pointCalls[w].pc # "idle" =>
    /\ \A x \in PointWriters \ {w} : pointCalls[x].pc = "idle"
    /\ (pointCalls[w].pc \in {"install", "read", "finish"} => stored = ManualRow(pointCalls[w].value))
    /\ (pointCalls[w].pc = "finish" => pointCalls[w].row = stored)

(* The value is in the behaviour, or the next tick takes it from the row. *)
ClaimHeld ==
  /\ (claim.value # Unset => NoWrite /\ stored.behavior = "manual")
  /\ (claim.settled => claim.value # Unset)
  /\ (claim.value # Unset /\ ~claimed =>
        /\ (source.inner.manual => source.inner.value = claim.value)
        /\ (~source.inner.manual => stored.params = claim.value)
        /\ (beat.pc = "step" =>
              /\ (beat.row.behavior # "manual" => stored.params = claim.value)
              /\ (~source.inner.manual => beat.row = stored)))

(* What a tick that began after the write has made of it so far. *)
ClaimServed ==
  claim.settled /\ ~claimed =>
    /\ (beat.pc = "step" => beat.row = stored)
    /\ (beat.pc = "serve" => beat.value = claim.value)
    /\ (beat.pc = "remember" => beat.value = InStates(claim.value))
    /\ (beat.pc \in {"remember", "idle"} => liveObject.slots[Least] = InStates(claim.value))
    /\ (beat.pc = "idle" => answer = InStates(claim.value))

PointInv ==
  PointType /\ Agrees(source) /\ BeatType /\ CallsType /\ CallsAlone /\ ClaimHeld /\ ClaimServed

(* A value is brought into the range of the states. *)
LEMMA InStatesValue ==
  ASSUME NEW v \in Value
  PROVE  InStates(v) \in Value
BY PointValuesAssumption DEF InStates, Value

(* A behaviour made from a row is one. *)
LEMMA MakeBehaviour ==
  ASSUME NEW row \in Row
  PROVE  /\ Make(row) \in [manual: BOOLEAN, value: Numbers]
         /\ Make(row) \in Behaviour /\ Make(row) # NoBehavior
         /\ Make(row).value = row.params
         /\ (Make(row).manual <=> (row.behavior = "manual"))
<1> DEFINE manual == row.behavior = "manual"
<1>1. manual \in BOOLEAN /\ row.params \in Numbers
  BY DEF Row
<1>2. Make(row) = [manual |-> manual, value |-> row.params]
  BY DEF Make
<1> HIDE DEF manual
<1>3. /\ Make(row) \in [manual: BOOLEAN, value: Numbers]
      /\ Make(row) \in Behaviour /\ Make(row) # NoBehavior
      /\ Make(row).value = row.params /\ Make(row).manual = manual
  BY <1>1, <1>2, PointValuesAssumption DEF Behaviour, NoBehavior
<1> QED BY <1>3 DEF manual

(* What sync_point_configs leaves: the kind the row says, and the value of *)
(* a manual behaviour that was there.                                      *)
LEMMA SyncedSource ==
  ASSUME NEW src, Agrees(src), NEW row \in Row
  PROVE  LET new == Synced(src, row)
         IN /\ Agrees(new) /\ new.inner # NoBehavior
            /\ (new.inner.manual <=> (row.behavior = "manual"))
            /\ (new.inner.manual /\ src.inner.manual => new.inner.value = src.inner.value)
            /\ (new.inner.manual /\ ~src.inner.manual => new.inner.value = row.params)
<1> DEFINE made == Make(row)
           kept == IF made.manual /\ src.inner.manual THEN src.inner ELSE made
           new == Synced(src, row)
<1>1. /\ made \in Behaviour /\ made # NoBehavior /\ made.value = row.params /\ made.value \in Numbers
      /\ (made.manual <=> (row.behavior = "manual"))
  BY MakeBehaviour DEF Row
<1>2. ~NoBehavior.manual /\ NoBehavior \in Behaviour
  BY DEF NoBehavior, Behaviour
<1>3. src \in Sources /\ src.inner \in Behaviour
  BY DEF Agrees, Sources
<1>4. CASE src.config = row /\ src.inner # NoBehavior
  <2>1. new = src
    BY <1>4 DEF Synced
  <2> HIDE DEF new
  <2> QED BY <1>4, <2>1 DEF Agrees, new
<1>5. CASE ~(src.config = row /\ src.inner # NoBehavior)
  <2>1. new = [src EXCEPT !.config = row, !.inner = kept]
    BY <1>5 DEF Synced
  <2>2. /\ kept \in Behaviour /\ kept # NoBehavior /\ kept.value \in Numbers
        /\ (kept.manual <=> (row.behavior = "manual"))
    BY <1>1, <1>2, <1>3 DEF Agrees
  <2>3. /\ (kept.manual /\ src.inner.manual => kept.value = src.inner.value)
        /\ (kept.manual /\ ~src.inner.manual => kept.value = row.params)
    BY <1>1
  <2> HIDE DEF kept, new
  <2>4. new \in Sources /\ new.config = row /\ new.inner = kept
    BY <1>3, <2>1, <2>2 DEF Sources
  <2> QED BY <2>2, <2>3, <2>4 DEF Agrees, new
<1> QED BY <1>4, <1>5

(* A manual behaviour takes what set_inputs gives it. *)
LEMMA GivenSource ==
  ASSUME NEW src, Agrees(src), src.inner # NoBehavior, NEW v \in Numbers
  PROVE  LET new == Given(src, v)
         IN /\ Agrees(new) /\ new.inner # NoBehavior
            /\ (src.inner.manual => new.inner.manual /\ new.inner.value = v)
<1>1. src \in Sources /\ src.inner \in Behaviour /\ src.config \in Row
  BY DEF Agrees, Sources
<1>2. CASE src.inner.manual
  <2> DEFINE inner == [src.inner EXCEPT !.value = v]
  <2>1. Given(src, v) = [src EXCEPT !.inner = inner]
    BY <1>2 DEF Given
  <2>2. inner \in Behaviour /\ inner.value = v /\ inner.manual = src.inner.manual /\ inner # NoBehavior
    BY <1>1, PointValuesAssumption DEF Behaviour, NoBehavior
  <2> HIDE DEF inner
  <2>3. /\ Given(src, v) \in Sources /\ Given(src, v).inner = inner
        /\ Given(src, v).config = src.config
    BY <1>1, <2>1, <2>2 DEF Sources
  <2> QED BY <1>1, <1>2, <2>2, <2>3 DEF Agrees
<1>3. CASE ~src.inner.manual
  <2>1. Given(src, v) = src
    BY <1>3 DEF Given
  <2> QED BY <1>3, <2>1
<1> QED BY <1>2, <1>3

(* No more than one call changes at a time. *)
LEMMA CallStep ==
  ASSUME CallsType, NEW w \in PointWriters, NEW call, CallType(call),
         pointCalls' = [pointCalls EXCEPT ![w] = call]
  PROVE  CallsType' /\ pointCalls'[w] = call /\ \A x \in PointWriters \ {w} : pointCalls'[x] = pointCalls[x]
<1>1. \A x \in PointWriters : pointCalls'[x] = (IF x = w THEN call ELSE pointCalls[x])
  BY DEF CallsType
<1>2. pointCalls' \in [PointWriters -> Calls]
  BY DEF CallsType, CallType
<1> QED BY <1>1, <1>2 DEF CallsType

(* A request that comes in. *)
LEMMA Entered ==
  ASSUME CallsType, NEW w \in PointWriters, NEW v \in Numbers, NEW pc \in {"store", "set", "command"},
         Enter(w, [NoCall EXCEPT !.pc = pc, !.value = v])
  PROVE  CallsType' /\ CallsAlone' /\ claim' = NoClaim
         /\ UNCHANGED <<output, stored, claimed, source, liveObject, answer, beat>>
<1> DEFINE lone == NoWrite
           blank == [NoCall EXCEPT !.pc = pc, !.value = v]
           call == [blank EXCEPT !.alone = lone]
<1>1. lone \in BOOLEAN
  BY DEF NoWrite
<1>2. pointCalls' = [x \in PointWriters |->
                       IF x = w THEN call ELSE [pointCalls[x] EXCEPT !.alone = FALSE]]
  BY Zenon DEF Enter
<1>3. lone => \A x \in PointWriters : pointCalls[x].pc = "idle"
  BY DEF NoWrite
<1> HIDE DEF lone
<1>4. CallType(call) /\ call.alone = lone /\ call.pc = pc
  <2>1. NoCall \in Calls
    BY DEF NoCall, Calls
  <2>2. blank \in Calls /\ blank.pc = pc /\ blank.value = v
    BY <2>1 DEF Calls
  <2> HIDE DEF blank
  <2>3. call \in Calls /\ call.pc = pc /\ call.value = v /\ call.alone = lone
    BY <1>1, <2>2 DEF Calls
  <2> QED BY <2>3 DEF CallType
<1>5. ASSUME NEW x \in PointWriters
      PROVE  LET other == [pointCalls[x] EXCEPT !.alone = FALSE]
             IN CallType(other) /\ other.pc = pointCalls[x].pc /\ ~other.alone
  BY DEF CallsType, CallType, Calls
<1> HIDE DEF call
<1>6. CallsType'
  <2>1. \A x \in PointWriters : CallType(pointCalls'[x])
    BY <1>2, <1>4, <1>5
  <2>2. pointCalls' \in [PointWriters -> Calls]
    BY <1>2, <1>4, <1>5 DEF CallType
  <2> QED BY <2>1, <2>2 DEF CallsType
<1>7. CallsAlone'
  <2>1. ASSUME NEW x \in PointWriters, pointCalls'[x].alone
        PROVE  /\ pointCalls'[x].pc \in {"store", "set", "command"}
               /\ \A y \in PointWriters \ {x} : pointCalls'[y].pc = "idle"
    <3>1. x = w
      BY <1>2, <1>5, <2>1
    <3>2. lone
      BY <1>2, <1>4, <2>1, <3>1
    <3> QED BY <1>2, <1>3, <1>4, <1>5, <3>1, <3>2
  <2> QED BY <2>1 DEF CallsAlone
<1> QED BY <1>6, <1>7 DEF Enter

(* A call goes on to its next step; the claim is another's, or nobody's. *)
LEMMA CallGoesOn ==
  ASSUME PointInv, NEW w \in PointWriters, StoreWritten(w) \/ InstallWritten(w) \/ ReadAgain(w) \/ StoreSet(w)
  PROVE  PointInv'
<1>0. PointType /\ Agrees(source) /\ BeatType /\ CallsType /\ CallsAlone /\ ClaimHeld
  BY DEF PointInv
<1>1. /\ CallType(pointCalls[w]) /\ pointCalls[w].pc \in {"store", "install", "read", "set"}
      /\ pointCalls[w].value \in Numbers
      /\ UNCHANGED <<claimed, liveObject, answer, beat, claim>>
  BY <1>0 DEF StoreWritten, InstallWritten, ReadAgain, StoreSet, CallsType, CallType
<1>2. claim.value = Unset /\ ~claim.settled
  BY <1>0, <1>1 DEF ClaimHeld, NoWrite
<1>3. ClaimHeld' /\ ClaimServed'
  BY <1>1, <1>2 DEF ClaimHeld, ClaimServed
<1>4. \A x \in PointWriters : x # w /\ pointCalls[x].alone => pointCalls[x].pc = "idle"
  BY <1>0, <1>1 DEF CallsAlone
<1>5. BeatType'
  BY <1>0, <1>1 DEF BeatType
<1>6. CASE StoreWritten(w)
  <2> DEFINE call == [pointCalls[w] EXCEPT !.pc = "install"]
  <2>1. pointCalls' = [pointCalls EXCEPT ![w] = call]
    BY <1>6 DEF StoreWritten
  <2>2. /\ CallType(call) /\ call.pc = "install" /\ call.value = pointCalls[w].value
        /\ call.alone = pointCalls[w].alone
    BY <1>1 DEF CallType, Calls
  <2>3. stored' = ManualRow(pointCalls[w].value) /\ stored' \in Row /\ UNCHANGED source
    BY <1>1, <1>6 DEF StoreWritten, ManualRow, Row
  <2> HIDE DEF call
  <2>4. CallsType' /\ pointCalls'[w] = call /\ \A x \in PointWriters \ {w} : pointCalls'[x] = pointCalls[x]
    BY <1>0, <2>1, <2>2, CallStep
  <2>5. CallsAlone'
    BY <1>0, <1>1, <1>4, <2>2, <2>3, <2>4 DEF CallsAlone
  <2> QED BY <1>0, <1>1, <1>3, <1>5, <2>3, <2>4, <2>5 DEF PointInv, PointType
<1>7. CASE InstallWritten(w)
  <2> DEFINE call == [pointCalls[w] EXCEPT !.pc = "read"]
  <2>1. pointCalls' = [pointCalls EXCEPT ![w] = call] /\ pointCalls[w].pc = "install"
    BY <1>7 DEF InstallWritten
  <2>2. /\ CallType(call) /\ call.pc = "read" /\ call.value = pointCalls[w].value
        /\ call.alone = pointCalls[w].alone
    BY <1>1 DEF CallType, Calls
  <2>3. stored' = stored /\ Agrees(source)'
    <3>1. source' = [source EXCEPT !.shared = FALSE]
      BY <1>7 DEF InstallWritten
    <3>2. /\ source' \in Sources /\ source'.inner = source.inner /\ source'.config = source.config
      BY <1>0, <3>1 DEF Agrees, Sources
    <3> QED BY <1>0, <1>7, <3>2 DEF InstallWritten, Agrees
  <2> HIDE DEF call
  <2>4. CallsType' /\ pointCalls'[w] = call /\ \A x \in PointWriters \ {w} : pointCalls'[x] = pointCalls[x]
    BY <1>0, <2>1, <2>2, CallStep
  <2>5. CallsAlone'
    BY <1>0, <1>4, <2>1, <2>2, <2>3, <2>4 DEF CallsAlone
  <2>6. ClaimHeld'
    BY <1>1, <1>2 DEF ClaimHeld
  <2> QED BY <1>0, <1>1, <1>3, <1>5, <2>3, <2>4, <2>5, <2>6 DEF PointInv, PointType
<1>8. CASE ReadAgain(w)
  <2> DEFINE call == [pointCalls[w] EXCEPT !.pc = "finish", !.row = stored]
  <2>1. pointCalls' = [pointCalls EXCEPT ![w] = call] /\ pointCalls[w].pc = "read"
    BY <1>8 DEF ReadAgain
  <2>2. /\ CallType(call) /\ call.pc = "finish" /\ call.value = pointCalls[w].value
        /\ call.alone = pointCalls[w].alone /\ call.row = stored
    BY <1>0, <1>1 DEF CallType, Calls, PointType
  <2>3. UNCHANGED <<stored, source>>
    BY <1>8 DEF ReadAgain
  <2> HIDE DEF call
  <2>4. CallsType' /\ pointCalls'[w] = call /\ \A x \in PointWriters \ {w} : pointCalls'[x] = pointCalls[x]
    BY <1>0, <2>1, <2>2, CallStep
  <2>5. CallsAlone'
    BY <1>0, <1>4, <2>1, <2>2, <2>3, <2>4 DEF CallsAlone
  <2> QED BY <1>0, <1>1, <1>3, <1>5, <2>3, <2>4, <2>5 DEF PointInv, PointType
<1>9. CASE StoreSet(w)
  <2> DEFINE call == [pointCalls[w] EXCEPT !.pc = "apply"]
  <2>1. pointCalls' = [pointCalls EXCEPT ![w] = call]
    BY <1>9 DEF StoreSet
  <2>2. CallType(call) /\ call.pc = "apply" /\ call.alone = pointCalls[w].alone
    BY <1>1 DEF CallType, Calls
  <2>3. stored' = [stored EXCEPT !.manual = pointCalls[w].value] /\ UNCHANGED source
    BY <1>9 DEF StoreSet
  <2>4. stored' \in Row
    BY <1>0, <1>1, <2>3 DEF PointType, Row
  <2> HIDE DEF call
  <2>5. CallsType' /\ pointCalls'[w] = call /\ \A x \in PointWriters \ {w} : pointCalls'[x] = pointCalls[x]
    BY <1>0, <2>1, <2>2, CallStep
  <2>6. CallsAlone'
    BY <1>0, <1>1, <1>4, <2>2, <2>5 DEF CallsAlone
  <2> QED BY <1>0, <1>1, <1>3, <1>5, <2>3, <2>4, <2>5, <2>6 DEF PointInv, PointType
<1> QED BY <1>6, <1>7, <1>8, <1>9

(* What the last slot is given is what it holds. *)
LEMMA Served ==
  ASSUME PointType, NEW v \in Value, Serve(v)
  PROVE  /\ liveObject' \in [slots: [{Commanded, Least} -> PointRead], default: Value]
         /\ liveObject'.slots[Least] = InStates(v)
<1> DEFINE slots == [liveObject.slots EXCEPT ![Least] = InStates(v)]
<1>1. liveObject' = [liveObject EXCEPT !.slots = slots]
  BY DEF Serve
<1>2. InStates(v) \in PointRead
  BY InStatesValue DEF PointRead
<1>3. slots \in [{Commanded, Least} -> PointRead] /\ slots[Least] = InStates(v)
  BY <1>2 DEF PointType
<1> HIDE DEF slots
<1> QED BY <1>1, <1>3 DEF PointType

(* A write that ends, alone or not. *)
LEMMA CallEnds ==
  ASSUME PointInv, NEW w \in PointWriters, NEW v \in Numbers, NEW counts \in BOOLEAN, Done(w, v, counts),
         pointCalls[w].pc \in {"finish", "apply", "command"}
  PROVE  /\ CallsType' /\ (stored' = stored => CallsAlone')
         /\ claim' \in [value: Numbers \cup {Unset}, settled: BOOLEAN] /\ ~claim'.settled
         /\ (claim'.value # Unset => NoWrite' /\ claim'.value = v /\ counts /\ pointCalls[w].alone)
<1>0. CallsType /\ CallsAlone
  BY DEF PointInv
<1>1. CallType(NoCall) /\ NoCall.pc = "idle"
  BY DEF CallType, NoCall, Calls
<1>2. pointCalls' = [pointCalls EXCEPT ![w] = NoCall]
  BY DEF Done
<1>3. CallsType' /\ pointCalls'[w] = NoCall /\ \A x \in PointWriters \ {w} : pointCalls'[x] = pointCalls[x]
  BY <1>0, <1>1, <1>2, CallStep
<1>4. \A x \in PointWriters \ {w} : pointCalls[x].alone => pointCalls[x].pc = "idle"
  BY <1>0 DEF CallsAlone
<1>5. stored' = stored => CallsAlone'
  BY <1>1, <1>3, <1>4 DEF CallsAlone
<1>6. pointCalls[w].alone => NoWrite'
  BY <1>0, <1>1, <1>3 DEF CallsAlone, NoWrite
<1>7. \/ claim' = [value |-> Unset, settled |-> FALSE]
      \/ (claim' = [value |-> v, settled |-> FALSE] /\ counts /\ pointCalls[w].alone)
  BY DEF Done, NoClaim
<1>8. /\ claim' \in [value: Numbers \cup {Unset}, settled: BOOLEAN] /\ ~claim'.settled
      /\ (claim'.value # Unset => claim'.value = v /\ counts /\ pointCalls[w].alone)
  <2>1. CASE claim' = [value |-> Unset, settled |-> FALSE]
    <3>1. claim' \in [value: Numbers \cup {Unset}, settled: BOOLEAN] /\ ~claim'.settled /\ claim'.value = Unset
      BY <2>1
    <3> QED BY <3>1
  <2>2. CASE claim' = [value |-> v, settled |-> FALSE] /\ counts /\ pointCalls[w].alone
    <3>1. claim' \in [value: Numbers \cup {Unset}, settled: BOOLEAN] /\ ~claim'.settled /\ claim'.value = v
      BY <2>2
    <3> QED BY <2>2, <3>1
  <2> QED BY <1>7, <2>1, <2>2
<1> QED BY <1>3, <1>5, <1>6, <1>8

(* Nothing is claimed of what nobody wrote. *)
LEMMA NothingClaimed ==
  ASSUME claim' = NoClaim
  PROVE  ClaimHeld' /\ ClaimServed' /\ claim' \in [value: Numbers \cup {Unset}, settled: BOOLEAN]
<1>1. claim'.value = Unset /\ ~claim'.settled /\ claim' \in [value: Numbers \cup {Unset}, settled: BOOLEAN]
  BY DEF NoClaim
<1> QED BY <1>1 DEF ClaimHeld, ClaimServed

(* A request in. *)
LEMMA StartsKeepPoint ==
  ASSUME PointInv, NEW w \in PointWriters, NEW v \in Numbers,
         StartWriteProperty(w, v) \/ StartSetValue(w, v) \/ StartWritePriority(w, v)
  PROVE  PointInv'
<1>1. CallsType' /\ CallsAlone' /\ claim' = NoClaim
      /\ UNCHANGED <<output, stored, claimed, source, liveObject, answer, beat>>
  <2>1. CallsType
    BY DEF PointInv
  <2>2. CASE StartWriteProperty(w, v)
    BY <2>1, <2>2, Entered DEF StartWriteProperty
  <2>3. CASE StartSetValue(w, v)
    BY <2>1, <2>3, Entered DEF StartSetValue
  <2>4. CASE StartWritePriority(w, v)
    BY <2>1, <2>4, Entered DEF StartWritePriority
  <2> QED BY <2>2, <2>3, <2>4
<1> QED BY <1>1, NothingClaimed DEF PointInv, PointType, BeatType, Agrees

(* A value the last slot is given holds the behaviour, too, if it is the   *)
(* provider's: the end of a WriteProperty.                                 *)
LEMMA FinishKeepsPoint ==
  ASSUME PointInv, NEW w \in PointWriters, FinishWriteProperty(w)
  PROVE  PointInv'
<1> DEFINE call == pointCalls[w]
           v == call.value
           counts == stored.behavior = "manual"
<1>0. PointType /\ Agrees(source) /\ BeatType /\ CallsType /\ CallsAlone
  BY DEF PointInv
<1>1. call.pc = "finish" /\ v \in Numbers /\ v \in Value /\ call.row \in Row
  BY <1>0 DEF FinishWriteProperty, CallsType, CallType, Value
<1>2. UNCHANGED <<stored, claimed, answer, beat>> /\ Serve(v) /\ Done(w, v, counts)
  BY DEF FinishWriteProperty
<1>3. counts \in BOOLEAN
  OBVIOUS
<1>4. /\ CallsType' /\ CallsAlone'
      /\ claim' \in [value: Numbers \cup {Unset}, settled: BOOLEAN] /\ ~claim'.settled
      /\ (claim'.value # Unset => NoWrite' /\ claim'.value = v /\ counts /\ call.alone)
  BY <1>1, <1>2, <1>3, CallEnds
<1>5. ASSUME ~claimed
      PROVE  /\ Agrees(source)'
             /\ (call.row.behavior = "manual" => source'.inner.manual /\ source'.inner.value = v)
  <2> DEFINE synced == Synced(source, call.row)
  <2>1. Agrees(synced) /\ synced.inner # NoBehavior /\ (synced.inner.manual <=> (call.row.behavior = "manual"))
    BY <1>0, <1>1, SyncedSource
  <2>2. source' = Given(synced, v)
    BY <1>5 DEF FinishWriteProperty
  <2> HIDE DEF synced
  <2>3. Agrees(Given(synced, v)) /\ (synced.inner.manual => Given(synced, v).inner.manual /\ Given(synced, v).inner.value = v)
    BY <1>1, <2>1, GivenSource
  <2> QED BY <2>1, <2>2, <2>3 DEF Agrees
<1>6. Agrees(source)'
  <2>1. CASE claimed
    BY <1>0, <2>1 DEF FinishWriteProperty, Agrees
  <2> QED BY <1>5, <2>1
<1>7. ClaimHeld'
  <2>1. call.alone => stored = ManualRow(v) /\ call.row = stored
    BY <1>0, <1>1 DEF CallsAlone
  <2>2. call.alone => stored.params = v /\ call.row.behavior = "manual"
    BY <2>1 DEF ManualRow
  <2>3. claim'.value # Unset /\ ~claimed => source'.inner.manual /\ source'.inner.value = v /\ stored.params = v
    BY <1>4, <1>5, <2>2
  <2> QED BY <1>2, <1>4, <2>3 DEF ClaimHeld
<1>8. PointType'
  BY <1>0, <1>1, <1>2, <1>4, Served DEF PointType
<1> QED BY <1>0, <1>2, <1>4, <1>6, <1>7, <1>8 DEF PointInv, ClaimServed, BeatType

(* The end of a Set. *)
LEMMA ApplyKeepsPoint ==
  ASSUME PointInv, NEW w \in PointWriters, ApplySet(w)
  PROVE  PointInv'
<1> DEFINE call == pointCalls[w]
           v == call.value
           counts == beat.pc # "step" /\ stored.behavior = "manual"
           told == IF source.shared /\ source.kept.manual THEN [source EXCEPT !.kept.value = v]
                   ELSE IF source.shared THEN [source EXCEPT !.shared = FALSE] ELSE source
<1>0. PointType /\ Agrees(source) /\ BeatType /\ CallsType /\ CallsAlone
  BY DEF PointInv
<1>1. call.pc = "apply" /\ v \in Numbers /\ v \in Value
  BY <1>0 DEF ApplySet, CallsType, CallType, Value
<1>2. UNCHANGED <<stored, claimed, beat>> /\ Serve(v) /\ Done(w, v, counts) /\ answer' = InStates(v)
  BY DEF ApplySet
<1>3. counts \in BOOLEAN
  OBVIOUS
<1>4. /\ CallsType' /\ CallsAlone'
      /\ claim' \in [value: Numbers \cup {Unset}, settled: BOOLEAN] /\ ~claim'.settled
      /\ (claim'.value # Unset => NoWrite' /\ claim'.value = v /\ counts /\ call.alone)
  BY <1>1, <1>2, <1>3, CallEnds
<1>5. source' = IF claimed THEN told ELSE Given(Synced(told, ManualRow(v)), v)
  BY DEF ApplySet, ManualRow
<1>6. Agrees(told)
  <2>1. source \in Sources /\ source.kept \in [manual: BOOLEAN, value: Numbers]
    BY <1>0 DEF Agrees, Sources
  <2> DEFINE kept == [source.kept EXCEPT !.value = v]
  <2>2. kept \in [manual: BOOLEAN, value: Numbers]
    BY <1>1, <2>1
  <2>3. told = [source EXCEPT !.kept = kept] \/ told = [source EXCEPT !.shared = FALSE] \/ told = source
    OBVIOUS
  <2> HIDE DEF kept, told
  <2>4. told \in Sources /\ told.inner = source.inner /\ told.config = source.config
    BY <2>1, <2>2, <2>3 DEF Sources
  <2> QED BY <1>0, <2>4 DEF Agrees
<1> HIDE DEF told
<1>7. ManualRow(v) \in Row /\ ManualRow(v).behavior = "manual"
  BY <1>1 DEF ManualRow, Row
<1>8. ASSUME ~claimed
      PROVE  Agrees(source)' /\ source'.inner.manual /\ source'.inner.value = v
  <2> DEFINE synced == Synced(told, ManualRow(v))
  <2>1. Agrees(synced) /\ synced.inner # NoBehavior /\ synced.inner.manual
    BY <1>6, <1>7, SyncedSource
  <2>2. source' = Given(synced, v)
    BY <1>5, <1>8
  <2> HIDE DEF synced
  <2>3. Agrees(Given(synced, v)) /\ Given(synced, v).inner.manual /\ Given(synced, v).inner.value = v
    BY <1>1, <2>1, GivenSource
  <2> QED BY <2>2, <2>3 DEF Agrees
<1>9. Agrees(source)'
  <2>1. CASE claimed
    BY <1>5, <1>6, <2>1 DEF Agrees
  <2> QED BY <1>8, <2>1
<1>10. ClaimHeld'
  BY <1>2, <1>4, <1>8 DEF ClaimHeld
<1>11. PointType'
  BY <1>0, <1>1, <1>2, <1>4, Served, InStatesValue DEF PointType, PointRead
<1> QED BY <1>0, <1>2, <1>4, <1>9, <1>10, <1>11 DEF PointInv, ClaimServed, BeatType

(* The end of a command, which claims nothing. *)
LEMMA CommandKeepsPoint ==
  ASSUME PointInv, NEW w \in PointWriters, NEW s \in {Commanded, Least}, FinishWritePriority(w, s)
  PROVE  PointInv'
<1> DEFINE call == pointCalls[w]
           slots == [liveObject.slots EXCEPT ![s] = call.value]
           next == [liveObject EXCEPT !.slots = slots]
<1>0. PointType /\ Agrees(source) /\ BeatType /\ CallsType /\ CallsAlone
  BY DEF PointInv
<1>1. call.pc = "command" /\ call.value \in PointRead
  BY <1>0 DEF FinishWritePriority, CallsType, CallType, Value, PointRead
<1>2. /\ liveObject' = next /\ answer' = PresentValue(next)
      /\ pointCalls' = [pointCalls EXCEPT ![w] = NoCall] /\ claim' = NoClaim
      /\ UNCHANGED <<stored, claimed, source, beat>>
  BY DEF FinishWritePriority
<1>3. slots \in [{Commanded, Least} -> PointRead]
  BY <1>0, <1>1 DEF PointType
<1> HIDE DEF slots
<1>4. next \in [slots: [{Commanded, Least} -> PointRead], default: Value]
  BY <1>0, <1>3 DEF PointType
<1> HIDE DEF next
<1>5. PresentValue(next) \in PointRead
  BY <1>4 DEF PresentValue, PointRead
<1>6. Done(w, call.value, FALSE)
  BY <1>2 DEF Done
<1>7. CallsType' /\ CallsAlone'
  <2>1. CallType(NoCall) /\ NoCall.pc = "idle"
    BY DEF CallType, NoCall, Calls
  <2>2. CallsType' /\ pointCalls'[w] = NoCall /\ \A x \in PointWriters \ {w} : pointCalls'[x] = pointCalls[x]
    BY <1>0, <1>2, <2>1, CallStep
  <2>3. \A x \in PointWriters \ {w} : pointCalls[x].alone => pointCalls[x].pc = "idle"
    BY <1>0, <1>1 DEF CallsAlone
  <2> QED BY <2>1, <2>2, <2>3 DEF CallsAlone
<1> QED BY <1>0, <1>2, <1>4, <1>5, <1>7, NothingClaimed DEF PointInv, PointType, BeatType, Agrees

(* Edits that nobody's write survives. *)
LEMMA EditsKeepPoint ==
  ASSUME PointInv,
         \/ \E s \in {Commanded, Least} : Relinquish(s)
         \/ \E row \in Row : EditPoint(row)
         \/ Claim \/ ResetPoint
  PROVE  PointInv'
<1>0. PointType /\ Agrees(source) /\ BeatType /\ CallsType /\ CallsAlone
  BY DEF PointInv
<1>1. claim' = NoClaim /\ UNCHANGED <<beat, pointCalls>>
  BY DEF Relinquish, EditPoint, Claim, ResetPoint
<1>2. CallsType' /\ BeatType'
  BY <1>0, <1>1 DEF CallsType, BeatType
<1>3. ASSUME NEW s \in {Commanded, Least}, Relinquish(s)
      PROVE  PointInv'
  <2> DEFINE slots == [liveObject.slots EXCEPT ![s] = Unset]
  <2>1. liveObject' = [liveObject EXCEPT !.slots = slots] /\ UNCHANGED <<stored, claimed, source, answer>>
    BY <1>3 DEF Relinquish
  <2>2. slots \in [{Commanded, Least} -> PointRead]
    BY <1>0 DEF PointType, PointRead
  <2> HIDE DEF slots
  <2>3. PointType'
    BY <1>0, <1>1, <2>1, <2>2, NothingClaimed DEF PointType
  <2> QED BY <1>0, <1>1, <1>2, <2>1, <2>3, NothingClaimed DEF PointInv, CallsAlone, Agrees
<1>4. ASSUME NEW row \in Row, EditPoint(row)
      PROVE  PointInv'
  <2>1. \A w \in PointWriters : pointCalls[w].pc = "idle"
    BY <1>4 DEF EditPoint, PointAtRest, NoWrite
  <2>2. PICK v \in Value : BuiltPoint(row, v)
    <3>1. row.params \in Value
      BY DEF Row, Value
    <3>2. answer # Unset => answer \in Value
      BY <1>0 DEF PointType, PointRead
    <3> QED BY <1>4, <3>1, <3>2 DEF EditPoint
  <2>3. stored' = row /\ UNCHANGED claimed
    BY <1>4 DEF EditPoint
  <2>4. Agrees(source)'
    <3>1. source' = [config |-> row, inner |-> Make(row), kept |-> Make(row), shared |-> TRUE]
      BY <2>2 DEF BuiltPoint
    <3>2. /\ source' \in Sources /\ source'.inner = Make(row) /\ source'.config = row
      BY <3>1, MakeBehaviour DEF Sources
    <3>3. Make(row).value \in Numbers
      BY MakeBehaviour
    <3> QED BY <3>2, <3>3, MakeBehaviour DEF Agrees
  <2>5. liveObject' \in [slots: [{Commanded, Least} -> PointRead], default: Value] /\ answer' \in PointRead
    <3>1. [s \in {Commanded, Least} |-> Unset] \in [{Commanded, Least} -> PointRead]
      BY DEF PointRead
    <3> QED BY <2>2, <3>1, InStatesValue DEF BuiltPoint, PointRead
  <2>6. PointType'
    BY <1>0, <1>1, <2>3, <2>5, NothingClaimed DEF PointType
  <2> QED BY <1>1, <1>2, <2>1, <2>4, <2>6, NothingClaimed DEF PointInv, CallsAlone
<1>5. CASE Claim
  <2>1. claimed' \in BOOLEAN /\ UNCHANGED <<stored, source, liveObject, answer>>
    BY <1>5 DEF Claim
  <2> QED BY <1>0, <1>1, <1>2, <2>1, NothingClaimed DEF PointInv, PointType, CallsAlone, Agrees
<1>6. CASE ResetPoint
  <2>1. UNCHANGED <<stored, claimed, liveObject, answer>>
    BY <1>6 DEF ResetPoint
  <2>2. Agrees(source)'
    <3>1. CASE source.inner = NoBehavior
      BY <1>0, <1>6, <3>1 DEF ResetPoint, Agrees
    <3>2. CASE source.inner # NoBehavior
      <4>1. source' = [source EXCEPT !.inner = Make(source.config)] /\ source.config \in Row
        BY <1>0, <1>6, <3>2 DEF ResetPoint, Agrees
      <4>2. source' \in Sources /\ source'.inner = Make(source.config) /\ source'.config = source.config
        BY <1>0, <4>1, MakeBehaviour DEF Agrees, Sources
      <4>3. Make(source.config).value \in Numbers
        BY <4>1, MakeBehaviour
      <4> QED BY <4>1, <4>2, <4>3, MakeBehaviour DEF Agrees
    <3> QED BY <3>1, <3>2
  <2> QED BY <1>0, <1>1, <1>2, <2>1, <2>2, NothingClaimed DEF PointInv, PointType, CallsAlone
<1> QED BY <1>3, <1>4, <1>5, <1>6

(* The tick: what it steps with, serves and remembers. *)
LEMMA TickKeepsPoint ==
  ASSUME PointInv, TickReads \/ (\E v \in Numbers : TickSteps(v)) \/ TickServes \/ TickRemembers
  PROVE  PointInv'
<1>0. PointType /\ Agrees(source) /\ BeatType /\ CallsType /\ CallsAlone /\ ClaimHeld /\ ClaimServed
  BY DEF PointInv
<1>1. UNCHANGED <<stored, claimed, pointCalls>>
  BY DEF TickReads, TickSteps, TickServes, TickRemembers
<1>2. CallsType' /\ CallsAlone' /\ NoWrite' = NoWrite
  BY <1>0, <1>1 DEF CallsType, CallsAlone, NoWrite
<1>3. CASE TickReads
  <2>1. /\ UNCHANGED <<source, liveObject, answer>>
        /\ beat' = [NoBeat EXCEPT !.pc = "step", !.row = stored]
    BY <1>3 DEF TickReads
  <2> DEFINE given == claim.value # Unset
  <2>2. claim' = [claim EXCEPT !.settled = given]
    BY <1>3 DEF TickReads
  <2>3. given \in BOOLEAN
    OBVIOUS
  <2> HIDE DEF given
  <2>4. claim' \in [value: Numbers \cup {Unset}, settled: BOOLEAN] /\ claim'.value = claim.value /\ claim'.settled = given
    BY <1>0, <2>2, <2>3 DEF PointType
  <2>5. BeatType' /\ beat'.pc = "step" /\ beat'.row = stored
    BY <1>0, <2>1 DEF BeatType, NoBeat, PointType, PointRead
  <2>6. ClaimHeld'
    BY <1>0, <1>1, <1>2, <2>1, <2>4, <2>5 DEF ClaimHeld, given
  <2>7. ClaimServed'
    BY <1>1, <2>5 DEF ClaimServed
  <2>8. PointType' /\ Agrees(source)'
    BY <1>0, <1>1, <2>1, <2>4 DEF PointType, Agrees
  <2> QED BY <1>2, <2>5, <2>6, <2>7, <2>8 DEF PointInv
<1>4. ASSUME NEW v \in Numbers, TickSteps(v)
      PROVE  PointInv'
  <2>1. UNCHANGED <<liveObject, answer, claim>> /\ beat.pc = "step" /\ beat.row \in Row
    BY <1>0, <1>4 DEF TickSteps, BeatType
  <2>2. CASE claimed
    <3>1. source' = [source EXCEPT !.inner = NoBehavior, !.config = Unset] /\ beat' = [beat EXCEPT !.pc = "serve", !.value = v]
      BY <1>4, <2>2 DEF TickSteps
    <3>2. NoBehavior \in Behaviour
      BY DEF NoBehavior, Behaviour
    <3>3. source' \in Sources /\ source'.inner = NoBehavior
      BY <1>0, <3>1, <3>2 DEF Agrees, Sources
    <3>4. BeatType'
      BY <1>0, <2>1, <3>1 DEF BeatType, PointRead, Value
    <3>5. PointType' /\ Agrees(source)'
      BY <1>0, <1>1, <2>1, <3>3 DEF PointType, Agrees
    <3>6. ClaimHeld' /\ ClaimServed'
      BY <1>0, <1>1, <1>2, <2>1, <2>2 DEF ClaimHeld, ClaimServed
    <3> QED BY <1>2, <3>4, <3>5, <3>6 DEF PointInv
  <2>3. CASE ~claimed
    <3> DEFINE new == Synced(source, beat.row)
    <3>1. source' = new /\ beat' = [beat EXCEPT !.pc = "serve", !.value = new.inner.value]
      BY <1>4, <2>3 DEF TickSteps
    <3>2. /\ Agrees(new) /\ new.inner # NoBehavior
          /\ (new.inner.manual <=> (beat.row.behavior = "manual"))
          /\ (new.inner.manual /\ source.inner.manual => new.inner.value = source.inner.value)
          /\ (new.inner.manual /\ ~source.inner.manual => new.inner.value = beat.row.params)
      BY <1>0, <2>1, SyncedSource
    <3> HIDE DEF new
    <3>3. new.inner.value \in Numbers
      BY <3>2 DEF Agrees
    <3>4. BeatType' /\ beat'.pc = "serve" /\ beat'.value = new.inner.value
      BY <1>0, <2>1, <3>1, <3>3 DEF BeatType, PointRead, Value
    <3>5. PointType' /\ Agrees(source)'
      BY <1>0, <1>1, <2>1, <3>1, <3>2 DEF PointType, Agrees
    <3>6. claim.value # Unset => /\ (new.inner.manual => new.inner.value = claim.value)
                                 /\ (~new.inner.manual => stored.params = claim.value)
      BY <1>0, <2>1, <2>3, <3>2 DEF ClaimHeld
    <3>7. ClaimHeld'
      BY <1>0, <1>1, <1>2, <2>1, <3>1, <3>4, <3>6 DEF ClaimHeld
    <3>8. claim.settled => claim.value # Unset /\ beat.row.behavior = "manual"
      BY <1>0, <2>1, <2>3 DEF ClaimHeld, ClaimServed
    <3>9. ClaimServed'
      BY <1>1, <2>1, <3>2, <3>4, <3>6, <3>8 DEF ClaimServed
    <3> QED BY <1>2, <3>4, <3>5, <3>7, <3>9 DEF PointInv
  <2> QED BY <2>2, <2>3
<1>5. CASE TickServes
  <2> DEFINE v == IF claimed /\ beat.row.behavior = "manual" THEN source.kept.value ELSE beat.value
  <2>1. /\ beat.pc = "serve" /\ Serve(v) /\ beat' = [beat EXCEPT !.pc = "remember", !.value = InStates(v)]
        /\ UNCHANGED <<source, answer, claim>>
    BY <1>5 DEF TickServes
  <2>2. v \in Numbers
    BY <1>0, <2>1 DEF BeatType, Agrees, Sources
  <2>3. ~claimed => v = beat.value
    OBVIOUS
  <2> HIDE DEF v
  <2>4. v \in Value /\ InStates(v) \in PointRead
    BY <2>2, InStatesValue DEF Value, PointRead
  <2>5. /\ liveObject' \in [slots: [{Commanded, Least} -> PointRead], default: Value]
        /\ liveObject'.slots[Least] = InStates(v)
    BY <1>0, <2>1, <2>4, Served
  <2>6. BeatType' /\ beat'.pc = "remember" /\ beat'.value = InStates(v)
    BY <1>0, <2>1, <2>4 DEF BeatType
  <2>7. PointType' /\ Agrees(source)'
    BY <1>0, <1>1, <2>1, <2>5 DEF PointType, Agrees
  <2>8. ClaimHeld'
    BY <1>0, <1>1, <1>2, <2>1, <2>6 DEF ClaimHeld
  <2>9. ClaimServed'
    BY <1>0, <1>1, <2>1, <2>3, <2>5, <2>6 DEF ClaimServed
  <2> QED BY <1>2, <2>6, <2>7, <2>8, <2>9 DEF PointInv
<1>6. CASE TickRemembers
  <2>1. /\ beat.pc = "remember" /\ answer' = beat.value /\ beat' = NoBeat
        /\ UNCHANGED <<source, liveObject, claim>>
    BY <1>6 DEF TickRemembers
  <2>2. BeatType' /\ beat'.pc = "idle"
    BY <2>1 DEF BeatType, NoBeat, PointRead
  <2>3. PointType' /\ Agrees(source)'
    BY <1>0, <1>1, <2>1 DEF PointType, Agrees, BeatType
  <2>4. ClaimHeld'
    BY <1>0, <1>1, <1>2, <2>1, <2>2 DEF ClaimHeld
  <2>5. ClaimServed'
    BY <1>0, <1>1, <2>1, <2>2 DEF ClaimServed
  <2> QED BY <1>2, <2>2, <2>3, <2>4, <2>5 DEF PointInv
<1> QED BY <1>3, <1>4, <1>5, <1>6

(* WrittenIsServed: once a tick has begun after a write that no other one  *)
(* overlapped, a manual point is served with that value, for any values,   *)
(* writers, edits and whichever rows the ticks had read.                   *)
THEOREM WritesAreServed == PointValuesSpec => []WrittenIsServed
<1>1. PointValuesInit => PointInv
  <2> SUFFICES ASSUME PointValuesInit PROVE PointInv
    OBVIOUS
  <2>1. PICK n \in Numbers : stored = [behavior |-> "constant", params |-> n, manual |-> Unset]
    BY DEF PointValuesInit
  <2>2. stored \in Row /\ stored.params \in Value
    BY <2>1 DEF Row, Value
  <2>3. Agrees(source)
    <3>1. source = [config |-> stored, inner |-> Make(stored), kept |-> Make(stored), shared |-> TRUE]
      BY DEF PointValuesInit
    <3>2. source \in Sources /\ source.inner = Make(stored) /\ source.config = stored
      BY <2>2, <3>1, MakeBehaviour DEF Sources
    <3>3. Make(stored).value \in Numbers
      BY <2>2, MakeBehaviour
    <3> QED BY <2>2, <3>2, <3>3, MakeBehaviour DEF Agrees
  <2>4. PointType
    <3>1. [s \in {Commanded, Least} |-> Unset] \in [{Commanded, Least} -> PointRead]
      BY DEF PointRead
    <3> QED BY <2>2, <3>1, InStatesValue DEF PointValuesInit, PointType, PointRead, NoClaim
  <2>5. BeatType
    BY DEF PointValuesInit, BeatType, NoBeat, PointRead
  <2>6. CallsType /\ \A w \in PointWriters : pointCalls[w].pc = "idle"
    <3>1. CallType(NoCall) /\ NoCall.pc = "idle"
      BY DEF CallType, NoCall, Calls
    <3> QED BY <3>1 DEF PointValuesInit, CallsType, CallType
  <2>7. claim.value = Unset /\ ~claim.settled
    BY DEF PointValuesInit, NoClaim
  <2> QED BY <2>3, <2>4, <2>5, <2>6, <2>7 DEF PointInv, CallsAlone, ClaimHeld, ClaimServed
<1>2. PointInv /\ [PointValuesNext]_pointVars => PointInv'
  <2> SUFFICES ASSUME PointInv, [PointValuesNext]_pointVars PROVE PointInv'
    OBVIOUS
  <2>1. CASE UNCHANGED pointVars
    BY <2>1 DEF pointVars, PointInv, PointType, Agrees, BeatType, CallsType, CallsAlone, ClaimHeld, ClaimServed, NoWrite
  <2>2. CASE PointValuesNext
    BY <2>2, StartsKeepPoint, CallGoesOn, FinishKeepsPoint, ApplyKeepsPoint, CommandKeepsPoint, EditsKeepPoint,
       TickKeepsPoint DEF PointValuesNext
  <2> QED BY <2>1, <2>2
<1>3. PointInv => WrittenIsServed
  BY DEF PointInv, ClaimServed, WrittenIsServed, PointAtRest
<1> QED BY <1>1, <1>2, <1>3, PTL DEF PointValuesSpec

---------------------------------------------------------------------------
(* Site: parents lead to the top.  A set of locations that no parent leads *)
(* out of holds a cycle or is closed up to the top.                        *)
Closed(A) == A \in SUBSET Locations /\ \A x \in A : place[x] \in A \cup {NoPlace}

NoLoop == \A S \in SUBSET Locations : S # {} => \E x \in S : place[x] \notin S

(* Whoever looked saw everything above the new parent, and not the place   *)
(* itself.                                                                 *)
SeenAbove(l, above) ==
  \E A \in SUBSET used : Closed(A) /\ above \in A /\ l \notin A

PlacesTyped ==
  /\ place \in [Placed -> Locations \cup {NoPlace}]
  /\ rows \subseteq used
  /\ \A r \in Placed : place[r] = NoPlace \/ place[r] \in used
  /\ \A r \in Placed \ used : place[r] = NoPlace
  /\ looked \in [Callers -> {Idle} \cup (Locations \X {"under"} \X Locations) \cup (Nat \X {"isPartOf"} \X Nat)]

Straight ==
  /\ NoLoop
  /\ \A c \in Callers : looked[c] # Idle /\ looked[c][2] = "under" => SeenAbove(looked[c][1], looked[c][3])

TreeInv == PlacesTyped /\ (~raced => Straight)

(* The walk up: each round adds the parents of what was reached.           *)
Walks(up, l) ==
  /\ up \in [0..Cardinality(Locations) -> SUBSET (Locations \cup {NoPlace})]
  /\ up[0] = {l}
  /\ \A n \in 0..Cardinality(Locations) : n # 0 => up[n] = up[n - 1] \cup {place[x] : x \in up[n - 1] \ {NoPlace}}

(* The rounds of a walk are finitely many.                                 *)
LEMMA LocationsCounted == Cardinality(Locations) \in Nat
BY SiteAssumption, FS_CardinalityType

(* What Above computes is where a walk up the parents ends.                *)
LEMMA AboveIsWalk ==
  ASSUME PlacesTyped, NEW l \in Locations
  PROVE  \E up : Walks(up, l) /\ Above(l) = up[Cardinality(Locations)]
<1> DEFINE N == Cardinality(Locations)
           X == Locations \cup {NoPlace}
           step == [s \in SUBSET X |-> s \cup {place[x] : x \in s \ {NoPlace}}]
           Is(up) == up = [n \in 0..N |-> IF n = 0 THEN {l} ELSE up[n - 1] \cup {place[x] : x \in up[n - 1] \ {NoPlace}}]
           up == CHOOSE up : Is(up)
<1>0. N \in Nat
  BY LocationsCounted
<1>1. \A s \in SUBSET X : \A x \in s \ {NoPlace} : place[x] \in X
  BY DEF PlacesTyped, Placed
<1>2. step \in [SUBSET X -> SUBSET X] /\ {l} \in SUBSET X
  BY <1>1
<1>3. PICK h \in [0..N -> SUBSET X] : Iterates(N, {l}, step, h)
  <2> HIDE DEF step, X, N
  <2>1. \A base \in SUBSET X : \E h \in [0..N -> SUBSET X] : Iterates(N, base, step, h)
    BY <1>0, <1>2, IteratesExist
  <2> QED BY <1>2, <2>1
<1>4. Is(h)
  <2>1. ASSUME NEW n \in 0..N
        PROVE  h[n] = IF n = 0 THEN {l} ELSE h[n - 1] \cup {place[x] : x \in h[n - 1] \ {NoPlace}}
    <3>1. CASE n = 0
      BY <1>3, <3>1 DEF Iterates
    <3>2. CASE n # 0
      <4>1. n - 1 \in 0..N /\ n \in 1..N
        BY <1>0, <3>2
      <4>2. h[n - 1] \in SUBSET X
        BY <4>1
      <4>3. h[n] = step[h[n - 1]]
        BY <1>3, <4>1 DEF Iterates
      <4> QED BY <3>2, <4>2, <4>3
    <3> QED BY <3>1, <3>2
  <2> QED BY <2>1
<1>5. Is(up)
  <2> HIDE DEF Is
  <2> QED BY <1>4
<1>6. Above(l) = up[N]
  BY DEF Above
<1> HIDE DEF up
<1>7. \A n \in 0..N : up[n] = IF n = 0 THEN {l} ELSE up[n - 1] \cup {place[x] : x \in up[n - 1] \ {NoPlace}}
  BY <1>5
<1>8. DOMAIN up = 0..N /\ up = [n \in 0..N |-> up[n]]
  BY <1>5
<1>10. up[0] = {l}
  <2>1. 0 \in 0..N
    BY <1>0
  <2>2. up[0] = IF 0 = 0 THEN {l} ELSE up[0 - 1] \cup {place[x] : x \in up[0 - 1] \ {NoPlace}}
    <3> HIDE DEF N
    <3> QED BY <1>7, <2>1, Zenon
  <2> QED BY <2>2
<1>9. \A n \in 0..N : up[n] \in SUBSET X
  <2> DEFINE good == {n \in Nat : n <= N => up[n] \in SUBSET X}
  <2>1. 0 \in good
    BY <1>10
  <2>2. ASSUME NEW n \in good PROVE n + 1 \in good
    <3> SUFFICES ASSUME n + 1 <= N PROVE up[n + 1] \in SUBSET X
      OBVIOUS
    <3>1. n + 1 \in 0..N /\ n + 1 # 0 /\ (n + 1) - 1 = n /\ up[n] \in SUBSET X
      BY <1>0, <2>2
    <3>2. up[n + 1] = up[n] \cup {place[x] : x \in up[n] \ {NoPlace}}
      BY <1>7, <3>1
    <3> QED BY <1>1, <3>1, <3>2
  <2>3. good = Nat
    <3> HIDE DEF good
    <3>1. good \in SUBSET Nat
      BY DEF good
    <3> QED BY <2>1, <2>2, <3>1, SetInduction
  <2> QED BY <1>0, <2>3
<1>11. Walks(up, l)
  BY <1>7, <1>8, <1>9, <1>10 DEF Walks
<1> QED BY <1>6, <1>11

(* A walk does not leave what is closed.                                   *)
LEMMA WalkStays ==
  ASSUME NEW up, NEW l \in Locations, Walks(up, l), NEW C, Closed(C), l \in C
  PROVE  \A n \in 0..Cardinality(Locations) : up[n] \subseteq C \cup {NoPlace}
<1> DEFINE N == Cardinality(Locations)
           good == {n \in Nat : n <= N => up[n] \subseteq C \cup {NoPlace}}
<1>0. N \in Nat
  BY LocationsCounted
<1>1. 0 \in good
  BY DEF Walks
<1>2. ASSUME NEW n \in good PROVE n + 1 \in good
  <2> SUFFICES ASSUME n + 1 <= N PROVE up[n + 1] \subseteq C \cup {NoPlace}
    OBVIOUS
  <2>1. n + 1 \in 0..N /\ n + 1 # 0 /\ (n + 1) - 1 = n /\ up[n] \subseteq C \cup {NoPlace}
    BY <1>0, <1>2
  <2>2. up[n + 1] = up[n] \cup {place[x] : x \in up[n] \ {NoPlace}}
    BY <2>1 DEF Walks
  <2> QED BY <2>1, <2>2 DEF Closed
<1>3. good = Nat
  <2> HIDE DEF good
  <2>1. good \in SUBSET Nat
    BY DEF good
  <2> QED BY <1>1, <1>2, <2>1, SetInduction
<1> QED BY <1>0, <1>3

(* A location above its own parent is on a loop: of those that every       *)
(* closed set holds together with it.                                      *)
LEMMA CycleIsLoop ==
  ASSUME PlacesTyped, NEW l \in Locations, OnCycle(l)
  PROVE  ~NoLoop
<1> DEFINE p == place[l]
           Reaches(x) == \A C \in SUBSET Locations : Closed(C) /\ x \in C => l \in C
           S == {x \in Locations : Reaches(x)}
<1>1. p \in Locations /\ p # NoPlace /\ l \in Above(p) /\ l \in Placed
  BY DEF OnCycle, PlacesTyped, Placed
<1>2. p \in S
  <2> SUFFICES ASSUME NEW C \in SUBSET Locations, Closed(C), p \in C PROVE l \in C
    BY <1>1
  <2>1. PICK up : Walks(up, p) /\ Above(p) = up[Cardinality(Locations)]
    <3> HIDE DEF p
    <3> QED BY <1>1, AboveIsWalk
  <2>2. Cardinality(Locations) \in 0..Cardinality(Locations)
    BY LocationsCounted
  <2>3. Above(p) \subseteq C \cup {NoPlace}
    <3> HIDE DEF p
    <3> QED BY <1>1, <2>1, <2>2, WalkStays
  <2>4. l # NoPlace
    BY SiteAssumption
  <2> QED BY <1>1, <2>3, <2>4
<1>3. ASSUME NEW x \in S PROVE place[x] \in S
  <2>1. x \in Locations /\ x \in Placed /\ place[x] \in Locations \cup {NoPlace}
    BY DEF PlacesTyped, Placed
  <2>2. CASE x = l
    BY <1>2, <2>2
  <2>3. CASE x # l
    <3>1. place[x] # NoPlace
      <4> SUFFICES ASSUME place[x] = NoPlace PROVE FALSE
        OBVIOUS
      <4>1. Closed({x})
        BY <2>1 DEF Closed
      <4> QED BY <2>1, <2>3, <4>1
    <3>2. ASSUME NEW C \in SUBSET Locations, Closed(C), place[x] \in C PROVE l \in C
      <4>1. Closed(C \cup {x})
        BY <2>1, <3>2 DEF Closed
      <4>2. Reaches(x)
        OBVIOUS
      <4>3. l \in C \cup {x}
        <5>1. C \cup {x} \in SUBSET Locations
          BY <2>1
        <5> QED BY <4>1, <4>2, <5>1
      <4> QED BY <2>3, <4>3
    <3> QED BY <2>1, <3>1, <3>2
  <2> QED BY <2>2, <2>3
<1>4. S \in SUBSET Locations /\ S # {}
  BY <1>2
<1> HIDE DEF S
<1> QED BY <1>3, <1>4 DEF NoLoop

(* As many rounds as there are locations reach everything above: as long   *)
(* as something is left out, each round adds one.                          *)
LEMMA AboveIsClosed ==
  ASSUME PlacesTyped, NEW l \in Locations
  PROVE  Closed(Above(l) \ {NoPlace}) /\ l \in Above(l) \ {NoPlace}
<1> DEFINE N == Cardinality(Locations)
<1>0. N \in Nat
  BY LocationsCounted
<1>1. PICK up : Walks(up, l) /\ Above(l) = up[N]
  BY AboveIsWalk
<1> DEFINE reached(n) == up[n] \ {NoPlace}
           Grown(n) == Closed(reached(n)) \/ Cardinality(reached(n)) > n
           good == {n \in Nat : n <= N => l \in reached(n) /\ Grown(n)}
<1>2. \A n \in 0..N : reached(n) \in SUBSET Locations
  BY <1>1 DEF Walks
<1>3. \A n \in 0..N : IsFiniteSet(reached(n)) /\ Cardinality(reached(n)) \in Nat /\ Cardinality(reached(n)) <= N
  <2> SUFFICES ASSUME NEW n \in 0..N
               PROVE  IsFiniteSet(reached(n)) /\ Cardinality(reached(n)) \in Nat /\ Cardinality(reached(n)) <= N
    OBVIOUS
  <2> DEFINE R == reached(n)
  <2>1. R \in SUBSET Locations
    BY <1>2
  <2> HIDE DEF R
  <2>2. IsFiniteSet(R) /\ Cardinality(R) <= N
    BY <2>1, SiteAssumption, FS_Subset
  <2>3. Cardinality(R) \in Nat
    BY <2>2, FS_CardinalityType
  <2> QED BY <2>2, <2>3 DEF R
<1>4. 0 \in good
  <2>1. up[0] = {l} /\ l # NoPlace
    BY <1>1, SiteAssumption DEF Walks
  <2>2. reached(0) = {l}
    BY <2>1
  <2>3. Cardinality({l}) = 1
    BY FS_Singleton
  <2> HIDE DEF reached
  <2> QED BY <2>2, <2>3
<1>5. ASSUME NEW n \in good PROVE n + 1 \in good
  <2> SUFFICES ASSUME n + 1 <= N PROVE l \in reached(n + 1) /\ Grown(n + 1)
    OBVIOUS
  <2>1. n \in Nat /\ n \in 0..N /\ n + 1 \in 0..N /\ n + 1 # 0 /\ (n + 1) - 1 = n
    BY <1>0, <1>5
  <2>2. up[n + 1] = up[n] \cup {place[x] : x \in up[n] \ {NoPlace}}
    BY <1>1, <2>1 DEF Walks
  <2>3. l \in reached(n) /\ Grown(n)
    BY <1>5, <2>1
  <2>4. reached(n) \subseteq reached(n + 1)
    BY <2>2
  <2>5. CASE Closed(reached(n))
    <3>1. reached(n + 1) = reached(n)
      BY <2>2, <2>5 DEF Closed
    <3> QED BY <2>3, <2>5, <3>1
  <2>6. CASE ~Closed(reached(n))
    <3>1. PICK x \in reached(n) : place[x] \notin reached(n) \cup {NoPlace}
      BY <1>2, <2>1, <2>6 DEF Closed
    <3>2. place[x] \in reached(n + 1) \ reached(n)
      BY <2>2, <3>1
    <3>3. Cardinality(reached(n + 1)) > n + 1
      <4> DEFINE small == reached(n)
                 large == reached(n + 1)
      <4>1. /\ IsFiniteSet(small) /\ IsFiniteSet(large) /\ small \subseteq large /\ small # large
            /\ Cardinality(small) \in Nat /\ Cardinality(large) \in Nat /\ Cardinality(small) > n
        BY <1>3, <2>1, <2>3, <2>4, <2>6, <3>2
      <4> HIDE DEF small, large
      <4>2. Cardinality(small) < Cardinality(large)
        BY <4>1, FS_Subset
      <4>3. Cardinality(large) > n + 1
        BY <2>1, <4>1, <4>2
      <4> QED BY <4>3 DEF large
    <3> QED BY <2>3, <2>4, <3>3
  <2> QED BY <2>5, <2>6
<1>6. good = Nat
  <2> HIDE DEF good
  <2>1. good \in SUBSET Nat
    BY DEF good
  <2> QED BY <1>4, <1>5, <2>1, SetInduction
<1>7. l \in reached(N) /\ Grown(N)
  BY <1>0, <1>6
<1>8. ~(Cardinality(reached(N)) > N)
  <2>1. N \in 0..N
    BY <1>0
  <2>2. Cardinality(reached(N)) \in Nat /\ Cardinality(reached(N)) <= N
    BY <1>3, <2>1
  <2> DEFINE many == Cardinality(reached(N))
  <2> HIDE DEF many, N
  <2>3. many \in Nat /\ many <= N
    BY <2>2 DEF many
  <2>4. ~(many > N)
    BY <1>0, <2>3
  <2> QED BY <2>4 DEF many
<1> QED BY <1>1, <1>7, <1>8

(* What was seen stays seen while only unused locations get a parent.      *)
LEMMA LooksKeep ==
  ASSUME PlacesTyped, Straight, used \subseteq used',
         \A x \in Locations \cap used : place'[x] \in {place[x], NoPlace},
         \A c \in Callers : looked'[c] \in {looked[c], Idle}
  PROVE  \A c \in Callers : looked'[c] # Idle /\ looked'[c][2] = "under" =>
           SeenAbove(looked[c][1], looked[c][3])'
<1> SUFFICES ASSUME NEW c \in Callers, looked'[c] # Idle, looked'[c][2] = "under"
             PROVE  SeenAbove(looked[c][1], looked[c][3])'
  OBVIOUS
<1>1. looked'[c] = looked[c]
  OBVIOUS
<1>2. SeenAbove(looked[c][1], looked[c][3])
  BY <1>1 DEF Straight
<1>3. PICK A \in SUBSET used : Closed(A) /\ looked[c][3] \in A /\ looked[c][1] \notin A
  BY <1>2 DEF SeenAbove
<1>4. Closed(A)'
  BY <1>3 DEF Closed
<1> QED BY <1>1, <1>3, <1>4 DEF SeenAbove

(* Parents that stay or go make no loop.                                   *)
LEMMA LoopKeeps ==
  ASSUME NoLoop, \A x \in Locations : place'[x] \in {place[x], NoPlace}
  PROVE  NoLoop'
<1> SUFFICES ASSUME NEW S \in SUBSET Locations, S # {} PROVE \E x \in S : place'[x] \notin S
  BY DEF NoLoop
<1>1. PICK x \in S : place[x] \notin S
  BY DEF NoLoop
<1>2. NoPlace \notin S
  BY SiteAssumption
<1> QED BY <1>1, <1>2

(* So nothing is lost by what changes no parent of a location.             *)
LEMMA TreeStays ==
  ASSUME TreeInv, PlacesTyped', used \subseteq used', raced => raced',
         \A x \in Locations : place'[x] \in {place[x], NoPlace},
         \A c \in Callers : looked'[c] \in {looked[c], Idle}
  PROVE  TreeInv'
<1> SUFFICES ASSUME ~raced' PROVE Straight'
  BY DEF TreeInv
<1>1. PlacesTyped /\ Straight /\ NoLoop
  BY DEF TreeInv, Straight
<1>2. NoLoop'
  BY <1>1, LoopKeeps
<1>3. \A c \in Callers : looked'[c] # Idle /\ looked'[c][2] = "under" =>
        SeenAbove(looked[c][1], looked[c][3])'
  BY <1>1, LooksKeep
<1> QED BY <1>2, <1>3 DEF Straight

(* Rows that are at no place come and go.                                  *)
LEMMA RowsStay ==
  ASSUME TreeInv, used \subseteq used', rows' \subseteq used', raced => raced', UNCHANGED place,
         looked' = looked \/ looked' = [c \in Callers |-> Idle]
  PROVE  TreeInv'
<1>1. PlacesTyped
  BY DEF TreeInv
<1>2. looked' \in [Callers -> {Idle} \cup (Locations \X {"under"} \X Locations) \cup (Nat \X {"isPartOf"} \X Nat)]
  BY <1>1 DEF PlacesTyped
<1>3. PlacesTyped'
  BY <1>1, <1>2 DEF PlacesTyped
<1> QED BY <1>3, TreeStays

(* A device or a piece of equipment is put at a place.                     *)
LEMMA PutAtPlace ==
  ASSUME TreeInv, NEW r \in Devices \cup Equipment, NEW l, AtPlace(l),
         rows' = rows \cup {r}, used' = used \cup {r}, place' = [place EXCEPT ![r] = l],
         UNCHANGED <<looked, raced>>
  PROVE  TreeInv'
<1>1. PlacesTyped /\ r \in Placed /\ r \notin Locations
  BY SiteAssumption DEF TreeInv, Placed
<1>2. l \in Locations \cup {NoPlace} /\ (l = NoPlace \/ l \in used)
  BY <1>1 DEF AtPlace, PlacesTyped
<1>3. PlacesTyped'
  BY <1>1, <1>2 DEF PlacesTyped
<1>4. \A x \in Locations : place'[x] = place[x]
  BY <1>1 DEF PlacesTyped, Placed
<1> QED BY <1>3, <1>4, TreeStays

(* A new location has nothing below it.                                    *)
LEMMA NewLocation ==
  ASSUME TreeInv, NEW l \in Locations, l \notin used, NEW above, AtPlace(above),
         rows' = rows \cup {l}, used' = used \cup {l}, place' = [place EXCEPT ![l] = above],
         UNCHANGED <<looked, raced>>
  PROVE  TreeInv'
<1>1. PlacesTyped /\ l \in Placed
  BY DEF TreeInv, Placed
<1>2. above \in Locations \cup {NoPlace} /\ (above = NoPlace \/ above \in used) /\ above # l
  BY <1>1, SiteAssumption DEF AtPlace, PlacesTyped
<1>3. PlacesTyped'
  BY <1>1, <1>2 DEF PlacesTyped
<1>4. \A x \in Locations : x # l => place'[x] = place[x]
  BY <1>1 DEF PlacesTyped, Placed
<1>5. place'[l] = above
  BY <1>1 DEF PlacesTyped
<1>6. ASSUME ~raced PROVE Straight'
  <2>1. Straight /\ NoLoop
    BY <1>6 DEF TreeInv, Straight
  <2>2. NoLoop'
    <3> SUFFICES ASSUME NEW S \in SUBSET Locations, S # {} PROVE \E x \in S : place'[x] \notin S
      BY DEF NoLoop
    <3>1. CASE S = {l}
      BY <1>2, <1>5, <3>1
    <3>2. CASE S # {l}
      <4>1. PICK x \in S \ {l} : place[x] \notin S \ {l}
        BY <2>1, <3>2 DEF NoLoop
      <4>2. place[x] # l
        BY <1>1, <4>1, SiteAssumption DEF PlacesTyped, Placed
      <4> QED BY <1>4, <4>1, <4>2
    <3> QED BY <3>1, <3>2
  <2>3. \A c \in Callers : looked'[c] # Idle /\ looked'[c][2] = "under" =>
          SeenAbove(looked[c][1], looked[c][3])'
    BY <1>1, <1>4, <2>1, LooksKeep
  <2> QED BY <2>2, <2>3 DEF Straight
<1> QED BY <1>3, <1>6 DEF TreeInv

(* Nor has a new building, but for its levels.                             *)
LEMMA NewLevels ==
  ASSUME TreeInv, NEW building \in Locations, NEW levels \in SUBSET Locations,
         building \notin used, \A l \in levels : l \notin used /\ l # building,
         rows' = rows \cup (levels \cup {building}), used' = used \cup (levels \cup {building}),
         place' = [r \in Placed |-> IF r \in levels THEN building ELSE place[r]],
         UNCHANGED <<looked, raced>>
  PROVE  TreeInv'
<1>1. PlacesTyped /\ \A l \in Locations : l \in Placed
  BY DEF TreeInv, Placed
<1>2. PlacesTyped'
  BY <1>1 DEF PlacesTyped
<1>3. /\ \A x \in Locations \ levels : place'[x] = place[x]
      /\ \A x \in levels : place'[x] = building
      /\ place'[building] = NoPlace
  BY <1>1 DEF PlacesTyped
<1>4. ASSUME ~raced PROVE Straight'
  <2>1. Straight /\ NoLoop
    BY <1>4 DEF TreeInv, Straight
  <2>2. NoLoop'
    <3> SUFFICES ASSUME NEW S \in SUBSET Locations, S # {} PROVE \E x \in S : place'[x] \notin S
      BY DEF NoLoop
    <3>1. CASE building \in S
      BY <1>3, <3>1, SiteAssumption
    <3>2. CASE building \notin S /\ S \cap levels # {}
      BY <1>3, <3>2
    <3>3. CASE S \cap levels = {}
      <4>1. PICK x \in S : place[x] \notin S
        BY <2>1 DEF NoLoop
      <4> QED BY <1>3, <3>3, <4>1
    <3> QED BY <3>1, <3>2, <3>3
  <2>3. \A c \in Callers : looked'[c] # Idle /\ looked'[c][2] = "under" =>
          SeenAbove(looked[c][1], looked[c][3])'
    <3>1. \A x \in Locations \cap used : place'[x] = place[x]
      BY <1>3
    <3> QED BY <1>1, <2>1, <3>1, LooksKeep
  <2> QED BY <2>2, <2>3 DEF Straight
<1> QED BY <1>2, <1>4 DEF TreeInv

(* A look finds what the move then needs.                                  *)
LEMMA LookFinds ==
  ASSUME TreeInv, NEW c \in Callers, NEW l \in Locations, NEW above \in Locations, LookAbove(c, l, above)
  PROVE  TreeInv'
<1>1. PlacesTyped /\ above \in used
  BY DEF TreeInv, LookAbove, PlacesTyped
<1>2. /\ looked' = [looked EXCEPT ![c] = <<l, "under", above>>] /\ l \notin Above(above)
      /\ UNCHANGED <<rows, used, place, raced>>
  BY DEF LookAbove
<1>3. PlacesTyped'
  <2>1. <<l, "under", above>> \in Locations \X {"under"} \X Locations
    OBVIOUS
  <2>2. looked' \in [Callers -> {Idle} \cup (Locations \X {"under"} \X Locations) \cup (Nat \X {"isPartOf"} \X Nat)]
    BY <1>1, <1>2, <2>1 DEF PlacesTyped
  <2> QED BY <1>1, <1>2, <2>2 DEF PlacesTyped
<1>4. ASSUME ~raced PROVE Straight'
  <2>1. Straight
    BY <1>4 DEF TreeInv
  <2>2. NoLoop'
    BY <1>2, <2>1 DEF Straight, NoLoop
  <2>3. SeenAbove(l, above)
    <3> DEFINE A == (Above(above) \ {NoPlace}) \cap used
    <3>1. Closed(Above(above) \ {NoPlace}) /\ above \in Above(above) \ {NoPlace}
      BY <1>1, AboveIsClosed
    <3>2. Closed(A)
      <4>1. \A x \in A : x \in Placed /\ place[x] \in {NoPlace} \cup used
        BY <1>1, <3>1 DEF Closed, PlacesTyped, Placed
      <4> QED BY <3>1, <4>1 DEF Closed
    <3> QED BY <1>1, <1>2, <3>1, <3>2 DEF SeenAbove
  <2>4. ASSUME NEW q \in Callers, looked'[q] # Idle, looked'[q][2] = "under"
        PROVE  SeenAbove(looked[q][1], looked[q][3])'
    <3>1. CASE q = c
      <4>1. looked'[q] = <<l, "under", above>>
        BY <1>1, <1>2, <3>1 DEF PlacesTyped
      <4>2. looked'[q][1] = l /\ looked'[q][3] = above
        BY <4>1
      <4> QED BY <1>2, <2>3, <4>2 DEF SeenAbove, Closed
    <3>2. CASE q # c
      <4>1. looked'[q] = looked[q]
        BY <1>1, <1>2, <3>2 DEF PlacesTyped
      <4>2. SeenAbove(looked[q][1], looked[q][3])
        BY <2>1, <2>4, <4>1 DEF Straight
      <4> QED BY <1>2, <4>1, <4>2 DEF SeenAbove, Closed
    <3> QED BY <3>1, <3>2
  <2> QED BY <2>2, <2>4 DEF Straight
<1> QED BY <1>2, <1>3, <1>4 DEF TreeInv

(* A move closes no loop when nobody else has looked since.                *)
LEMMA MoveIsStraight ==
  ASSUME TreeInv, NEW c \in Callers, NEW class, MoveLocation(c, class)
  PROVE  TreeInv'
<1> DEFINE l == looked[c][1]
           above == looked[c][3]
<1>1. PlacesTyped
  BY DEF TreeInv
<1>2. looked[c] # Idle /\ looked[c][2] = "under" /\ looked' = [looked EXCEPT ![c] = Idle]
  BY DEF MoveLocation
<1>3. l \in Locations /\ above \in Locations
  <2>1. looked[c] \in (Locations \X {"under"} \X Locations) \cup (Nat \X {"isPartOf"} \X Nat)
    BY <1>1, <1>2 DEF PlacesTyped
  <2>2. looked[c] \in Nat \X {"isPartOf"} \X Nat => looked[c][2] = "isPartOf"
    OBVIOUS
  <2>3. looked[c] \in Locations \X {"under"} \X Locations
    BY <1>2, <2>1, <2>2
  <2> QED BY <2>3
<1>4. \A q \in Callers : looked'[q] = IF q = c THEN Idle ELSE looked[q]
  BY <1>1, <1>2 DEF PlacesTyped
<1>5. looked' \in [Callers -> {Idle} \cup (Locations \X {"under"} \X Locations) \cup (Nat \X {"isPartOf"} \X Nat)]
  BY <1>1, <1>2 DEF PlacesTyped
<1>6. CASE ~({l, above} \subseteq rows)
  <2>1. UNCHANGED <<rows, used, place, raced>>
    BY <1>6 DEF MoveLocation
  <2>2. PlacesTyped'
    BY <1>1, <1>5, <2>1 DEF PlacesTyped
  <2> QED BY <1>4, <2>1, <2>2, TreeStays
<1>7. CASE {l, above} \subseteq rows
  <2>1. /\ rows' = rows \cup {l} /\ used' = used \cup {l} /\ place' = [place EXCEPT ![l] = above]
        /\ raced' = (raced \/ Others(c))
    BY <1>7 DEF MoveLocation, LocationRow, Saved
  <2>2. l \in Placed /\ l \in used /\ above \in used
    BY <1>1, <1>3, <1>7 DEF PlacesTyped, Placed
  <2> HIDE DEF l, above
  <2>3. PlacesTyped'
    BY <1>1, <1>3, <1>5, <2>1, <2>2 DEF PlacesTyped
  <2>4. /\ \A x \in Locations \ {l} : place'[x] = place[x]
        /\ place'[l] = above
    BY <1>1, <2>1, <2>2 DEF PlacesTyped, Placed
  <2>5. ASSUME ~raced' PROVE Straight'
    <3>1. Straight /\ ~Others(c)
      BY <2>1, <2>5 DEF TreeInv
    <3>2. PICK A \in SUBSET used : Closed(A) /\ above \in A /\ l \notin A
      <4>1. SeenAbove(looked[c][1], looked[c][3])
        BY <1>2, <3>1 DEF Straight
      <4> QED BY <4>1 DEF SeenAbove, l, above
    <3>3. NoLoop'
      <4> SUFFICES ASSUME NEW S \in SUBSET Locations, S # {}, \A x \in S : place'[x] \in S PROVE FALSE
        BY DEF NoLoop
      <4>1. CASE l \notin S
        <5>1. PICK x \in S : place[x] \notin S
          BY <3>1 DEF Straight, NoLoop
        <5> QED BY <2>4, <4>1, <5>1
      <4>2. CASE l \in S
        <5>1. above \in S \cap A
          BY <2>4, <3>2, <4>2
        <5>2. PICK x \in S \cap A : place[x] \notin S \cap A
          BY <3>1, <5>1 DEF Straight, NoLoop
        <5>3. place[x] \in S
          BY <2>4, <3>2, <5>2
        <5>4. place[x] \in A
          BY <3>2, <5>2, <5>3, SiteAssumption DEF Closed
        <5> QED BY <5>2, <5>3, <5>4
      <4> QED BY <4>1, <4>2
    <3>4. \A q \in Callers : looked'[q] = Idle
      BY <1>4, <3>1 DEF Others
    <3> QED BY <3>3, <3>4 DEF Straight
  <2> QED BY <2>3, <2>5 DEF TreeInv
<1> QED BY <1>6, <1>7

(* Deleted rows leave no new way around.                                   *)
LEMMA RemovalKeepsTree ==
  ASSUME TreeInv, NEW rs, RemoveRows(rs)
  PROVE  TreeInv'
<1>1. /\ PlacesTyped /\ rows' = rows \ Gone(rs) /\ UNCHANGED <<used, looked, raced>>
      /\ place' = [r \in Placed |-> IF r \in rs THEN NoPlace ELSE place[r]]
  BY DEF TreeInv, RemoveRows
<1>2. PlacesTyped'
  BY <1>1 DEF PlacesTyped
<1>3. \A x \in Locations : place'[x] \in {place[x], NoPlace}
  BY <1>1 DEF Placed
<1> QED BY <1>1, <1>2, <1>3, TreeStays

(* The steps of the relationships of the graph leave the tree alone.       *)
LEMMA PartsKeepTree ==
  ASSUME TreeInv, NEW c \in Callers,
         \/ StorePart(c)
         \/ graph.last \in Nat /\ \E e, whole \in 1..graph.last : LookForParts(c, e, whole)
  PROVE  TreeInv'
<1>1. PlacesTyped /\ UNCHANGED <<rows, used, place>>
  BY DEF TreeInv, StorePart, LookForParts
<1>2. CASE StorePart(c)
  <2>1. looked' = [looked EXCEPT ![c] = Idle] /\ (raced => raced')
    BY <1>2 DEF StorePart
  <2>2. \A q \in Callers : looked'[q] \in {looked[q], Idle}
    BY <1>1, <2>1 DEF PlacesTyped
  <2>3. PlacesTyped'
    BY <1>1, <2>1 DEF PlacesTyped
  <2> QED BY <1>1, <2>1, <2>2, <2>3, TreeStays
<1>3. ASSUME graph.last \in Nat, NEW e \in 1..graph.last, NEW whole \in 1..graph.last, LookForParts(c, e, whole)
      PROVE  TreeInv'
  <2>1. looked' = [looked EXCEPT ![c] = <<e, "isPartOf", whole>>] /\ UNCHANGED raced
    BY <1>3 DEF LookForParts
  <2>2. e \in Nat /\ whole \in Nat
    BY <1>3
  <2>3. PlacesTyped'
    <3>1. <<e, "isPartOf", whole>> \in Nat \X {"isPartOf"} \X Nat
      BY <2>2
    <3>2. looked' \in [Callers -> {Idle} \cup (Locations \X {"under"} \X Locations) \cup (Nat \X {"isPartOf"} \X Nat)]
      BY <1>1, <2>1, <3>1 DEF PlacesTyped
    <3> QED BY <1>1, <3>2 DEF PlacesTyped
  <2>4. ASSUME ~raced PROVE Straight'
    <3>1. Straight
      BY <2>4 DEF TreeInv
    <3>2. NoLoop'
      BY <1>1, <3>1 DEF Straight, NoLoop
    <3>3. ASSUME NEW q \in Callers, looked'[q] # Idle, looked'[q][2] = "under"
          PROVE  SeenAbove(looked[q][1], looked[q][3])'
      <4>1. q # c
        <5>1. looked'[c] = <<e, "isPartOf", whole>>
          BY <1>1, <2>1 DEF PlacesTyped
        <5> QED BY <3>3, <5>1
      <4>2. looked'[q] = looked[q]
        BY <1>1, <2>1, <4>1 DEF PlacesTyped
      <4>3. SeenAbove(looked[q][1], looked[q][3])
        BY <3>1, <3>3, <4>2 DEF Straight
      <4> QED BY <1>1, <4>2, <4>3 DEF SeenAbove, Closed
    <3> QED BY <3>2, <3>3 DEF Straight
  <2> QED BY <2>1, <2>3, <2>4 DEF TreeInv
<1> QED BY <1>2, <1>3

(* Every step keeps what is known of the parents.                          *)
LEMMA TreeStep ==
  ASSUME TreeInv, graph.last \in Nat, [SiteNext]_siteVars
  PROVE  TreeInv'
<1>0. PlacesTyped /\ rows \subseteq used
  BY DEF TreeInv, PlacesTyped
<1>1. ASSUME NEW class \in Classes \cup {NoClass}, NEW o \in Objects,
             CreateObject(o, class) \/ UpdateObject(o, class)
      PROVE  TreeInv'
  BY <1>0, <1>1, RowsStay DEF CreateObject, UpdateObject, ObjectRow, Saved
<1>2. ASSUME NEW class \in Classes \cup {NoClass}, NEW l \in Locations \cup {NoPlace}, NEW d \in Devices,
             CreateDevice(d, l, class) \/ UpdateDevice(d, l, class)
      PROVE  TreeInv'
  BY <1>2, PutAtPlace DEF CreateDevice, UpdateDevice, DeviceRow, Saved
<1>3. ASSUME NEW class \in Classes \cup {NoClass}, NEW l \in Locations \cup {NoPlace}, NEW q \in Equipment,
             CreateEquipment(q, l, class) \/ UpdateEquipment(q, l, class)
      PROVE  TreeInv'
  BY <1>3, PutAtPlace DEF CreateEquipment, UpdateEquipment, EquipmentRow, Saved
<1>4. ASSUME NEW class \in Classes \cup {NoClass}, NEW l \in Locations \cup {NoPlace}, NEW x \in Locations,
             CreateLocation(x, l, class)
      PROVE  TreeInv'
  BY <1>4, NewLocation DEF CreateLocation, LocationRow, Saved, New
<1>5. ASSUME NEW class \in Classes \cup {NoClass}, NEW c \in Callers, MoveLocation(c, class)
      PROVE  TreeInv'
  BY <1>5, MoveIsStraight
<1>6. ASSUME NEW d \in Devices, DiscoverDevice(d) PROVE TreeInv'
  BY <1>0, <1>6, RowsStay DEF DiscoverDevice, Saved
<1>7. ASSUME NEW o \in Objects, DiscoverObject(o) \/ ImportObject(o) PROVE TreeInv'
  BY <1>0, <1>7, RowsStay DEF DiscoverObject, ImportObject, Saved
<1>8. ASSUME NEW d \in Devices, DeleteDevice(d) PROVE TreeInv'
  BY <1>8, RemovalKeepsTree DEF DeleteDevice
<1>9. ASSUME NEW o \in Objects, DeleteObject(o) PROVE TreeInv'
  BY <1>9, RemovalKeepsTree DEF DeleteObject
<1>10. ASSUME NEW q \in Equipment, DeleteEquipment(q) PROVE TreeInv'
  BY <1>10, RemovalKeepsTree DEF DeleteEquipment
<1>11. ASSUME NEW l \in Locations, NEW levels \in SUBSET Locations, NEW class \in Classes,
              GenerateLevels(l, levels, class)
       PROVE  TreeInv'
  BY <1>11, NewLevels DEF GenerateLevels, Saved, New
<1>12. ASSUME NEW c \in Callers, NEW l \in Locations, NEW above \in Locations, LookAbove(c, l, above)
       PROVE  TreeInv'
  BY <1>12, LookFinds
<1>13. ASSUME NEW r \in SiteRows, Pin(r) PROVE TreeInv'
  BY <1>0, <1>13, RowsStay DEF Pin
<1>14. ASSUME NEW l \in Locations, DeleteLocation(l) \/ DeleteSubtree(l) PROVE TreeInv'
  BY <1>14, RemovalKeepsTree DEF DeleteLocation, DeleteSubtree
<1>15. ASSUME NEW kind \in Kinds, NEW row \in SiteRows, NEW class \in Classes,
              \/ CreateEntity(kind, row, class)
              \/ \E e \in graph.entities : UpdateEntity(e, kind, row, class)
       PROVE  TreeInv'
  BY <1>0, <1>15, RowsStay DEF CreateEntity, UpdateEntity
<1>16. ASSUME NEW d \in Devices, NEW class \in Classes, MarkController(d, class) PROVE TreeInv'
  BY <1>0, <1>16, RowsStay DEF MarkController
<1>17. ASSUME NEW e \in graph.entities, DeleteEntity(e) PROVE TreeInv'
  BY <1>0, <1>17, RowsStay DEF DeleteEntity
<1>18. ASSUME NEW c \in Callers, StorePart(c) \/ \E e, whole \in 1..graph.last : LookForParts(c, e, whole)
       PROVE  TreeInv'
  BY <1>18, PartsKeepTree
<1>19. ASSUME NEW x \in graph.edges, DeleteEdge(x) PROVE TreeInv'
  BY <1>0, <1>19, RowsStay DEF DeleteEdge
<1>20. CASE SetUp
  BY <1>0, <1>20, RowsStay DEF SetUp
<1>21. CASE UNCHANGED siteVars
  BY <1>0, <1>21, RowsStay DEF siteVars
<1> QED BY <1>1, <1>2, <1>3, <1>4, <1>5, <1>6, <1>7, <1>8, <1>9, <1>10, <1>11, <1>12, <1>13, <1>14,
           <1>15, <1>16, <1>17, <1>18, <1>19, <1>20, <1>21, Zenon DEF SiteNext

(* Site: both sides agree.  An entity has an id of its own, a kind that    *)
(* fits its row, and shares the row with no other unless it is a device.   *)
Entity == [id: Nat, kind: Kinds, row: SiteRows, class: Classes]

Shaped(g) == g \in [entities: SUBSET Entity, edges: {g.edges}, last: Nat]

OneAbout(g) ==
  /\ Shaped(g)
  /\ \A e \in g.entities : e.id <= g.last /\ e.row \in RowsOf(e.kind)
  /\ \A e, x \in g.entities : e.id = x.id => e = x
  /\ \A e, x \in g.entities : e.row = x.row /\ e.row \notin Devices => e = x

Told(g, classes, present) ==
  /\ \A e \in g.entities : e.row \in present /\ (e.row \notin Devices => classes[e.row] = e.class)
  /\ \A r \in SiteRows \ Devices : classes[r] # NoClass => \E e \in g.entities : e.row = r

MirrorInv ==
  /\ flat \in [SiteRows -> Classes \cup {NoClass}]
  /\ OneAbout(graph) /\ Told(graph, flat, rows)

(* One graph tells of the rows outside R what the other does.              *)
Alike(g, h, R) == {e \in h.entities : e.row \notin R} = {e \in g.entities : e.row \notin R}

Carries(h, row, class) ==
  IF class = NoClass THEN \A e \in h.entities : e.row # row
  ELSE /\ \E e \in h.entities : e.row = row
       /\ \A e \in h.entities : e.row = row => e.class = class

SameEntities(g, h) == Shaped(h) /\ h.entities = g.entities /\ h.last = g.last

(* A change of edges changes nothing about entities.                       *)
LEMMA EdgesOnly ==
  ASSUME NEW g, OneAbout(g), NEW h, SameEntities(g, h)
  PROVE  OneAbout(h) /\ \A R : Alike(g, h, R)
BY DEF OneAbout, SameEntities, Alike

(* Only a device may be the row of entities of two kinds.                  *)
LEMMA KindOfRow ==
  ASSUME NEW kind \in Kinds, NEW other \in Kinds, NEW row,
         row \in RowsOf(kind), row \in RowsOf(other)
  PROVE  row \in SiteRows /\ (row \notin Devices => kind = other)
BY SiteAssumption DEF Kinds, RowsOf, SiteRows

(* With adds an entity with a new id.                                      *)
LEMMA WithAdds ==
  ASSUME NEW g, OneAbout(g), NEW kind \in Kinds, NEW row \in RowsOf(kind), NEW class \in Classes,
         row \in Devices \/ \A e \in g.entities : e.row # row
  PROVE  LET h == With(g, kind, row, class)
         IN /\ OneAbout(h) /\ Alike(g, h, {row}) /\ h.edges = g.edges
            /\ row \notin Devices => Carries(h, row, class)
            /\ \E e \in h.entities : e.row = row
<1> DEFINE h == With(g, kind, row, class)
           x == [id |-> g.last + 1, kind |-> kind, row |-> row, class |-> class]
<1>1. Shaped(g) /\ g.last \in Nat /\ g.entities \subseteq Entity
  BY DEF OneAbout, Shaped
<1>2. x \in Entity
  BY <1>1, KindOfRow DEF Entity
<1>3. /\ x.id = g.last + 1 /\ x.row = row /\ x.kind = kind /\ x.class = class
  OBVIOUS
<1>4. h = [g EXCEPT !.entities = g.entities \cup {x}, !.last = g.last + 1]
  BY DEF With
<1> HIDE DEF x, h
<1>5. /\ h.entities = g.entities \cup {x} /\ h.last = g.last + 1 /\ h.edges = g.edges
      /\ h \in [entities: SUBSET Entity, edges: {g.edges}, last: Nat]
  <2> DEFINE more == g.entities \cup {x}
             last == g.last + 1
  <2>1. more \in SUBSET Entity /\ last \in Nat /\ h = [g EXCEPT !.entities = more, !.last = last]
    BY <1>1, <1>2, <1>4
  <2>2. g \in [entities: SUBSET Entity, edges: {g.edges}, last: Nat]
    BY <1>1 DEF Shaped
  <2> HIDE DEF more, last
  <2>3. /\ h.entities = more /\ h.last = last /\ h.edges = g.edges
        /\ h \in [entities: SUBSET Entity, edges: {g.edges}, last: Nat]
    BY <2>1, <2>2
  <2> QED BY <2>3 DEF more, last
<1>6. Shaped(h)
  BY <1>5 DEF Shaped
<1>7. \A e \in g.entities : e.id \in Nat /\ e.id <= g.last /\ e.id # x.id
  BY <1>1, <1>3 DEF OneAbout, Entity
<1>8. \A e \in h.entities : e.id <= h.last /\ e.row \in RowsOf(e.kind)
  <2>1. ASSUME NEW e \in g.entities PROVE e.id <= h.last /\ e.row \in RowsOf(e.kind)
    BY <1>1, <1>5, <1>7 DEF OneAbout
  <2>2. x.id <= h.last /\ x.row \in RowsOf(x.kind)
    BY <1>1, <1>3, <1>5
  <2> QED BY <1>5, <2>1, <2>2
<1>9. \A e, y \in h.entities : e.id = y.id => e = y
  BY <1>5, <1>7 DEF OneAbout
<1>10. \A e, y \in h.entities : e.row = y.row /\ e.row \notin Devices => e = y
  BY <1>3, <1>5 DEF OneAbout
<1>11. OneAbout(h)
  BY <1>6, <1>8, <1>9, <1>10 DEF OneAbout
<1>12. Alike(g, h, {row})
  BY <1>3, <1>5 DEF Alike
<1>13. row \notin Devices => Carries(h, row, class)
  BY <1>3, <1>5, SiteAssumption DEF Carries
<1> QED BY <1>3, <1>5, <1>11, <1>12, <1>13 DEF h

(* Without takes away.                                                     *)
LEMMA WithoutTakes ==
  ASSUME NEW g, OneAbout(g), NEW gone
  PROVE  LET h == Without(g, gone)
         IN OneAbout(h) /\ h.entities = {e \in g.entities : e.id \notin gone}
<1> DEFINE h == Without(g, gone)
           kept == {e \in g.entities : e.id \notin gone}
           edges == {x \in g.edges : x[1] \notin gone /\ x[3] \notin gone}
<1>1. h = [g EXCEPT !.entities = kept, !.edges = edges]
  BY DEF Without
<1>2. kept \subseteq g.entities
  OBVIOUS
<1> HIDE DEF h, edges
<1>3. Shaped(g) /\ g.last \in Nat /\ g.entities \subseteq Entity
  BY DEF OneAbout, Shaped
<1>4. /\ h.entities = kept /\ h.edges = edges /\ h.last = g.last
      /\ h \in [entities: SUBSET Entity, edges: {edges}, last: Nat]
  <2> HIDE DEF kept
  <2> QED BY <1>1, <1>2, <1>3 DEF Shaped
<1>5. Shaped(h)
  BY <1>4 DEF Shaped
<1>6. OneAbout(h)
  <2> HIDE DEF kept
  <2> QED BY <1>2, <1>4, <1>5 DEF OneAbout
<1> QED BY <1>4, <1>6 DEF h

(* An entity is changed, and comes to no row another is about.             *)
LEMMA ChangedOne ==
  ASSUME NEW g, OneAbout(g), NEW e \in g.entities, NEW x \in Entity, x.id = e.id, x.row \in RowsOf(x.kind),
         x.row \in Devices \/ \A y \in g.entities \ {e} : y.row # x.row
  PROVE  LET h == Changed(g, e, x)
         IN OneAbout(h) /\ h.entities = (g.entities \ {e}) \cup {x} /\ h.edges = g.edges
<1> DEFINE h == Changed(g, e, x)
<1>1. h = [g EXCEPT !.entities = (g.entities \ {e}) \cup {x}]
  BY DEF Changed
<1> HIDE DEF h
<1>3. Shaped(g) /\ g.last \in Nat /\ g.entities \subseteq Entity
  BY DEF OneAbout, Shaped
<1>4. /\ h.entities = (g.entities \ {e}) \cup {x} /\ h.edges = g.edges /\ h.last = g.last
      /\ h \in [entities: SUBSET Entity, edges: {g.edges}, last: Nat]
  BY <1>1, <1>3 DEF Shaped
<1>5. Shaped(h)
  BY <1>4 DEF Shaped
<1>6. \A y \in h.entities : y.id <= h.last /\ y.row \in RowsOf(y.kind)
  BY <1>4 DEF OneAbout
<1>7. \A y, z \in h.entities : y.id = z.id => y = z
  BY <1>4 DEF OneAbout
<1>8. \A y, z \in h.entities : y.row = z.row /\ y.row \notin Devices => y = z
  BY <1>4 DEF OneAbout
<1> QED BY <1>4, <1>5, <1>6, <1>7, <1>8 DEF OneAbout, h

(* The direct entities of a row are about it; of one that is no device,    *)
(* they are all there is.                                                  *)
LEMMA DirectOfRow ==
  ASSUME NEW g, OneAbout(g), NEW kind \in Kinds, NEW row \in RowsOf(kind)
  PROVE  /\ \A e \in Direct(g, kind, row) : e \in g.entities /\ e.row = row /\ e.kind = kind
         /\ row \notin Devices => Direct(g, kind, row) = {e \in g.entities : e.row = row}
<1>1. \A e \in Direct(g, kind, row) : e \in g.entities /\ e.row = row /\ e.kind = kind
  BY DEF Direct
<1>2. ASSUME row \notin Devices, NEW e \in g.entities, e.row = row PROVE e \in Direct(g, kind, row)
  <2>1. e \in Entity /\ e.id \in Nat /\ e.kind \in Kinds
    BY DEF OneAbout, Shaped, Entity
  <2>2. e.kind = kind
    BY <1>2, <2>1, KindOfRow DEF OneAbout
  <2>3. \A x \in g.entities : x.row = row => x = e
    BY <1>2 DEF OneAbout
  <2> QED BY <1>2, <2>1, <2>2, <2>3 DEF Direct
<1> QED BY <1>1, <1>2

(* _write_direct_entity: afterwards the entity about the row has its class.*)
LEMMA ClassifiedRow ==
  ASSUME NEW g, OneAbout(g), NEW kind \in Kinds, NEW row \in RowsOf(kind), NEW class \in Classes \cup {NoClass}
  PROVE  LET h == Classified(g, kind, row, class)
         IN /\ OneAbout(h) /\ Alike(g, h, {row})
            /\ row \notin Devices => Carries(h, row, class)
            /\ class # NoClass => h.edges = g.edges
<1> DEFINE h == Classified(g, kind, row, class)
           existing == Direct(g, kind, row)
<1>0. /\ \A e \in existing : e \in g.entities /\ e.row = row /\ e.kind = kind
      /\ row \notin Devices => existing = {e \in g.entities : e.row = row}
  BY DirectOfRow
<1>1. CASE class = NoClass
  <2> DEFINE gone == DirectIds(g, kind, row)
  <2>1. h = Without(g, gone)
    BY <1>1 DEF Classified
  <2>2. OneAbout(h) /\ h.entities = {e \in g.entities : e.id \notin gone}
    <3> HIDE DEF gone, h
    <3> QED BY <2>1, WithoutTakes
  <2>3. \A e \in g.entities : e.id \in gone <=> e \in existing
    BY <1>0 DEF DirectIds, OneAbout
  <2> HIDE DEF gone, h, existing
  <2>4. Alike(g, h, {row})
    BY <1>0, <2>2, <2>3 DEF Alike
  <2>5. row \notin Devices => Carries(h, row, class)
    BY <1>0, <1>1, <2>2, <2>3 DEF Carries
  <2> QED BY <1>1, <2>2, <2>4, <2>5 DEF h
<1>2. CASE class # NoClass /\ existing = {}
  <2>1. h = With(g, kind, row, class) /\ class \in Classes
    BY <1>2 DEF Classified
  <2>2. row \in Devices \/ \A e \in g.entities : e.row # row
    BY <1>0, <1>2
  <2> HIDE DEF h, existing
  <2>3. OneAbout(h) /\ Alike(g, h, {row}) /\ h.edges = g.edges /\ (row \notin Devices => Carries(h, row, class))
    BY <2>1, <2>2, WithAdds
  <2> QED BY <2>3 DEF h
<1>3. CASE class # NoClass /\ existing # {}
  <2> DEFINE e == CHOOSE e \in existing : TRUE
             x == [e EXCEPT !.class = class]
  <2>1. h = Changed(g, e, x) /\ class \in Classes
    BY <1>3 DEF Classified
  <2>2. e \in existing
    BY <1>3
  <2> HIDE DEF e
  <2>3. e \in g.entities /\ e.row = row /\ e.kind = kind /\ e \in Entity
    BY <1>0, <2>2 DEF OneAbout, Shaped
  <2>4. x \in Entity /\ x.id = e.id /\ x.row = row /\ x.kind = kind /\ x.class = class
    BY <2>1, <2>3 DEF Entity
  <2> HIDE DEF x, h, existing
  <2>5. row \in Devices \/ \A y \in g.entities \ {e} : y.row # row
    BY <2>3 DEF OneAbout
  <2>6. OneAbout(h) /\ h.entities = (g.entities \ {e}) \cup {x} /\ h.edges = g.edges
    BY <2>1, <2>3, <2>4, <2>5, ChangedOne
  <2>7. Alike(g, h, {row})
    BY <2>3, <2>4, <2>6 DEF Alike
  <2>8. row \notin Devices => Carries(h, row, class)
    BY <1>3, <2>3, <2>4, <2>5, <2>6 DEF Carries
  <2> QED BY <2>6, <2>7, <2>8 DEF h
<1> QED BY <1>1, <1>2, <1>3

(* Belonging and Sited only add and take relationships.                    *)
LEMMA BelongingEdges ==
  ASSUME NEW g, Shaped(g), NEW objects
  PROVE  SameEntities(g, Belonging(g, objects))
<1> DEFINE h == Belonging(g, objects)
           edges == g.edges \cup UNION {DirectIds(g, "point", o) \X {"isPointOf"} \X DirectIds(g, "equipment", HostOf[o])
                                         : o \in objects}
<1>1. h = [g EXCEPT !.edges = edges]
  BY DEF Belonging
<1> HIDE DEF h, edges
<1>2. h \in [entities: SUBSET Entity, edges: {edges}, last: Nat] /\ h.entities = g.entities /\ h.last = g.last
      /\ h.edges = edges
  BY <1>1 DEF Shaped
<1> QED BY <1>2 DEF SameEntities, Shaped, h

(* Where a device is put changes edges only, and adds hasLocation at most. *)
LEMMA SitedEdges ==
  ASSUME NEW g, Shaped(g), NEW d, NEW l
  PROVE  /\ SameEntities(g, Sited(g, d, l))
         /\ Sited(g, d, l).edges \subseteq g.edges \cup (Nat \X {"hasLocation"} \X Nat)
<1> DEFINE h == Sited(g, d, l)
           top == DirectIds(g, "equipment", d)
           desired == IF l = NoPlace THEN {} ELSE DirectIds(g, "location", l)
           now == {x \in g.edges : x[1] \in top /\ x[2] = "hasLocation"}
           edges == (g.edges \ now) \cup (top \X {"hasLocation"} \X desired)
<1>1. top \subseteq Nat /\ desired \subseteq Nat
  BY DEF DirectIds, Direct, Shaped, Entity
<1>2. CASE \E x \in now : x[3] \in desired
  <2>1. h = g
    BY <1>2 DEF Sited
  <2> HIDE DEF h
  <2> QED BY <2>1 DEF SameEntities, h
<1>3. CASE ~\E x \in now : x[3] \in desired
  <2>1. h = [g EXCEPT !.edges = edges]
    BY <1>3 DEF Sited
  <2>2. edges \subseteq g.edges \cup (Nat \X {"hasLocation"} \X Nat)
    BY <1>1
  <2> HIDE DEF h, edges
  <2>3. h \in [entities: SUBSET Entity, edges: {edges}, last: Nat] /\ h.entities = g.entities /\ h.last = g.last
        /\ h.edges = edges
    BY <2>1 DEF Shaped
  <2> QED BY <2>2, <2>3 DEF SameEntities, Shaped, h
<1> QED BY <1>2, <1>3

(* And so does siting any devices one after the other.                     *)
LEMMA AllSitedEdges ==
  ASSUME NEW g, Shaped(g), NEW ds \in SUBSET Devices
  PROVE  SameEntities(g, AllSited(g, ds))
<1> DEFINE E == g.edges \cup (Nat \X {"hasLocation"} \X Nat)
           P == [entities: {g.entities}, edges: SUBSET E, last: {g.last}]
           f == [x \in ds \X P |-> Sited(x[2], x[1], place[x[1]])]
           Is(it) == it = [s \in SUBSET ds |-> IF s = {} THEN g
                                               ELSE Sited(it[s \ {Taken(s)}], Taken(s), place[Taken(s)])]
           it == CHOOSE it : Is(it)
<1>0. IsFiniteSet(ds)
  BY SiteAssumption, FS_Subset
<1>1. g \in P
  BY DEF Shaped
<1>2. \A h \in P : Shaped(h)
  BY DEF Shaped
<1>3. ASSUME NEW h \in P, NEW d \in ds PROVE Sited(h, d, place[d]) \in P
  <2> DEFINE k == Sited(h, d, place[d])
  <2>1. SameEntities(h, k) /\ k.edges \subseteq h.edges \cup (Nat \X {"hasLocation"} \X Nat)
    BY <1>2, SitedEdges
  <2> HIDE DEF k
  <2>2. k.edges \subseteq E
    BY <2>1
  <2>3. k \in [entities: SUBSET Entity, edges: {k.edges}, last: Nat] /\ k.entities = g.entities /\ k.last = g.last
    BY <2>1 DEF SameEntities, Shaped
  <2> HIDE DEF E
  <2>4. k \in P
    BY <2>2, <2>3
  <2> QED BY <2>4 DEF k
<1>4. f \in [ds \X P -> P]
  <2> HIDE DEF P
  <2> QED BY <1>3
<1>5. \E fold : Is(fold)
  <2>1. PICK fold \in [SUBSET ds -> P] : FoldsBy(ds, g, f, fold)
    <3> HIDE DEF P, f
    <3>1. \A base \in P : \E fold \in [SUBSET ds -> P] : FoldsBy(ds, base, f, fold)
      BY <1>0, <1>4, FoldsExist
    <3> QED BY <1>1, <3>1
  <2>2. ASSUME NEW s \in SUBSET ds
        PROVE  fold[s] = IF s = {} THEN g ELSE Sited(fold[s \ {Taken(s)}], Taken(s), place[Taken(s)])
    <3> HIDE DEF P
    <3>1. fold[s] = IF s = {} THEN g ELSE f[<<Taken(s), fold[s \ {Taken(s)}]>>]
      <4> HIDE DEF f
      <4> QED BY <2>1 DEF FoldsBy
    <3>2. s # {} => Taken(s) \in ds /\ fold[s \ {Taken(s)}] \in P
      BY DEF Taken
    <3> QED BY <3>1, <3>2
  <2> HIDE DEF P, f
  <2>3. Is(fold)
    BY <2>2
  <2> QED BY <2>3
<1>6. Is(it)
  <2> HIDE DEF Is
  <2> QED BY <1>5
<1>7. AllSited(g, ds) = it[ds]
  BY DEF AllSited, FoldSet, MapThenFoldSet, Taken
<1> HIDE DEF it
<1>8. \A s \in SUBSET ds : it[s] = IF s = {} THEN g ELSE Sited(it[s \ {Taken(s)}], Taken(s), place[Taken(s)])
  BY <1>6
<1> DEFINE good == {s \in SUBSET ds : it[s] \in P}
<1>9. good = SUBSET ds
  <2>1. {} \in good
    <3>1. {} \in SUBSET ds /\ it[{}] = g
      BY <1>8
    <3> QED BY <1>1, <3>1
  <2>2. ASSUME NEW s \in SUBSET ds, s # {}, s \ {Taken(s)} \in good PROVE s \in good
    <3>1. Taken(s) \in ds
      BY <2>2 DEF Taken
    <3>2. it[s] = Sited(it[s \ {Taken(s)}], Taken(s), place[Taken(s)])
      BY <1>8, <2>2
    <3> HIDE DEF P
    <3>3. it[s \ {Taken(s)}] \in P
      BY <2>2
    <3> QED BY <1>3, <3>1, <3>2, <3>3
  <2> HIDE DEF good
  <2>3. good \in SUBSET SUBSET ds
    BY DEF good
  <2> QED BY <1>0, <2>1, <2>2, <2>3, SubsetInduction
<1>10. it[ds] \in P
  BY <1>9
<1> DEFINE h == it[ds]
<1> HIDE DEF h
<1>11. Shaped(h) /\ h.entities = g.entities /\ h.last = g.last
  BY <1>2, <1>10 DEF h
<1> QED BY <1>7, <1>11 DEF SameEntities, h

(* The graph of one step after the other, told of more and more rows.      *)
LEMMA AlikeAgain ==
  ASSUME NEW g, NEW h, NEW k, NEW R, NEW S, Alike(g, h, R), Alike(h, k, S)
  PROVE  Alike(g, k, R \cup S)
<1> SUFFICES ASSUME NEW e, e.row \notin R \cup S PROVE e \in k.entities <=> e \in g.entities
  BY DEF Alike
<1>1. e \in k.entities <=> e \in h.entities
  <2>1. e \in {x \in k.entities : x.row \notin S} <=> e \in {x \in h.entities : x.row \notin S}
    BY DEF Alike
  <2> QED BY <2>1
<1>2. e \in h.entities <=> e \in g.entities
  <2>1. e \in {x \in h.entities : x.row \notin R} <=> e \in {x \in g.entities : x.row \notin R}
    BY DEF Alike
  <2> QED BY <2>1
<1> QED BY <1>1, <1>2

(* A class is carried on while other rows are mirrored.                    *)
LEMMA CarriesOn ==
  ASSUME NEW h, NEW k, NEW S, Alike(h, k, S), NEW row, row \notin S, NEW class, Carries(h, row, class)
  PROVE  Carries(k, row, class)
<1>1. \A e : e.row = row => (e \in k.entities <=> e \in h.entities)
  <2> SUFFICES ASSUME NEW e, e.row = row PROVE e \in k.entities <=> e \in h.entities
    OBVIOUS
  <2>1. e \in {x \in k.entities : x.row \notin S} <=> e \in {x \in h.entities : x.row \notin S}
    BY DEF Alike
  <2> QED BY <2>1
<1> QED BY <1>1 DEF Carries

(* generate_building_levels: every new location gets its entity.           *)
Levelled(g, ls, class) == FoldSet(LAMBDA l, acc : Classified(acc, "location", l, class), g, ls)

(* Levels mirrored one after the other carry their class, all of them.     *)
LEMMA LevelsClassified ==
  ASSUME NEW g, OneAbout(g), NEW ls \in SUBSET Locations, NEW class \in Classes
  PROVE  LET h == Levelled(g, ls, class)
         IN OneAbout(h) /\ Alike(g, h, ls) /\ \A l \in ls : Carries(h, l, class)
<1> DEFINE P == {h \in [entities: SUBSET Entity, edges: {g.edges}, last: Nat] : OneAbout(h)}
           f == [x \in ls \X P |-> Classified(x[2], "location", x[1], class)]
           Is(it) == it = [s \in SUBSET ls |-> IF s = {} THEN g
                                               ELSE Classified(it[s \ {Taken(s)}], "location", Taken(s), class)]
           it == CHOOSE it : Is(it)
<1>0. IsFiniteSet(ls)
  BY SiteAssumption, FS_Subset
<1>1. g \in P
  BY DEF OneAbout, Shaped
<1>2. "location" \in Kinds /\ \A l \in ls : l \in RowsOf("location") /\ l \notin Devices
  BY SiteAssumption DEF Kinds, RowsOf
<1>3. class \in Classes \cup {NoClass} /\ class # NoClass
  BY SiteAssumption
<1>4. ASSUME NEW h \in P, NEW l \in ls
      PROVE  LET k == Classified(h, "location", l, class)
             IN k \in P /\ Alike(h, k, {l}) /\ Carries(k, l, class)
  <2> DEFINE k == Classified(h, "location", l, class)
  <2>1. OneAbout(k) /\ Alike(h, k, {l}) /\ Carries(k, l, class) /\ k.edges = h.edges
    BY <1>2, <1>3, ClassifiedRow
  <2> HIDE DEF k
  <2>2. k \in [entities: SUBSET Entity, edges: {k.edges}, last: Nat]
    BY <2>1 DEF OneAbout, Shaped
  <2>3. k \in P
    BY <2>1, <2>2
  <2> QED BY <2>1, <2>3 DEF k
<1>5. f \in [ls \X P -> P]
  <2> HIDE DEF P
  <2>1. \A h \in P, l \in ls : Classified(h, "location", l, class) \in P
    BY <1>4
  <2> QED BY <2>1
<1>6. \E fold : Is(fold)
  <2>1. PICK fold \in [SUBSET ls -> P] : FoldsBy(ls, g, f, fold)
    <3> HIDE DEF P, f
    <3>1. \A base \in P : \E fold \in [SUBSET ls -> P] : FoldsBy(ls, base, f, fold)
      BY <1>0, <1>5, FoldsExist
    <3> QED BY <1>1, <3>1
  <2>2. ASSUME NEW s \in SUBSET ls
        PROVE  fold[s] = IF s = {} THEN g ELSE Classified(fold[s \ {Taken(s)}], "location", Taken(s), class)
    <3> HIDE DEF P
    <3>1. fold[s] = IF s = {} THEN g ELSE f[<<Taken(s), fold[s \ {Taken(s)}]>>]
      <4> HIDE DEF f
      <4> QED BY <2>1 DEF FoldsBy
    <3>2. s # {} => Taken(s) \in ls /\ fold[s \ {Taken(s)}] \in P
      BY DEF Taken
    <3> QED BY <3>1, <3>2
  <2> HIDE DEF P, f
  <2>3. Is(fold)
    BY <2>2
  <2> QED BY <2>3
<1>7. Is(it)
  <2> HIDE DEF Is
  <2> QED BY <1>6
<1>8. Levelled(g, ls, class) = it[ls]
  BY DEF Levelled, FoldSet, MapThenFoldSet, Taken
<1> HIDE DEF it
<1>9. \A s \in SUBSET ls : it[s] = IF s = {} THEN g ELSE Classified(it[s \ {Taken(s)}], "location", Taken(s), class)
  BY <1>7
<1> DEFINE Levels(s) == it[s] \in P /\ Alike(g, it[s], s) /\ \A l \in s : Carries(it[s], l, class)
           good == {s \in SUBSET ls : Levels(s)}
<1>10. good = SUBSET ls
  <2>1. {} \in good
    <3>1. {} \in SUBSET ls /\ it[{}] = g
      BY <1>9
    <3>2. Alike(g, g, {})
      BY DEF Alike
    <3> QED BY <1>1, <3>1, <3>2
  <2>2. ASSUME NEW s \in SUBSET ls, s # {}, s \ {Taken(s)} \in good PROVE s \in good
    <3> DEFINE t == Taken(s)
               rest == s \ {t}
               h == it[rest]
    <3>1. t \in ls /\ t \in s /\ rest \in SUBSET ls /\ rest \cup {t} = s
      BY <2>2 DEF Taken
    <3>2. it[s] = Classified(h, "location", t, class)
      BY <1>9, <2>2
    <3>3. h \in P /\ Alike(g, h, rest) /\ \A l \in rest : Carries(h, l, class)
      BY <2>2
    <3> HIDE DEF t, rest, P
    <3>4. it[s] \in P /\ Alike(h, it[s], {t}) /\ Carries(it[s], t, class)
      <4> HIDE DEF h
      <4> QED BY <1>4, <3>1, <3>2, <3>3
    <3>5. Alike(g, it[s], s)
      <4>1. Alike(g, it[s], rest \cup {t})
        <5> HIDE DEF h
        <5> QED BY <3>3, <3>4, AlikeAgain
      <4> QED BY <3>1, <4>1
    <3>6. ASSUME NEW l \in s PROVE Carries(it[s], l, class)
      <4>1. CASE l = t
        BY <3>4, <4>1
      <4>2. CASE l # t
        <5>1. l \in rest /\ l \notin {t}
          BY <3>6, <4>2 DEF rest
        <5>2. Carries(h, l, class)
          BY <3>3, <5>1
        <5> HIDE DEF h
        <5> QED BY <3>4, <5>1, <5>2, CarriesOn
      <4> QED BY <4>1, <4>2
    <3> QED BY <3>4, <3>5, <3>6
  <2> HIDE DEF good
  <2>3. good \in SUBSET SUBSET ls
    BY DEF good
  <2> QED BY <1>0, <2>1, <2>2, <2>3, SubsetInduction
<1>11. Levels(ls)
  <2>1. ls \in good
    BY <1>10
  <2> HIDE DEF Levels
  <2> QED BY <2>1
<1>12. \A h \in P : OneAbout(h)
  OBVIOUS
<1> HIDE DEF P
<1> QED BY <1>8, <1>11, <1>12

(* setup(): devices get the entity they lack.                              *)
Completed(g, ds) ==
  FoldSet(LAMBDA d, acc : IF Unique(With(acc, "equipment", d, flat[d]))
                          THEN With(acc, "equipment", d, flat[d]) ELSE acc, g, ds)

(* Devices completed one after the other leave every other row alone.      *)
LEMMA DevicesCompleted ==
  ASSUME NEW g, OneAbout(g), NEW ds \in SUBSET Devices, \A d \in ds : flat[d] \in Classes
  PROVE  OneAbout(Completed(g, ds)) /\ Alike(g, Completed(g, ds), ds)
<1> DEFINE P == {h \in [entities: SUBSET Entity, edges: {g.edges}, last: Nat] : OneAbout(h) /\ Alike(g, h, ds)}
           Op(d, h) == IF Unique(With(h, "equipment", d, flat[d])) THEN With(h, "equipment", d, flat[d]) ELSE h
           f == [x \in ds \X P |-> Op(x[1], x[2])]
           Is(it) == it = [s \in SUBSET ds |-> IF s = {} THEN g ELSE Op(Taken(s), it[s \ {Taken(s)}])]
           it == CHOOSE it : Is(it)
<1>0. IsFiniteSet(ds)
  BY SiteAssumption, FS_Subset
<1>1. g \in P
  BY DEF OneAbout, Shaped, Alike
<1>2. "equipment" \in Kinds /\ \A d \in ds : d \in RowsOf("equipment")
  BY DEF Kinds, RowsOf
<1>3. ASSUME NEW h \in P, NEW d \in ds PROVE Op(d, h) \in P
  <2> DEFINE k == With(h, "equipment", d, flat[d])
  <2>1. OneAbout(h) /\ Alike(g, h, ds) /\ h.edges = g.edges
    OBVIOUS
  <2>2. OneAbout(k) /\ Alike(h, k, {d}) /\ k.edges = h.edges
    BY <1>2, <2>1, WithAdds
  <2> HIDE DEF k
  <2>3. Alike(g, k, ds \cup {d}) /\ ds \cup {d} = ds
    BY <2>1, <2>2, AlikeAgain
  <2>4. k \in [entities: SUBSET Entity, edges: {k.edges}, last: Nat]
    BY <2>2 DEF OneAbout, Shaped
  <2>5. k \in P
    BY <2>1, <2>2, <2>3, <2>4
  <2> HIDE DEF P
  <2> QED BY <2>5 DEF k
<1> HIDE DEF Op
<1>4. f \in [ds \X P -> P]
  <2> HIDE DEF P
  <2> QED BY <1>3
<1>5. \E fold : Is(fold)
  <2>1. PICK fold \in [SUBSET ds -> P] : FoldsBy(ds, g, f, fold)
    <3> HIDE DEF P, f
    <3>1. \A base \in P : \E fold \in [SUBSET ds -> P] : FoldsBy(ds, base, f, fold)
      BY <1>0, <1>4, FoldsExist
    <3> QED BY <1>1, <3>1
  <2>2. ASSUME NEW s \in SUBSET ds
        PROVE  fold[s] = IF s = {} THEN g ELSE Op(Taken(s), fold[s \ {Taken(s)}])
    <3> HIDE DEF P
    <3>1. fold[s] = IF s = {} THEN g ELSE f[<<Taken(s), fold[s \ {Taken(s)}]>>]
      <4> HIDE DEF f
      <4> QED BY <2>1 DEF FoldsBy
    <3>2. s # {} => Taken(s) \in ds /\ fold[s \ {Taken(s)}] \in P
      BY DEF Taken
    <3> QED BY <3>1, <3>2
  <2> HIDE DEF P, f
  <2>3. Is(fold)
    BY <2>2
  <2> QED BY <2>3
<1>6. Is(it)
  <2> HIDE DEF Is
  <2> QED BY <1>5
<1>7. Completed(g, ds) = it[ds]
  BY DEF Completed, FoldSet, MapThenFoldSet, Taken, Op
<1> HIDE DEF it
<1>8. \A s \in SUBSET ds : it[s] = IF s = {} THEN g ELSE Op(Taken(s), it[s \ {Taken(s)}])
  BY <1>6
<1> DEFINE good == {s \in SUBSET ds : it[s] \in P}
<1>9. good = SUBSET ds
  <2>1. {} \in good
    <3>1. {} \in SUBSET ds /\ it[{}] = g
      BY <1>8
    <3> QED BY <1>1, <3>1
  <2>2. ASSUME NEW s \in SUBSET ds, s # {}, s \ {Taken(s)} \in good PROVE s \in good
    <3> HIDE DEF P
    <3>1. Taken(s) \in ds
      BY <2>2 DEF Taken
    <3>2. it[s] = Op(Taken(s), it[s \ {Taken(s)}])
      BY <1>8, <2>2
    <3>3. it[s \ {Taken(s)}] \in P
      BY <2>2
    <3> QED BY <1>3, <3>1, <3>2, <3>3
  <2> HIDE DEF good
  <2>3. good \in SUBSET SUBSET ds
    BY DEF good
  <2> QED BY <1>0, <2>1, <2>2, <2>3, SubsetInduction
<1>10. it[ds] \in P
  BY <1>9
<1>11. \A h \in P : OneAbout(h) /\ Alike(g, h, ds)
  OBVIOUS
<1> HIDE DEF P
<1> QED BY <1>7, <1>10, <1>11

(* A transaction that tells of the rows it writes keeps both sides equal.  *)
LEMMA ToldAfter ==
  ASSUME MirrorInv, NEW R, NEW h, graph' = h, OneAbout(h), Alike(graph, h, R),
         flat' \in [SiteRows -> Classes \cup {NoClass}],
         \A r \in SiteRows \ (R \cup Devices) : flat'[r] = flat[r],
         \A r \in (R \cap SiteRows) \ Devices : Carries(h, r, flat'[r]),
         \A e \in h.entities : e.row \in rows'
  PROVE  MirrorInv'
<1>1. \A e : e.row \notin R => (e \in h.entities <=> e \in graph.entities)
  <2> SUFFICES ASSUME NEW e, e.row \notin R PROVE e \in h.entities <=> e \in graph.entities
    OBVIOUS
  <2>1. e \in {x \in h.entities : x.row \notin R} <=> e \in {x \in graph.entities : x.row \notin R}
    BY DEF Alike
  <2> QED BY <2>1
<1>2. \A e \in h.entities : e.row \in SiteRows
  BY DEF OneAbout, Shaped, Entity
<1>3. Told(graph, flat, rows)
  BY DEF MirrorInv
<1>4. ASSUME NEW e \in h.entities, e.row \notin Devices PROVE flat'[e.row] = e.class
  <2>1. CASE e.row \in R
    BY <1>2, <1>4, <2>1 DEF Carries
  <2>2. CASE e.row \notin R
    <3>1. e \in graph.entities
      BY <1>1, <2>2
    <3> QED BY <1>2, <1>3, <1>4, <2>2, <3>1 DEF Told
  <2> QED BY <2>1, <2>2
<1>5. ASSUME NEW r \in SiteRows \ Devices, flat'[r] # NoClass PROVE \E e \in h.entities : e.row = r
  <2>1. CASE r \in R
    BY <1>5, <2>1 DEF Carries
  <2>2. CASE r \notin R
    <3>1. flat[r] # NoClass
      BY <1>5, <2>2
    <3>2. PICK e \in graph.entities : e.row = r
      BY <1>3, <3>1 DEF Told
    <3>3. e \in h.entities
      BY <1>1, <2>2, <3>2
    <3> QED BY <3>2, <3>3
  <2> QED BY <2>1, <2>2
<1>6. Told(h, flat', rows')
  BY <1>4, <1>5 DEF Told
<1> QED BY <1>6 DEF MirrorInv

(* After a change every entity is about a row there is.                    *)
LEMMA RowsAfter ==
  ASSUME MirrorInv, NEW R, NEW h, OneAbout(h), Alike(graph, h, R), rows \cup R \subseteq rows'
  PROVE  \A e \in h.entities : e.row \in rows'
<1> SUFFICES ASSUME NEW e \in h.entities, e.row \notin R PROVE e.row \in rows
  OBVIOUS
<1>1. e \in {x \in h.entities : x.row \notin R} <=> e \in {x \in graph.entities : x.row \notin R}
  BY DEF Alike
<1> QED BY <1>1 DEF MirrorInv, Told

(* A graph with other relationships, or none changed.                      *)
LEMMA EdgesKeepMirror ==
  ASSUME MirrorInv, SameEntities(graph, graph'), UNCHANGED flat, rows \subseteq rows'
  PROVE  MirrorInv'
<1> DEFINE h == graph'
<1>1. OneAbout(graph)
  BY DEF MirrorInv
<1>2. OneAbout(h) /\ Alike(graph, h, {})
  BY <1>1, EdgesOnly
<1>3. \A e \in h.entities : e.row \in rows'
  <2> HIDE DEF h
  <2> QED BY <1>2, RowsAfter
<1>4. flat' \in [SiteRows -> Classes \cup {NoClass}]
  BY DEF MirrorInv
<1> QED BY <1>2, <1>3, <1>4, ToldAfter

(* One row and the entity about it (db/database.py), and relationships.    *)
LEMMA RowAndEntity ==
  ASSUME MirrorInv, NEW kind \in Kinds, NEW r \in RowsOf(kind), NEW class \in Classes \cup {NoClass},
         SameEntities(Classified(graph, kind, r, class), graph'),
         flat' = [flat EXCEPT ![r] = class], rows' = rows \cup {r}
  PROVE  MirrorInv'
<1> DEFINE h == graph'
           k == Classified(graph, kind, r, class)
<1>1. OneAbout(graph) /\ r \in SiteRows
  BY KindOfRow DEF MirrorInv
<1>2. OneAbout(k) /\ Alike(graph, k, {r}) /\ (r \notin Devices => Carries(k, r, class))
  BY <1>1, ClassifiedRow
<1> HIDE DEF k
<1>3. OneAbout(h) /\ Alike(k, h, {})
  BY <1>2, EdgesOnly DEF k
<1> HIDE DEF h
<1>4. Alike(graph, h, {r})
  <2>1. Alike(graph, h, {r} \cup {})
    BY <1>2, <1>3, AlikeAgain
  <2> QED BY <2>1
<1>5. r \notin Devices => Carries(h, r, class)
  BY <1>2, <1>3, CarriesOn
<1>6. /\ flat' \in [SiteRows -> Classes \cup {NoClass}] /\ flat'[r] = class
      /\ \A x \in SiteRows : x # r => flat'[x] = flat[x]
  BY <1>1 DEF MirrorInv
<1>7. \A e \in h.entities : e.row \in rows'
  BY <1>3, <1>4, RowsAfter
<1> QED BY <1>3, <1>4, <1>5, <1>6, <1>7, ToldAfter DEF h

(* A row that is created or updated carries its class.                     *)
LEMMA RowsKeepMirror ==
  ASSUME MirrorInv, NEW class \in Classes \cup {NoClass}
  PROVE  /\ \A o \in Objects : ObjectRow(o, class) => MirrorInv'
         /\ \A d \in Devices : \A l : DeviceRow(d, l, class) => MirrorInv'
         /\ \A q \in Equipment : \A l : EquipmentRow(q, l, class) => MirrorInv'
         /\ \A l \in Locations : \A above : LocationRow(l, above, class) => MirrorInv'
<1>0. /\ "point" \in Kinds /\ "equipment" \in Kinds /\ "location" \in Kinds
      /\ RowsOf("point") = Objects /\ Equipment \cup Devices \subseteq RowsOf("equipment")
      /\ Locations \subseteq RowsOf("location")
  BY DEF Kinds, RowsOf
<1>1. \A kind \in Kinds : \A r \in RowsOf(kind) : Shaped(Classified(graph, kind, r, class))
  <2> SUFFICES ASSUME NEW kind \in Kinds, NEW r \in RowsOf(kind) PROVE Shaped(Classified(graph, kind, r, class))
    OBVIOUS
  <2>1. OneAbout(graph)
    BY DEF MirrorInv
  <2>2. OneAbout(Classified(graph, kind, r, class))
    BY <2>1, ClassifiedRow
  <2> QED BY <2>2 DEF OneAbout
<1>2. ASSUME NEW o \in Objects, ObjectRow(o, class) PROVE MirrorInv'
  <2> DEFINE k == Classified(graph, "point", o, class)
  <2>1. graph' = Belonging(k, {o}) /\ flat' = [flat EXCEPT ![o] = class] /\ rows' = rows \cup {o}
    BY <1>2 DEF ObjectRow, Graph, SyncedObject, Saved
  <2>2. SameEntities(k, graph')
    <3> HIDE DEF k
    <3>1. Shaped(k)
      BY <1>0, <1>1 DEF k
    <3> QED BY <2>1, <3>1, BelongingEdges
  <2> QED BY <1>0, <2>1, <2>2, RowAndEntity
<1>3. ASSUME NEW d \in Devices, NEW l, DeviceRow(d, l, class) PROVE MirrorInv'
  <2> DEFINE k == Classified(graph, "equipment", d, class)
             own == {o \in rows \cap Objects : HostOf[o] = d /\ flat[o] # NoClass}
             b == Belonging(k, own)
  <2>1. graph' = Sited(b, d, l) /\ flat' = [flat EXCEPT ![d] = class] /\ rows' = rows \cup {d}
    BY <1>3 DEF DeviceRow, Graph, SyncedDevice, Saved
  <2>2. SameEntities(k, graph')
    <3> HIDE DEF k, own
    <3>1. Shaped(k)
      BY <1>0, <1>1 DEF k
    <3>2. SameEntities(k, b)
      BY <3>1, BelongingEdges
    <3> HIDE DEF b
    <3>3. SameEntities(b, graph')
      BY <2>1, <3>2, SitedEdges DEF SameEntities
    <3> QED BY <3>2, <3>3 DEF SameEntities
  <2>3. d \in RowsOf("equipment")
    BY <1>0
  <2> QED BY <1>0, <2>1, <2>2, <2>3, RowAndEntity
<1>4. ASSUME NEW q \in Equipment, NEW l, EquipmentRow(q, l, class) PROVE MirrorInv'
  <2> DEFINE k == Classified(graph, "equipment", q, class)
  <2>1. graph' = k /\ flat' = [flat EXCEPT ![q] = class] /\ rows' = rows \cup {q}
    BY <1>4 DEF EquipmentRow, Graph, SyncedEquipment, Saved
  <2>2. q \in RowsOf("equipment")
    BY <1>0
  <2>3. SameEntities(k, graph')
    <3>1. Shaped(k)
      BY <1>0, <1>1, <2>2
    <3> QED BY <2>1, <3>1 DEF SameEntities
  <2> QED BY <1>0, <2>1, <2>2, <2>3, RowAndEntity
<1>5. ASSUME NEW l \in Locations, NEW above, LocationRow(l, above, class) PROVE MirrorInv'
  <2> DEFINE k == Classified(graph, "location", l, class)
             here == {d \in rows \cap Devices : place[d] = l}
  <2>1. graph' = AllSited(k, here) /\ flat' = [flat EXCEPT ![l] = class] /\ rows' = rows \cup {l}
    BY <1>5 DEF LocationRow, Graph, SyncedLocation, Saved
  <2>2. l \in RowsOf("location")
    BY <1>0
  <2>3. SameEntities(k, graph')
    <3>1. Shaped(k) /\ here \in SUBSET Devices
      BY <1>0, <1>1, <2>2
    <3> HIDE DEF k, here
    <3> QED BY <2>1, <3>1, AllSitedEdges
  <2> QED BY <1>0, <2>1, <2>2, <2>3, RowAndEntity
<1> QED BY <1>2, <1>3, <1>4, <1>5

(* Levels that are generated carry their class.                            *)
LEMMA LevelsKeepMirror ==
  ASSUME MirrorInv, NEW building \in Locations, NEW levels \in SUBSET Locations, NEW class \in Classes,
         GenerateLevels(building, levels, class)
  PROVE  MirrorInv'
<1> DEFINE R == levels \cup {building}
           h == Levelled(graph, R, class)
<1>1. /\ graph' = h /\ rows' = rows \cup R
      /\ flat' = [r \in SiteRows |-> IF r \in R THEN class ELSE flat[r]]
  BY DEF GenerateLevels, Graph, Levelled, Saved
<1>2. R \in SUBSET Locations /\ OneAbout(graph)
  BY DEF MirrorInv
<1> HIDE DEF R
<1>3. OneAbout(h) /\ Alike(graph, h, R) /\ \A l \in R : Carries(h, l, class)
  BY <1>2, LevelsClassified
<1> HIDE DEF h
<1>4. /\ flat' \in [SiteRows -> Classes \cup {NoClass}]
      /\ \A r \in SiteRows : flat'[r] = IF r \in R THEN class ELSE flat[r]
  BY <1>1 DEF MirrorInv
<1>5. \A e \in h.entities : e.row \in rows'
  BY <1>1, <1>3, RowsAfter
<1> QED BY <1>1, <1>3, <1>4, <1>5, ToldAfter

(* Rows that are deleted take their entities along.                        *)
LEMMA RemovalKeepsMirror ==
  ASSUME MirrorInv, NEW rs, RemoveRows(rs)
  PROVE  MirrorInv'
<1> DEFINE R == Gone(rs)
           ids == {e.id : e \in {e \in graph.entities : e.row \in R}}
           h == Without(graph, ids)
<1>1. /\ graph' = h /\ rows' = rows \ R
      /\ flat' = [r \in SiteRows |-> IF r \in R THEN NoClass ELSE flat[r]]
  BY DEF RemoveRows, Graph
<1>2. OneAbout(graph) /\ Told(graph, flat, rows)
  BY DEF MirrorInv
<1>3. \A e \in graph.entities : e.id \in ids <=> e.row \in R
  BY <1>2 DEF OneAbout
<1> HIDE DEF R, ids
<1>4. OneAbout(h) /\ h.entities = {e \in graph.entities : e.id \notin ids}
  BY <1>2, WithoutTakes
<1> HIDE DEF h
<1>5. Alike(graph, h, R)
  BY <1>3, <1>4 DEF Alike
<1>6. /\ flat' \in [SiteRows -> Classes \cup {NoClass}]
      /\ \A r \in SiteRows : flat'[r] = IF r \in R THEN NoClass ELSE flat[r]
  BY <1>1 DEF MirrorInv
<1>7. \A r \in R : Carries(h, r, NoClass)
  BY <1>3, <1>4 DEF Carries
<1>8. \A e \in h.entities : e.row \in rows'
  BY <1>1, <1>2, <1>3, <1>4 DEF Told
<1> QED BY <1>1, <1>4, <1>5, <1>6, <1>7, <1>8, ToldAfter

(* The Semantic panel: an entity comes, changes or goes.                   *)
LEMMA CreateKeepsMirror ==
  ASSUME MirrorInv, NEW kind \in Kinds, NEW row \in RowsOf(kind), NEW class \in Classes, row \in rows,
         graph' = With(graph, kind, row, class), Unique(With(graph, kind, row, class)), rows' = rows,
         flat' = IF Mirrored(kind, row) THEN [flat EXCEPT ![row] = class] ELSE flat
  PROVE  MirrorInv'
<1> DEFINE h == With(graph, kind, row, class)
           x == [id |-> graph.last + 1, kind |-> kind, row |-> row, class |-> class]
<1>1. OneAbout(graph) /\ row \in SiteRows
  BY KindOfRow DEF MirrorInv
<1>2. row \in Devices \/ \A e \in graph.entities : e.row # row
  <2> SUFFICES ASSUME row \notin Devices, NEW e \in graph.entities, e.row = row PROVE FALSE
    OBVIOUS
  <2>1. e.kind = kind
    <3>1. e.kind \in Kinds /\ e.row \in RowsOf(e.kind)
      BY <1>1 DEF OneAbout, Shaped, Entity
    <3> QED BY <3>1, KindOfRow
  <2>2. e # x
    <3>1. e.id \in Nat /\ e.id <= graph.last /\ graph.last \in Nat
      BY <1>1 DEF OneAbout, Shaped, Entity
    <3>2. x.id = graph.last + 1
      OBVIOUS
    <3> QED BY <3>1, <3>2
  <2>3. x.kind = kind /\ x.row = row
    OBVIOUS
  <2>4. h.entities = graph.entities \cup {x}
    <3> HIDE DEF x
    <3>1. h = [graph EXCEPT !.entities = graph.entities \cup {x}, !.last = graph.last + 1]
      BY DEF With, x
    <3> QED BY <1>1, <3>1 DEF OneAbout, Shaped
  <2> HIDE DEF x, h
  <2>5. Unique(h)
    BY DEF h
  <2> QED BY <2>1, <2>2, <2>3, <2>4, <2>5 DEF Unique
<1>3. OneAbout(h) /\ Alike(graph, h, {row}) /\ (row \notin Devices => Carries(h, row, class))
  BY <1>1, <1>2, WithAdds
<1> HIDE DEF h, x
<1>4. /\ flat' \in [SiteRows -> Classes \cup {NoClass}]
      /\ \A r \in SiteRows : r # row => flat'[r] = flat[r]
      /\ row \notin Devices => flat'[row] = class
  BY <1>1 DEF MirrorInv, Mirrored
<1>5. \A e \in h.entities : e.row \in rows'
  BY <1>3, RowsAfter
<1> QED BY <1>3, <1>4, <1>5, ToldAfter DEF h

(* An entity that moves to another row takes its class there.              *)
LEMMA UpdateKeepsMirror ==
  ASSUME MirrorInv, NEW e \in graph.entities, NEW kind \in Kinds, NEW row \in RowsOf(kind), NEW class \in Classes,
         row \in rows, EntityAndRows(e, kind, row, class), rows' = rows
  PROVE  MirrorInv'
<1> DEFINE x == [e EXCEPT !.kind = kind, !.row = row, !.class = class]
           h == Changed(graph, e, x)
           R == {e.row, row}
<1>1. /\ OneAbout(graph) /\ Told(graph, flat, rows) /\ row \in SiteRows
      /\ e \in Entity /\ e.row \in SiteRows /\ e.row \in rows
  BY KindOfRow DEF MirrorInv, OneAbout, Shaped, Entity, Told
<1>2. x \in Entity /\ x.id = e.id /\ x.kind = kind /\ x.row = row /\ x.class = class
  BY <1>1 DEF Entity
<1>3. /\ graph' = h /\ Unique(h)
      /\ flat' = [r \in SiteRows |-> IF r = row /\ Mirrored(kind, row) THEN class
                                     ELSE IF r = e.row /\ Mirrored(e.kind, r) THEN NoClass
                                     ELSE flat[r]]
  BY DEF EntityAndRows, Graph
<1> HIDE DEF x
<1>4. h.entities = (graph.entities \ {e}) \cup {x}
  <2>1. h = [graph EXCEPT !.entities = (graph.entities \ {e}) \cup {x}]
    BY DEF Changed
  <2> QED BY <1>1, <2>1 DEF OneAbout, Shaped
<1>5. x.row \in Devices \/ \A y \in graph.entities \ {e} : y.row # x.row
  <2> SUFFICES ASSUME row \notin Devices, NEW y \in graph.entities \ {e}, y.row = row PROVE FALSE
    BY <1>2
  <2>1. y.kind = kind
    <3>1. y.kind \in Kinds /\ y.row \in RowsOf(y.kind)
      BY <1>1 DEF OneAbout, Shaped, Entity
    <3> QED BY <3>1, KindOfRow
  <2>2. y # x
    BY <1>1, <1>2 DEF OneAbout
  <2> HIDE DEF h
  <2> QED BY <1>2, <1>3, <1>4, <2>1, <2>2 DEF Unique
<1>6. OneAbout(h)
  <2>1. x.row \in RowsOf(x.kind)
    BY <1>2
  <2> QED BY <1>1, <1>2, <1>5, <2>1, ChangedOne
<1> HIDE DEF h
<1>7. Alike(graph, h, R)
  BY <1>2, <1>4 DEF Alike
<1>8. /\ flat' \in [SiteRows -> Classes \cup {NoClass}]
      /\ \A r \in SiteRows \ (R \cup Devices) : flat'[r] = flat[r]
  BY <1>3 DEF MirrorInv
<1>9. ASSUME NEW r \in R \ Devices PROVE Carries(h, r, flat'[r])
  <2>1. CASE r = row
    <3>1. flat'[r] = class
      BY <1>1, <1>3, <1>9, <2>1 DEF Mirrored
    <3>2. \A y \in h.entities : y.row = row => y = x
      BY <1>2, <1>4, <1>5, <1>9, <2>1
    <3> QED BY <1>2, <1>4, <2>1, <3>1, <3>2, SiteAssumption DEF Carries
  <2>2. CASE r # row
    <3>1. r = e.row /\ flat'[r] = NoClass
      BY <1>1, <1>3, <1>9, <2>2 DEF Mirrored
    <3>2. \A y \in graph.entities : y.row = r => y = e
      BY <1>1, <1>9, <3>1 DEF OneAbout
    <3> QED BY <1>2, <1>4, <2>2, <3>1, <3>2 DEF Carries
  <2> QED BY <2>1, <2>2
<1>10. \A y \in h.entities : y.row \in rows'
  BY <1>1, <1>2, <1>4 DEF Told
<1> QED BY <1>3, <1>6, <1>7, <1>8, <1>9, <1>10, ToldAfter

(* An entity that is deleted leaves its row without a class.               *)
LEMMA DeleteKeepsMirror ==
  ASSUME MirrorInv, NEW e \in graph.entities, WithoutEntity(e), rows' = rows
  PROVE  MirrorInv'
<1> DEFINE h == Without(graph, {e.id})
           R == {e.row}
<1>1. OneAbout(graph) /\ Told(graph, flat, rows) /\ e.row \in SiteRows /\ e.row \in rows
  BY DEF MirrorInv, OneAbout, Shaped, Entity, Told
<1>2. graph' = h /\ flat' = IF Mirrored(e.kind, e.row) THEN [flat EXCEPT ![e.row] = NoClass] ELSE flat
  BY DEF WithoutEntity, Graph
<1>3. OneAbout(h) /\ h.entities = {y \in graph.entities : y.id \notin {e.id}}
  BY <1>1, WithoutTakes
<1> HIDE DEF h
<1>4. h.entities = graph.entities \ {e}
  BY <1>1, <1>3 DEF OneAbout
<1>5. Alike(graph, h, R)
  BY <1>4 DEF Alike
<1>6. /\ flat' \in [SiteRows -> Classes \cup {NoClass}]
      /\ \A r \in SiteRows : r # e.row => flat'[r] = flat[r]
      /\ e.row \notin Devices => flat'[e.row] = NoClass
  BY <1>1, <1>2 DEF MirrorInv, Mirrored
<1>7. e.row \notin Devices => Carries(h, e.row, NoClass)
  BY <1>1, <1>4 DEF Carries, OneAbout
<1>8. \A y \in h.entities : y.row \in rows'
  BY <1>1, <1>4 DEF Told
<1> QED BY <1>2, <1>3, <1>5, <1>6, <1>7, <1>8, ToldAfter

(* The backfill at a start adds to devices only.                           *)
LEMMA SetUpKeepsMirror ==
  ASSUME MirrorInv, SetUp
  PROVE  MirrorInv'
<1> DEFINE bare == {d \in rows \cap Devices : flat[d] # NoClass /\ Direct(graph, "equipment", d) = {}}
           full == Completed(graph, bare)
           b == Belonging(full, rows \cap Objects)
           there == {d \in rows \cap Devices : place[d] # NoPlace}
           h == AllSited(b, there)
<1>1. graph' = h /\ UNCHANGED <<rows, flat>>
  BY DEF SetUp, Graph, Completed
<1>2. OneAbout(graph)
  BY DEF MirrorInv
<1>3. bare \in SUBSET Devices /\ bare \subseteq rows /\ \A d \in bare : flat[d] \in Classes
  BY DEF MirrorInv, SiteRows
<1>4. there \in SUBSET Devices
  OBVIOUS
<1> HIDE DEF bare, there
<1>5. OneAbout(full) /\ Alike(graph, full, bare)
  BY <1>2, <1>3, DevicesCompleted
<1> HIDE DEF full
<1>6. SameEntities(full, b)
  BY <1>5, BelongingEdges DEF OneAbout
<1> HIDE DEF b
<1>7. SameEntities(b, h)
  BY <1>4, <1>6, AllSitedEdges DEF SameEntities
<1> HIDE DEF h
<1>8. SameEntities(full, h)
  BY <1>6, <1>7 DEF SameEntities
<1>9. OneAbout(h) /\ Alike(graph, h, bare)
  BY <1>5, <1>8, EdgesOnly DEF SameEntities, Alike
<1>10. \A e \in h.entities : e.row \in rows'
  BY <1>1, <1>3, <1>9, RowsAfter
<1>11. flat' \in [SiteRows -> Classes \cup {NoClass}]
  BY <1>1 DEF MirrorInv
<1> QED BY <1>1, <1>3, <1>9, <1>10, <1>11, ToldAfter

(* Every step keeps rows and graph in agreement.                           *)
LEMMA MirrorStep ==
  ASSUME MirrorInv, TreeInv, [SiteNext]_siteVars
  PROVE  MirrorInv'
<1>0. OneAbout(graph) /\ SameEntities(graph, graph)
  BY DEF MirrorInv, OneAbout, SameEntities
<1>1. ASSUME NEW class \in Classes \cup {NoClass}, NEW o \in Objects,
             CreateObject(o, class) \/ UpdateObject(o, class)
      PROVE  MirrorInv'
  BY <1>1, RowsKeepMirror DEF CreateObject, UpdateObject
<1>2. ASSUME NEW class \in Classes \cup {NoClass}, NEW l \in Locations \cup {NoPlace}, NEW d \in Devices,
             CreateDevice(d, l, class) \/ UpdateDevice(d, l, class)
      PROVE  MirrorInv'
  BY <1>2, RowsKeepMirror DEF CreateDevice, UpdateDevice
<1>3. ASSUME NEW class \in Classes \cup {NoClass}, NEW l \in Locations \cup {NoPlace}, NEW q \in Equipment,
             CreateEquipment(q, l, class) \/ UpdateEquipment(q, l, class)
      PROVE  MirrorInv'
  BY <1>3, RowsKeepMirror DEF CreateEquipment, UpdateEquipment
<1>4. ASSUME NEW class \in Classes \cup {NoClass}, NEW l \in Locations \cup {NoPlace}, NEW x \in Locations,
             CreateLocation(x, l, class)
      PROVE  MirrorInv'
  BY <1>4, RowsKeepMirror DEF CreateLocation
<1>5. ASSUME NEW class \in Classes \cup {NoClass}, NEW c \in Callers, MoveLocation(c, class)
      PROVE  MirrorInv'
  <2> DEFINE l == looked[c][1]
             above == looked[c][3]
  <2>1. CASE {l, above} \subseteq rows
    <3>1. LocationRow(l, above, class)
      BY <1>5, <2>1 DEF MoveLocation
    <3>2. l \in Locations
      <4>1. looked[c] \in (Locations \X {"under"} \X Locations) \cup (Nat \X {"isPartOf"} \X Nat)
        BY <1>5 DEF TreeInv, PlacesTyped, MoveLocation
      <4>2. looked[c] \in Nat \X {"isPartOf"} \X Nat => looked[c][2] = "isPartOf"
        OBVIOUS
      <4>3. looked[c][2] = "under"
        BY <1>5 DEF MoveLocation
      <4> QED BY <4>1, <4>2, <4>3
    <3> QED BY <3>1, <3>2, RowsKeepMirror
  <2>2. CASE ~({l, above} \subseteq rows)
    BY <1>0, <1>5, <2>2, EdgesKeepMirror DEF MoveLocation
  <2> QED BY <2>1, <2>2
<1>6. ASSUME NEW d \in Devices, DiscoverDevice(d) PROVE MirrorInv'
  BY <1>0, <1>6, EdgesKeepMirror DEF DiscoverDevice, Saved
<1>7. ASSUME NEW o \in Objects, DiscoverObject(o) \/ ImportObject(o) PROVE MirrorInv'
  BY <1>0, <1>7, EdgesKeepMirror DEF DiscoverObject, ImportObject, Saved
<1>8. ASSUME NEW d \in Devices, DeleteDevice(d) PROVE MirrorInv'
  BY <1>8, RemovalKeepsMirror DEF DeleteDevice
<1>9. ASSUME NEW o \in Objects, DeleteObject(o) PROVE MirrorInv'
  BY <1>9, RemovalKeepsMirror DEF DeleteObject
<1>10. ASSUME NEW q \in Equipment, DeleteEquipment(q) PROVE MirrorInv'
  BY <1>10, RemovalKeepsMirror DEF DeleteEquipment
<1>11. ASSUME NEW l \in Locations, NEW levels \in SUBSET Locations, NEW class \in Classes,
              GenerateLevels(l, levels, class)
       PROVE  MirrorInv'
  BY <1>11, LevelsKeepMirror
<1>12. ASSUME NEW c \in Callers, NEW l \in Locations, NEW above \in Locations, LookAbove(c, l, above)
       PROVE  MirrorInv'
  BY <1>0, <1>12, EdgesKeepMirror DEF LookAbove
<1>13. ASSUME NEW r \in SiteRows, Pin(r) PROVE MirrorInv'
  BY <1>0, <1>13, EdgesKeepMirror DEF Pin
<1>14. ASSUME NEW l \in Locations, DeleteLocation(l) \/ DeleteSubtree(l) PROVE MirrorInv'
  BY <1>14, RemovalKeepsMirror DEF DeleteLocation, DeleteSubtree
<1>15. ASSUME NEW kind \in Kinds, NEW row \in SiteRows, NEW class \in Classes,
              \/ CreateEntity(kind, row, class)
              \/ \E e \in graph.entities : UpdateEntity(e, kind, row, class)
       PROVE  MirrorInv'
  <2>1. CASE CreateEntity(kind, row, class)
    BY <2>1, CreateKeepsMirror DEF CreateEntity, WithEntity, Graph
  <2>2. ASSUME NEW e \in graph.entities, UpdateEntity(e, kind, row, class) PROVE MirrorInv'
    BY <2>2, UpdateKeepsMirror DEF UpdateEntity
  <2> QED BY <1>15, <2>1, <2>2
<1>16. ASSUME NEW d \in Devices, NEW class \in Classes, MarkController(d, class) PROVE MirrorInv'
  <2>1. "controller" \in Kinds /\ d \in RowsOf("controller") /\ d \in rows /\ d \in Devices
    BY <1>16 DEF Kinds, RowsOf, MarkController
  <2>2. /\ graph' = With(graph, "controller", d, class) /\ Unique(With(graph, "controller", d, class))
        /\ rows' = rows /\ flat' = IF Mirrored("controller", d) THEN [flat EXCEPT ![d] = class] ELSE flat
    BY <1>16 DEF MarkController, Graph, Mirrored
  <2> QED BY <2>1, <2>2, CreateKeepsMirror
<1>17. ASSUME NEW e \in graph.entities, DeleteEntity(e) PROVE MirrorInv'
  BY <1>17, DeleteKeepsMirror DEF DeleteEntity
<1>18. ASSUME NEW c \in Callers, StorePart(c) \/ \E e, whole \in 1..graph.last : LookForParts(c, e, whole)
       PROVE  MirrorInv'
  <2>1. UNCHANGED <<rows, flat>> /\ (UNCHANGED graph \/ graph' = [graph EXCEPT !.edges = graph.edges \cup {looked[c]}])
    BY <1>18 DEF StorePart, LookForParts, Graph
  <2>2. SameEntities(graph, graph')
    BY <1>0, <2>1 DEF OneAbout, SameEntities, Shaped
  <2> QED BY <2>1, <2>2, EdgesKeepMirror
<1>19. ASSUME NEW x \in graph.edges, DeleteEdge(x) PROVE MirrorInv'
  <2>1. UNCHANGED <<rows, flat>> /\ graph' = [graph EXCEPT !.edges = graph.edges \ {x}]
    BY <1>19 DEF DeleteEdge
  <2>2. SameEntities(graph, graph')
    BY <1>0, <2>1 DEF OneAbout, SameEntities, Shaped
  <2> QED BY <2>1, <2>2, EdgesKeepMirror
<1>20. CASE SetUp
  BY <1>20, SetUpKeepsMirror
<1>21. CASE UNCHANGED siteVars
  BY <1>0, <1>21, EdgesKeepMirror DEF siteVars
<1> QED BY <1>1, <1>2, <1>3, <1>4, <1>5, <1>6, <1>7, <1>8, <1>9, <1>10, <1>11, <1>12, <1>13, <1>14,
           <1>15, <1>16, <1>17, <1>18, <1>19, <1>20, <1>21, Zenon DEF SiteNext

(* Both sides agree and parents lead to the top: in the first state, and   *)
(* after every step.                                                       *)
LEMMA SiteHolds == SiteSpec => [](MirrorInv /\ TreeInv)
<1>1. SiteInit => MirrorInv /\ TreeInv
  <2> SUFFICES ASSUME SiteInit PROVE MirrorInv /\ TreeInv
    OBVIOUS
  <2>1. /\ graph = [entities |-> {}, edges |-> {}, last |-> 0] /\ flat = [r \in SiteRows |-> NoClass]
        /\ place = [r \in Placed |-> NoPlace] /\ looked = [c \in Callers |-> Idle] /\ rows = used
    BY DEF SiteInit
  <2>2. graph.entities = {} /\ graph.last = 0 /\ Shaped(graph)
    BY <2>1 DEF Shaped
  <2>3. MirrorInv
    BY <2>1, <2>2 DEF MirrorInv, OneAbout, Told
  <2>4. NoLoop
    BY <2>1, SiteAssumption DEF NoLoop, Placed
  <2>5. PlacesTyped
    BY <2>1 DEF PlacesTyped
  <2> QED BY <2>1, <2>3, <2>4, <2>5 DEF TreeInv, Straight
<1>2. MirrorInv /\ TreeInv /\ [SiteNext]_siteVars => (MirrorInv /\ TreeInv)'
  <2> SUFFICES ASSUME MirrorInv, TreeInv, [SiteNext]_siteVars PROVE MirrorInv' /\ TreeInv'
    OBVIOUS
  <2>1. graph.last \in Nat
    BY DEF MirrorInv, OneAbout, Shaped
  <2> QED BY <2>1, MirrorStep, TreeStep
<1> QED BY <1>1, <1>2, PTL DEF SiteSpec

(* ClassesAgree: whichever side is written, re-linked, deleted, generated  *)
(* or completed at a start, a row and the entity about it are of one class,*)
(* and no location is above its own parent unless two moves raced.         *)
THEOREM SidesAgree == SiteSpec => []ClassesAgree
<1>1. MirrorInv /\ TreeInv => ClassesAgree
  <2> SUFFICES ASSUME MirrorInv, TreeInv PROVE ClassesAgree
    OBVIOUS
  <2>0. OneAbout(graph) /\ Told(graph, flat, rows)
    BY DEF MirrorInv
  <2>1. ASSUME NEW r \in SiteRows \ Devices
        PROVE  LET about == {e \in graph.entities : e.row = r}
               IN IF flat[r] = NoClass THEN about = {}
                  ELSE \E e \in about : about = {e} /\ e.class = flat[r]
    <3> DEFINE about == {e \in graph.entities : e.row = r}
    <3>1. CASE flat[r] = NoClass
      <4>1. \A e \in graph.entities : e.row = r => e.class = NoClass /\ e.class \in Classes
        BY <2>0, <2>1, <3>1 DEF Told, OneAbout, Shaped, Entity
      <4> QED BY <3>1, <4>1, SiteAssumption
    <3>2. CASE flat[r] # NoClass
      <4>1. PICK e \in graph.entities : e.row = r
        BY <2>0, <2>1, <3>2 DEF Told
      <4>2. e \in about /\ about = {e} /\ e.class = flat[r]
        BY <2>0, <2>1, <4>1 DEF Told, OneAbout
      <4> QED BY <3>2, <4>2
    <3> QED BY <3>1, <3>2
  <2>2. ~raced => ~\E l \in Locations : OnCycle(l)
    BY CycleIsLoop DEF TreeInv, Straight
  <2> QED BY <2>1, <2>2 DEF ClassesAgree
<1> QED BY <1>1, SiteHolds, PTL
=============================================================================
