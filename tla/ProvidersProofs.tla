-------------------------- MODULE ProvidersProofs --------------------------
(***************************************************************************)
(* The provider registry for every set of models, types and points, every  *)
(* configuration that may be submitted, and every bound of the breaker:    *)
(* its state is well typed, the owner table says exactly what the          *)
(* registered providers write, and what is registered is what the rows of  *)
(* simulation_model_configs ask for, but for the models that drifted.      *)
(*                                                                         *)
(* Ownership alone is not inductive.  A registration must come from an     *)
(* enabled row (Asked, Tried), and a reset must not set the status of an   *)
(* object that left the registry (Found).  What is registered is followed  *)
(* through every request and sweep by a second invariant (Truthful), which *)
(* rests on the first.                                                     *)
(***************************************************************************)
EXTENDS Providers, TLAPS

Rows == Config \cup {NoConfig}
Request0 == [pc : {"idle", "begin", "release", "check", "register", "deleting", "drop", "load",
                   "reset", "reinit"},
             m : Models \cup Ids \cup {None}, cfg : Rows, old : Rows,
             todo : (SUBSET Ids) \cup (SUBSET Models), clean : BOOLEAN]
Sweep0 == [pc : {"idle", "probe", "visit", "register"}, list : [Models -> Rows],
           todo : SUBSET Models, well : SUBSET Models, m : Models \cup {None}, cfg : Rows]

RegistryTyped ==
  /\ reg \in [Ids -> Provider \cup {Absent}]
  /\ owner \in [Points -> Ids \cup {None}]

Typed == TypeOK /\ req \in Request0 /\ sweep \in Sweep0

\* What the request is about is there: a model; an enabled row when it comes
\* to registering; enabled rows when it loads them.
Asked ==
  /\ req.pc \in {"begin", "release", "check", "register", "deleting"} => req.m \in Models
  /\ req.pc = "register" => req.cfg \in Config
  /\ req.pc = "load" => req.todo \subseteq EnabledModels

\* The sweep registers an enabled row whose breaker is closed.
Tried ==
  sweep.pc = "register" =>
    sweep.m \in Models /\ sweep.cfg \in Config /\ fails[sweep.m] < MaxFailures

\* What reset still has to do is registered, or known to have left.
Found ==
  /\ req.pc \in {"reset", "reinit"} =>
       req.todo \subseteq Ids /\ \A id \in req.todo \ stale : Registered(id)
  /\ req.pc = "reinit" => req.m \in Ids /\ (req.m \in stale \/ Registered(req.m))

IInv == Typed /\ OwnershipAgrees /\ Asked /\ Tried /\ Found

\* Nothing leaves the registry during a reset without being noted.
Noted ==
  /\ stale \subseteq stale'
  /\ req.pc \in {"reset", "reinit"} =>
       \A id \in Ids : Registered(id) => Registered(id)' \/ id \in stale'

---------------------------------------------------------------------------
\* A provider is not the absence of one.
LEMMA ProviderIsPresent == \A p \in Provider : p # Absent /\ p.status # "absent"
BY DEF Provider, Absent

\* An enabled row is a configuration.
LEMMA EnabledIsConfig == \A c \in Rows : c.enabled => c \in Config /\ c.type \in Types /\ c.outs \in SUBSET Points
BY DEF Rows, Config, NoConfig

\* Giving up the points of a provider leaves a table of owners.
LEMMA DisownedTyped ==
  ASSUME RegistryTyped, NEW id PROVE Disowned(id) \in [Points -> Ids \cup {None}]
BY DEF RegistryTyped, Disowned

\* Unregistering one provider, registered or not, keeps the table exact.
LEMMA UnregisterKeeps ==
  ASSUME RegistryTyped, OwnershipAgrees, NEW id, Unregister(id)
  PROVE  RegistryTyped' /\ OwnershipAgrees' /\ Noted
<1>1. RegistryTyped'
  BY DisownedTyped DEF RegistryTyped, Unregister
<1>2. OwnershipAgrees'
  <2> SUFFICES ASSUME NEW p \in Points, NEW i \in Ids
               PROVE  owner'[p] = i <=> Registered(i)' /\ p \in reg'[i].outs
    BY DEF OwnershipAgrees
  <2>1. i # None
    BY NoneAssumption DEF Ids
  <2>2. owner'[p] = (IF Registered(id) /\ p \in reg[id].outs /\ owner[p] = id THEN None ELSE owner[p])
    BY DEF Unregister, Disowned
  <2>3. CASE i = id
    <3>1. ~Registered(i)'
      BY <2>3 DEF Unregister, Registered, RegistryTyped
    <3>2. owner'[p] # i
      BY <2>1, <2>2, <2>3 DEF OwnershipAgrees
    <3> QED
      BY <3>1, <3>2
  <2>4. CASE i # id
    <3>1. reg'[i] = reg[i]
      BY <2>4 DEF Unregister, RegistryTyped
    <3>2. owner'[p] = i <=> owner[p] = i
      BY <2>1, <2>2, <2>4
    <3> QED
      BY <3>1, <3>2 DEF OwnershipAgrees, Registered
  <2> QED
    BY <2>3, <2>4
<1>3. Noted
  <2>1. \A i \in Ids : i # id => reg'[i] = reg[i]
    BY DEF Unregister, RegistryTyped
  <2>2. stale \subseteq stale'
    BY DEF Unregister, LeavesStale
  <2>3. ASSUME req.pc \in {"reset", "reinit"}, NEW i \in Ids, Registered(i)
        PROVE  Registered(i)' \/ i \in stale'
    <3>1. CASE i = id
      BY <2>3, <3>1 DEF Unregister, LeavesStale
    <3>2. CASE i # id
      BY <2>1, <2>3, <3>2 DEF Registered
    <3> QED
      BY <3>1, <3>2
  <2> QED
    BY <2>2, <2>3 DEF Noted
<1> QED
  BY <1>1, <1>2, <1>3

\* Registering, and failing to register, keep it exact too.
LEMMA RegisterKeeps ==
  ASSUME RegistryTyped, OwnershipAgrees, clock \in {"running", "paused", "stopped"},
         NEW id \in Ids, NEW outs \in SUBSET Points, NEW raised \in BOOLEAN, Register(id, outs, raised)
  PROVE  RegistryTyped' /\ OwnershipAgrees' /\ Noted
<1>1. Fresh(outs) \in Provider /\ Fresh(outs).outs = outs
  BY DEF Fresh, Provider
<1>2. Fresh(outs) # Absent
  BY <1>1, ProviderIsPresent
<1>3. Disowned(id) \in [Points -> Ids \cup {None}]
  BY DisownedTyped
<1>4. RegistryTyped'
  <2>1. reg' \in [Ids -> Provider \cup {Absent}]
    BY <1>1 DEF Register, RegistryTyped
  <2>2. owner' \in [Points -> Ids \cup {None}]
    BY <1>3 DEF Register
  <2> QED
    BY <2>1, <2>2 DEF RegistryTyped
<1>5. OwnershipAgrees'
  <2> SUFFICES ASSUME NEW p \in Points, NEW i \in Ids
               PROVE  owner'[p] = i <=> Registered(i)' /\ p \in reg'[i].outs
    BY DEF OwnershipAgrees
  <2>1. i # None
    BY NoneAssumption DEF Ids
  <2>2. Disowned(id)[p] = IF Registered(id) /\ p \in reg[id].outs /\ owner[p] = id THEN None ELSE owner[p]
    BY DEF Disowned
  <2>3. Disowned(id)[p] # id
    BY <2>2, NoneAssumption DEF OwnershipAgrees, Ids
  <2>4. i # id => (Disowned(id)[p] = i <=> owner[p] = i)
    BY <2>1, <2>2
  <2>5. i # id => reg'[i] = reg[i]
    BY DEF Register, RegistryTyped
  <2>6. reg'[id] = IF raised THEN Absent ELSE Fresh(outs)
    BY DEF Register, RegistryTyped
  <2>7. CASE raised
    <3>1. owner'[p] = Disowned(id)[p]
      BY <2>7 DEF Register
    <3> QED
      BY <2>3, <2>4, <2>5, <2>6, <2>7, <3>1 DEF OwnershipAgrees, Registered
  <2>8. CASE ~raised
    <3>1. owner'[p] = IF p \in outs THEN id ELSE Disowned(id)[p]
      BY <2>8 DEF Register
    <3>2. p \in outs => Disowned(id)[p] = None
      BY <2>8 DEF Register, Conflict
    <3>3. CASE i = id
      BY <1>1, <1>2, <2>3, <2>6, <2>8, <3>1, <3>3 DEF Registered
    <3>4. CASE i # id
      BY <2>1, <2>4, <2>5, <3>1, <3>2, <3>4 DEF OwnershipAgrees, Registered
    <3> QED
      BY <3>3, <3>4
  <2> QED
    BY <2>7, <2>8
<1>6. Noted
  <2>1. \A i \in Ids : i # id => reg'[i] = reg[i]
    BY DEF Register, RegistryTyped
  <2>2. stale \subseteq stale'
    BY DEF Register, LeavesStale
  <2>3. ASSUME req.pc \in {"reset", "reinit"}, NEW i \in Ids, Registered(i)
        PROVE  Registered(i)' \/ i \in stale'
    <3>1. CASE i = id
      BY <2>3, <3>1 DEF Register, LeavesStale
    <3>2. CASE i # id
      BY <2>1, <2>3, <3>2 DEF Registered
    <3> QED
      BY <3>1, <3>2
  <2> QED
    BY <2>2, <2>3 DEF Noted
<1> QED
  BY <1>4, <1>5, <1>6

\* A change of the status of providers that are there is no matter of
\* ownership.
Restatus ==
  /\ reg' \in [Ids -> Provider \cup {Absent}]
  /\ \A id \in Ids : (reg'[id] = Absent <=> reg[id] = Absent)
                       /\ (reg[id] # Absent => reg'[id].outs = reg[id].outs)
  /\ owner' = owner

(* A new status changes no registration.                                   *)
LEMMA RestatusKeeps ==
  ASSUME RegistryTyped, OwnershipAgrees, Restatus
  PROVE  /\ RegistryTyped' /\ OwnershipAgrees'
         /\ \A id \in Ids : Registered(id) => Registered(id)'
<1>1. \A id \in Ids : Registered(id)' <=> Registered(id)
  BY DEF Restatus, Registered
<1>2. RegistryTyped'
  BY DEF Restatus, RegistryTyped
<1>3. OwnershipAgrees'
  BY <1>1 DEF OwnershipAgrees, Restatus, Registered
<1> QED
  BY <1>1, <1>2, <1>3

---------------------------------------------------------------------------
\* No request and no sweep: the records Init starts from.
LEMMA IdleTyped ==
  /\ IdleReq \in Request0 /\ IdleReq.pc = "idle"
  /\ IdleSweep \in Sweep0 /\ IdleSweep.pc = "idle" /\ IdleSweep.list \in [Models -> Rows]
BY DEF IdleReq, IdleSweep, Request0, Sweep0, Rows

\* What Serve leaves in req.
LEMMA ServeTyped ==
  ASSUME NEW pc \in {"begin", "release", "deleting"}, NEW m \in Models, NEW c \in Rows, NEW old \in Rows,
         Serve(pc, m, c, old)
  PROVE  req' \in Request0 /\ req'.pc = pc /\ req'.m = m
BY DEF Serve, IdleReq, Request0

\* What the sweep holds once it is through with a model.
LEMMA VisitedTyped ==
  ASSUME sweep \in Sweep0, NEW m \in Models
  PROVE  Visited(m) \in Sweep0 /\ Visited(m).pc # "register"
BY IdleTyped DEF Visited, Sweep0, Rows

\* A step that leaves the registry, the rows and the sweep alone keeps the
\* invariant if it leaves the request in order.
LEMMA RequestOnly ==
  ASSUME IInv, UNCHANGED <<reg, owner, fails, sweep>>, db' \in [Models -> Rows],
         clock' \in {"running", "paused", "stopped"}, req' \in Request0, Asked', Found'
  PROVE  IInv'
<1>1. TypeOK'
  BY DEF IInv, Typed, TypeOK, Rows
<1>2. OwnershipAgrees' /\ Tried'
  BY DEF IInv, OwnershipAgrees, Registered, Tried
<1> QED
  BY <1>1, <1>2 DEF IInv, Typed

\* A request that is begun, or over, is in order.
LEMMA Begun ==
  ASSUME req'.pc \in {"idle", "begin", "release", "check", "deleting"},
         req'.pc # "idle" => req'.m \in Models
  PROVE  Asked' /\ Found'
BY DEF Asked, Found

\* The parts of the type invariant the steps below lean on.
LEMMA RowsTyped == ASSUME IInv PROVE db \in [Models -> Rows] /\ RegistryTyped
BY DEF IInv, Typed, TypeOK, Rows, RegistryTyped

\* Requests: none of them but the removal, pause and resume touches the
\* registry at once.
LEMMA RequestKeeps == ASSUME IInv, Request PROVE IInv'
<1> USE RowsTyped
<1>1. ASSUME NEW m \in Models, NEW c \in Offered[m], Create(m, c) PROVE IInv'
  <2>1. c \in Config /\ db' \in [Models -> Rows]
    BY <1>1, OfferedAssumption DEF Create, Rows
  <2>2. CASE c.enabled
    BY <1>1, <2>1, <2>2, ServeTyped, Begun, RequestOnly DEF Create, Rows, IInv, Typed, TypeOK
  <2>3. CASE ~c.enabled
    BY <1>1, <2>1, <2>3, IdleTyped, Begun, RequestOnly DEF Create, IInv, Typed, TypeOK
  <2> QED
    BY <2>2, <2>3
<1>2. ASSUME NEW m \in Models, NEW c \in Offered[m], Save(m, c) PROVE IInv'
  <2>1. c \in Config /\ db' \in [Models -> Rows]
    BY <1>2, OfferedAssumption DEF Save, Rows
  <2> QED
    BY <1>2, <2>1, IdleTyped, Begun, RequestOnly DEF Save, IInv, Typed, TypeOK
<1>3. ASSUME NEW m \in Models, NEW c \in Offered[m], Apply(m, c) PROVE IInv'
  <2>1. c \in Rows /\ db' \in [Models -> Rows] /\ db[m] \in Rows
    BY <1>3, OfferedAssumption DEF Apply, Rows
  <2> QED
    BY <1>3, <2>1, ServeTyped, Begun, RequestOnly DEF Apply, IInv, Typed, TypeOK
<1>4. ASSUME NEW m \in Models, Toggle(m) PROVE IInv'
  <2>1. db[m] \in Config
    BY <1>4 DEF Toggle, Rows
  <2>2. [db[m] EXCEPT !.enabled = ~@] \in Config
    BY <2>1 DEF Config
  <2>3. db' \in [Models -> Rows]
    BY <1>4, <2>2 DEF Toggle, Rows
  <2> QED
    BY <1>4, <2>3, ServeTyped, Begun, RequestOnly DEF Toggle, Rows, IInv, Typed, TypeOK
<1>5. ASSUME NEW m \in Models, AskReload(m) PROVE IInv'
  BY <1>5, ServeTyped, Begun, RequestOnly DEF AskReload, Rows, IInv, Typed, TypeOK
<1>6. ASSUME NEW m \in Models, Delete(m) PROVE IInv'
  <2>1. RegistryTyped' /\ OwnershipAgrees'
    BY <1>6, UnregisterKeeps DEF Delete, IInv
  <2>2. req' \in Request0 /\ req'.pc = "deleting" /\ req'.m = m
    BY <1>6, ServeTyped DEF Delete, Rows
  <2>3. Asked' /\ Found'
    BY <2>2, Begun
  <2>4. Typed' /\ Tried'
    BY <1>6, <2>1, <2>2 DEF Delete, IInv, Typed, TypeOK, Tried, RegistryTyped
  <2> QED
    BY <2>1, <2>3, <2>4 DEF IInv
<1>7. CASE Reconcile
  <2>1. req' \in Request0 /\ req'.pc = "drop"
    BY <1>7 DEF Reconcile, IdleReq, Request0, RegisteredIds, Rows
  <2>2. Asked' /\ Found'
    BY <2>1 DEF Asked, Found
  <2> QED
    BY <1>7, <2>1, <2>2, RequestOnly DEF Reconcile, IInv, Typed, TypeOK
<1>8. CASE Pause \/ Resume
  <2>1. Restatus
    BY <1>8 DEF Pause, Resume, WithStatus, Restatus, RegistryTyped, Provider, Absent
  <2>2. RegistryTyped' /\ OwnershipAgrees'
    BY <2>1, RestatusKeeps DEF IInv
  <2>3. Asked' /\ Found' /\ Tried'
    BY <1>8 DEF Pause, Resume, IInv, Asked, Found, Tried
  <2>4. Typed'
    BY <1>8, <2>2 DEF Pause, Resume, IInv, Typed, TypeOK, RegistryTyped
  <2> QED
    BY <2>2, <2>3, <2>4 DEF IInv
<1>9. CASE Reset
  <2>1. req' \in Request0 /\ req'.pc = "reset" /\ req'.todo = RegisteredIds
    BY <1>9 DEF Reset, IdleReq, Request0, RegisteredIds, Rows
  <2>2. Asked' /\ Found'
    BY <1>9, <2>1 DEF Reset, Asked, Found, RegisteredIds, Registered
  <2> QED
    BY <1>9, <2>1, <2>2, RequestOnly DEF Reset, IInv, Typed, TypeOK
<1> QED
  BY <1>1, <1>2, <1>3, <1>4, <1>5, <1>6, <1>7, <1>8, <1>9 DEF Request

---------------------------------------------------------------------------
\* A step of the request that changes the registry and leaves the sweep.
LEMMA RegistryStep ==
  ASSUME IInv, RegistryTyped', OwnershipAgrees', UNCHANGED <<clock, fails, sweep>>,
         db' \in [Models -> Rows], req' \in Request0, Asked', Found'
  PROVE  IInv'
<1>1. Typed'
  BY DEF IInv, Typed, TypeOK, RegistryTyped, Rows
<1>2. Tried'
  BY DEF IInv, Tried
<1> QED
  BY <1>1, <1>2 DEF IInv

\* Serving a request: the registry changes by whole register and unregister
\* calls, and by the statuses a reset sets on objects that are still there.
LEMMA ServingKeeps == ASSUME IInv, Serving PROVE IInv'
<1> USE RowsTyped
<1>0. req \in Request0 /\ OwnershipAgrees /\ Asked /\ Found /\ clock \in {"running", "paused", "stopped"}
  BY DEF IInv, Typed, TypeOK
<1>1. CASE ApplyRelease
  <2>1. RegistryTyped' /\ OwnershipAgrees'
    <3>1. CASE IdOf(req.m, req.old) # IdOf(req.m, req.cfg)
      BY <1>0, <1>1, <3>1, UnregisterKeeps DEF ApplyRelease
    <3>2. CASE IdOf(req.m, req.old) = IdOf(req.m, req.cfg)
      BY <1>0, <1>1, <3>2 DEF ApplyRelease, RegistryTyped, OwnershipAgrees, Registered
    <3> QED
      BY <3>1, <3>2
  <2>2. req' \in Request0 /\ req'.pc = "check" /\ req'.m \in Models
    BY <1>0, <1>1 DEF ApplyRelease, Request0, Asked
  <2> QED
    BY <1>1, <2>1, <2>2, Begun, RegistryStep DEF ApplyRelease
<1>2. CASE ApplyCheck
  <2>1. req.m \in Models
    BY <1>0, <1>2 DEF ApplyCheck, Asked
  <2>2. CASE req.cfg.enabled /\ NeedsRestart
    BY <1>0, <1>2, <2>1, <2>2, ServeTyped, Begun, RequestOnly DEF ApplyCheck, Rows
  <2>3. CASE ~(req.cfg.enabled /\ NeedsRestart)
    BY <1>0, <1>2, <2>3, IdleTyped, Begun, RequestOnly DEF ApplyCheck
  <2> QED
    BY <2>2, <2>3
<1>3. CASE ReloadRelease
  <2>1. RegistryTyped' /\ OwnershipAgrees'
    BY <1>0, <1>3, UnregisterKeeps DEF ReloadRelease
  <2>2. req.m \in Models /\ db[req.m] \in Rows
    BY <1>0, <1>3 DEF ReloadRelease, Asked
  <2>3. req' \in Request0 /\ Asked' /\ Found'
    <3>1. CASE db[req.m].enabled
      <4>1. db[req.m] \in Config
        BY <2>2, <3>1, EnabledIsConfig
      <4>2. req' = [req EXCEPT !.pc = "register", !.cfg = db[req.m]]
        BY <1>3, <3>1 DEF ReloadRelease
      <4>3. req' \in Request0 /\ req'.pc = "register" /\ req'.m = req.m /\ req'.cfg = db[req.m]
        BY <1>0, <2>2, <4>2 DEF Request0
      <4> QED
        BY <2>2, <4>1, <4>3 DEF Asked, Found
    <3>2. CASE ~db[req.m].enabled
      BY <1>3, <3>2, IdleTyped, Begun DEF ReloadRelease
    <3> QED
      BY <3>1, <3>2
  <2> QED
    BY <1>3, <2>1, <2>3, RegistryStep DEF ReloadRelease
<1>4. CASE ReloadRegister
  <2>1. req.m \in Models /\ req.cfg \in Config
    BY <1>0, <1>4 DEF ReloadRegister, Asked
  <2>2. IdOf(req.m, req.cfg) \in Ids /\ req.cfg.outs \in SUBSET Points
    BY <2>1 DEF IdOf, Ids, Config
  <2>3. PICK raised \in BOOLEAN : Register(IdOf(req.m, req.cfg), req.cfg.outs, raised)
    BY <1>4 DEF ReloadRegister
  <2>4. RegistryTyped' /\ OwnershipAgrees'
    BY <1>0, <2>2, <2>3, RegisterKeeps
  <2> QED
    BY <1>4, <2>4, IdleTyped, Begun, RegistryStep DEF ReloadRegister
<1>5. CASE DeleteRow
  <2>1. db' \in [Models -> Rows]
    BY <1>5 DEF DeleteRow, Rows
  <2> QED
    BY <1>0, <1>5, <2>1, IdleTyped, Begun, RequestOnly DEF DeleteRow
<1>6. CASE ReconcileDrop
  <2>1. CASE req.todo = {}
    <3>1. req' = [req EXCEPT !.pc = "load", !.todo = EnabledModels]
      BY <1>6, <2>1 DEF ReconcileDrop
    <3>2. EnabledModels' = EnabledModels /\ EnabledModels \in SUBSET Models
      BY <1>6 DEF ReconcileDrop, EnabledModels
    <3>3. req' \in Request0 /\ req'.pc = "load" /\ req'.todo = EnabledModels
      BY <1>0, <3>1, <3>2 DEF Request0
    <3>4. Asked' /\ Found'
      BY <3>2, <3>3 DEF Asked, Found
    <3> QED
      BY <1>0, <1>6, <2>1, <3>3, <3>4, RequestOnly DEF ReconcileDrop
  <2>2. CASE req.todo # {}
    <3>1. PICK id \in req.todo : Unregister(id) /\ req' = [req EXCEPT !.todo = @ \ {id}]
      BY <1>6, <2>2 DEF ReconcileDrop
    <3>2. RegistryTyped' /\ OwnershipAgrees'
      BY <1>0, <3>1, UnregisterKeeps
    <3>3. req' \in Request0 /\ req'.pc = "drop"
      BY <1>0, <1>6, <3>1 DEF ReconcileDrop, Request0
    <3>4. Asked' /\ Found'
      BY <3>3 DEF Asked, Found
    <3> QED
      BY <1>6, <3>2, <3>3, <3>4, RegistryStep DEF ReconcileDrop
  <2> QED
    BY <2>1, <2>2
<1>7. CASE ReconcileLoad
  <2>1. PICK m \in req.todo :
          \/ /\ \E raised \in BOOLEAN : Register(IdOf(m, db[m]), db[m].outs, raised)
             /\ req' = [req EXCEPT !.todo = @ \ {m}]
          \/ /\ req' = [req EXCEPT !.todo = @ \ {m}, !.clean = FALSE]
             /\ UNCHANGED <<reg, owner, stale>>
    BY <1>7 DEF ReconcileLoad
  <2>2. m \in EnabledModels /\ req.pc = "load" /\ UNCHANGED <<db, clock, fails, sweep>>
    BY <1>0, <1>7, <2>1 DEF ReconcileLoad, Asked
  <2>3. m \in Models /\ db[m] \in Config
    BY <2>2, EnabledIsConfig DEF EnabledModels
  <2>4. req' \in Request0 /\ req'.pc = "load" /\ req'.todo \subseteq req.todo
    <3>1. req.todo \ {m} \in SUBSET Models
      BY <1>0, <2>2 DEF Asked, EnabledModels
    <3>2. \/ req' = [req EXCEPT !.todo = @ \ {m}]
          \/ req' = [req EXCEPT !.todo = @ \ {m}, !.clean = FALSE]
      BY <2>1
    <3>3. CASE req' = [req EXCEPT !.todo = @ \ {m}]
      BY <1>0, <2>2, <3>1, <3>3 DEF Request0
    <3>4. CASE req' = [req EXCEPT !.todo = @ \ {m}, !.clean = FALSE]
      BY <1>0, <2>2, <3>1, <3>4 DEF Request0
    <3> QED
      BY <3>2, <3>3, <3>4
  <2>5. Asked' /\ Found'
    BY <1>0, <2>2, <2>4 DEF Asked, Found, EnabledModels
  <2>6. CASE \E raised \in BOOLEAN : Register(IdOf(m, db[m]), db[m].outs, raised)
    <3>1. IdOf(m, db[m]) \in Ids /\ db[m].outs \in SUBSET Points
      BY <2>3 DEF IdOf, Ids, Config
    <3>2. PICK raised \in BOOLEAN : Register(IdOf(m, db[m]), db[m].outs, raised)
      BY <2>6
    <3>3. RegistryTyped' /\ OwnershipAgrees'
      BY <1>0, <3>1, <3>2, RegisterKeeps
    <3> QED
      BY <2>2, <2>4, <2>5, <3>3, RegistryStep
  <2>7. CASE UNCHANGED <<reg, owner, stale>>
    BY <1>0, <2>2, <2>4, <2>5, <2>7, RequestOnly
  <2> QED
    BY <2>1, <2>6, <2>7
<1>8. CASE ReconcileEnd
  BY <1>0, <1>8, IdleTyped, Begun, RequestOnly DEF ReconcileEnd
<1>9. ASSUME NEW id \in Ids, ResetStop(id) PROVE IInv'
  <2>1. id \in stale \/ Registered(id)
    BY <1>0, <1>9 DEF ResetStop, Found
  <2>2. Restatus
    <3>1. CASE id \in stale
      BY <1>9, <3>1 DEF ResetStop, Restatus, RegistryTyped
    <3>2. CASE id \notin stale
      <4>1. reg[id] \in Provider
        BY <2>1, <3>2 DEF Registered, RegistryTyped
      <4>2. reg' = [reg EXCEPT ![id] = [[reg[id] EXCEPT !.status = "stopped"] EXCEPT !.bad = FALSE]]
        BY <1>9, <3>2 DEF ResetStop, RegistryTyped
      <4>3. [[reg[id] EXCEPT !.status = "stopped"] EXCEPT !.bad = FALSE] \in Provider
            /\ [[reg[id] EXCEPT !.status = "stopped"] EXCEPT !.bad = FALSE].outs = reg[id].outs
        BY <4>1 DEF Provider
      <4> QED
        BY <1>9, <2>1, <3>2, <4>2, <4>3, ProviderIsPresent DEF ResetStop, Restatus, RegistryTyped, Registered
    <3> QED
      BY <3>1, <3>2
  <2>3. RegistryTyped' /\ OwnershipAgrees' /\ \A i \in Ids : Registered(i) => Registered(i)'
    BY <1>0, <2>2, RestatusKeeps
  <2>4. req' \in Request0 /\ req'.pc = "reinit" /\ req'.m = id /\ req'.todo = req.todo \ {id}
    <3>1. req.todo \ {id} \in SUBSET Ids
      BY <1>0, <1>9 DEF ResetStop, Found
    <3> QED
      BY <1>0, <1>9, <3>1 DEF ResetStop, Request0
  <2>5. Asked' /\ Found'
    BY <1>0, <1>9, <2>1, <2>3, <2>4 DEF Asked, Found, ResetStop
  <2> QED
    BY <1>9, <2>3, <2>4, <2>5, RegistryStep DEF ResetStop
<1>10. CASE ResetInit
  <2>1. req.m \in Ids /\ (req.m \in stale \/ Registered(req.m))
    BY <1>0, <1>10 DEF ResetInit, Found
  <2>2. PICK status \in {"ready", "error"} :
          reg' = IF req.m \in stale THEN reg
                 ELSE [reg EXCEPT ![req.m] = [@ EXCEPT !.status = status, !.bad = FALSE]]
    BY <1>10 DEF ResetInit
  <2>3. Restatus
    <3>1. CASE req.m \in stale
      BY <1>10, <2>2, <3>1 DEF ResetInit, Restatus, RegistryTyped
    <3>2. CASE req.m \notin stale
      <4> DEFINE new == [[reg[req.m] EXCEPT !.status = status] EXCEPT !.bad = FALSE]
      <4>1. reg[req.m] \in Provider
        BY <2>1, <3>2 DEF Registered, RegistryTyped
      <4>2. reg' = [reg EXCEPT ![req.m] = new]
        BY <2>2, <3>2
      <4>3. new \in Provider /\ new.outs = reg[req.m].outs
        BY <4>1 DEF Provider
      <4> HIDE DEF new
      <4> QED
        BY <1>10, <2>1, <3>2, <4>2, <4>3, ProviderIsPresent DEF ResetInit, Restatus, RegistryTyped, Registered
    <3> QED
      BY <3>1, <3>2
  <2>4. RegistryTyped' /\ OwnershipAgrees' /\ \A i \in Ids : Registered(i) => Registered(i)'
    BY <1>0, <2>3, RestatusKeeps
  <2>5. req' \in Request0 /\ req'.pc = "reset" /\ req'.todo = req.todo
    BY <1>0, <1>10 DEF ResetInit, Request0
  <2>6. Asked' /\ Found'
    BY <1>0, <1>10, <2>4, <2>5 DEF Asked, Found, ResetInit
  <2> QED
    BY <1>10, <2>4, <2>5, <2>6, RegistryStep DEF ResetInit
<1>11. CASE ResetDone
  BY <1>0, <1>11, IdleTyped, Begun, RequestOnly DEF ResetDone
<1> QED
  BY <1>1, <1>2, <1>3, <1>4, <1>5, <1>6, <1>7, <1>8, <1>9, <1>10, <1>11 DEF Serving

---------------------------------------------------------------------------
\* A step of the sweep.
LEMMA SweepStep ==
  ASSUME IInv, RegistryTyped', OwnershipAgrees', Noted, UNCHANGED <<db, clock>>,
         req' = req \/ req' = [req EXCEPT !.clean = FALSE],
         fails' \in [Models -> 0 .. MaxFailures], sweep' \in Sweep0, Tried'
  PROVE  IInv'
<1>1. /\ req' \in Request0 /\ req'.pc = req.pc /\ req'.m = req.m
      /\ req'.cfg = req.cfg /\ req'.todo = req.todo
  BY DEF IInv, Typed, Request0
<1>2. Typed'
  BY <1>1 DEF IInv, Typed, TypeOK, RegistryTyped
<1>3. Asked'
  BY <1>1 DEF IInv, Asked, EnabledModels
<1>4. Found'
  <2>1. CASE req.pc \in {"reset", "reinit"}
    <3>1. req.todo \subseteq Ids /\ stale \subseteq stale'
          /\ \A id \in Ids : Registered(id) => Registered(id)' \/ id \in stale'
      BY <2>1 DEF IInv, Found, Noted
    <3> QED
      BY <1>1, <2>1, <3>1 DEF IInv, Found
  <2>2. CASE req.pc \notin {"reset", "reinit"}
    BY <1>1, <2>2 DEF Found
  <2> QED
    BY <2>1, <2>2
<1> QED
  BY <1>2, <1>3, <1>4 DEF IInv

\* A step that does not touch the registry.
LEMMA RegistryStill ==
  ASSUME IInv, UNCHANGED <<reg, owner, stale>>
  PROVE  RegistryTyped' /\ OwnershipAgrees' /\ Noted
<1>1. RegistryTyped
  BY RowsTyped
<1>2. RegistryTyped' /\ OwnershipAgrees'
  BY <1>1 DEF IInv, RegistryTyped, OwnershipAgrees, Registered
<1>3. Noted
  BY DEF Noted, Registered
<1> QED
  BY <1>2, <1>3

\* The sweep registers only what was an enabled row when it released it, and
\* counts a failure only while the breaker is closed.
LEMMA SweepingKeeps == ASSUME IInv, Sweeping PROVE IInv'
<1>0. /\ db \in [Models -> Rows] /\ RegistryTyped /\ OwnershipAgrees /\ sweep \in Sweep0
      /\ fails \in [Models -> 0 .. MaxFailures] /\ Tried /\ MaxFailures \in Nat
      /\ clock \in {"running", "paused", "stopped"}
  BY RowsTyped, MaxFailuresAssumption DEF IInv, Typed, TypeOK
<1>1. CASE SweepBegin
  <2>1. sweep' = [IdleSweep EXCEPT !.pc = "probe", !.list = db, !.todo = EnabledModels]
    BY <1>1 DEF SweepBegin
  <2>2. sweep' \in Sweep0 /\ sweep'.pc = "probe"
    BY <1>0, <2>1, IdleTyped DEF Sweep0, EnabledModels
  <2> QED
    BY <1>0, <1>1, <2>2, RegistryStill, SweepStep DEF SweepBegin, Tried
<1>2. CASE SweepLook
  <2>1. sweep' = [sweep EXCEPT !.pc = "visit", !.list = IdleSweep.list,
                    !.well = {m \in sweep.todo : LooksWell(IdOf(m, sweep.list[m]))}]
    BY <1>2 DEF SweepLook
  <2>2. {m \in sweep.todo : LooksWell(IdOf(m, sweep.list[m]))} \in SUBSET Models
    BY <1>0 DEF Sweep0
  <2>3. sweep' \in Sweep0 /\ sweep'.pc = "visit"
    BY <1>0, <2>1, <2>2, IdleTyped DEF Sweep0
  <2> QED
    BY <1>0, <1>2, <2>3, RegistryStill, SweepStep DEF SweepLook, Tried
<1>3. CASE SweepUnreachable
  BY <1>0, <1>3, IdleTyped, RegistryStill, SweepStep DEF SweepUnreachable, Tried
<1>4. ASSUME NEW m \in Models, SweepPass(m) PROVE IInv'
  <2>1. fails' \in [Models -> 0 .. MaxFailures]
    BY <1>0, <1>4 DEF SweepPass
  <2>2. sweep' \in Sweep0 /\ Tried'
    BY <1>0, <1>4, VisitedTyped DEF SweepPass, Tried
  <2> QED
    BY <1>4, <2>1, <2>2, RegistryStill, SweepStep DEF SweepPass
<1>5. ASSUME NEW m \in Models, SweepRelease(m) PROVE IInv'
  <2>1. fails[m] < MaxFailures /\ UNCHANGED <<db, clock, req>>
    BY <1>5 DEF SweepRelease, SweepTries
  <2>2. CASE db[m] = NoConfig
    <3>1. fails' \in [Models -> 0 .. MaxFailures]
      BY <1>0, <1>5, <2>1, <2>2 DEF SweepRelease
    <3>2. sweep' \in Sweep0 /\ Tried'
      BY <1>0, <1>5, <2>2, VisitedTyped DEF SweepRelease, Tried
    <3> QED
      BY <1>5, <2>1, <2>2, <3>1, <3>2, RegistryStill, SweepStep DEF SweepRelease
  <2>3. CASE db[m] # NoConfig
    <3>1. RegistryTyped' /\ OwnershipAgrees' /\ Noted
      BY <1>0, <1>5, <2>3, UnregisterKeeps DEF SweepRelease
    <3>2. CASE db[m].enabled
      <4>1. db[m] \in Config
        BY <1>0, <3>2, EnabledIsConfig
      <4>2. fails' = fails /\ sweep' = [sweep EXCEPT !.pc = "register", !.m = m, !.cfg = db[m]]
        BY <1>5, <2>3, <3>2 DEF SweepRelease
      <4>3. sweep' \in Sweep0 /\ sweep'.m = m /\ sweep'.cfg = db[m]
        BY <1>0, <4>1, <4>2 DEF Sweep0, Rows
      <4>4. Tried'
        BY <2>1, <4>1, <4>2, <4>3 DEF Tried
      <4> QED
        BY <1>0, <2>1, <3>1, <4>2, <4>3, <4>4, SweepStep
    <3>3. CASE ~db[m].enabled
      <4>1. fails' \in [Models -> 0 .. MaxFailures]
        BY <1>0, <1>5, <2>3, <3>3 DEF SweepRelease
      <4>2. sweep' \in Sweep0 /\ Tried'
        BY <1>0, <1>5, <2>3, <3>3, VisitedTyped DEF SweepRelease, Tried
      <4> QED
        BY <2>1, <3>1, <4>1, <4>2, SweepStep
    <3> QED
      BY <3>2, <3>3
  <2> QED
    BY <2>2, <2>3
<1>6. CASE SweepRegister
  <2>1. sweep.m \in Models /\ sweep.cfg \in Config /\ fails[sweep.m] < MaxFailures
    BY <1>0, <1>6 DEF SweepRegister, Tried
  <2>2. IdOf(sweep.m, sweep.cfg) \in Ids /\ sweep.cfg.outs \in SUBSET Points
    BY <2>1 DEF IdOf, Ids, Config
  <2>3. PICK raised \in BOOLEAN :
          /\ Register(IdOf(sweep.m, sweep.cfg), sweep.cfg.outs, raised)
          /\ fails' = [fails EXCEPT ![sweep.m] = IF raised THEN @ + 1 ELSE 0]
    BY <1>6 DEF SweepRegister
  <2>4. RegistryTyped' /\ OwnershipAgrees' /\ Noted
    BY <1>0, <2>2, <2>3, RegisterKeeps
  <2>5. fails' \in [Models -> 0 .. MaxFailures]
    BY <1>0, <2>1, <2>3
  <2>6. sweep' \in Sweep0 /\ Tried'
    BY <1>0, <1>6, <2>1, VisitedTyped DEF SweepRegister, Tried
  <2> QED
    BY <1>6, <2>4, <2>5, <2>6, SweepStep DEF SweepRegister
<1> QED
  BY <1>1, <1>2, <1>3, <1>4, <1>5, <1>6 DEF Sweeping

\* A step of a provider changes what is known of it, not what it owns.
LEMMA TickingKeeps == ASSUME IInv, Ticking PROVE IInv'
<1>1. PICK id \in Ids : Step(id)
  BY DEF Ticking
<1>2. RegistryTyped /\ OwnershipAgrees
  BY RowsTyped DEF IInv
<1>3. reg[id] \in Provider
  BY <1>1, <1>2 DEF Step, RegistryTyped, Absent
<1>4. PICK answer \in Answers : reg' = [reg EXCEPT ![id] = Stepped([@ EXCEPT !.status = "running"], answer)]
  BY <1>1 DEF Step
<1> DEFINE running == [reg[id] EXCEPT !.status = "running"]
<1>5. running \in Provider /\ running.outs = reg[id].outs
  BY <1>3 DEF Provider
<1>6. reg' = [reg EXCEPT ![id] = Stepped(running, answer)]
  BY <1>4
<1> HIDE DEF running
<1>7. Stepped(running, answer) \in Provider /\ Stepped(running, answer).outs = reg[id].outs
  <2>1. CASE answer = "lost"
    BY <1>5, <2>1 DEF Stepped, Provider
  <2>2. CASE answer = "silent"
    BY <1>5, <2>2 DEF Stepped
  <2>3. CASE answer \in {"good", "bad"}
    BY <1>5, <2>3 DEF Stepped, Provider
  <2> QED
    BY <2>1, <2>2, <2>3 DEF Answers
<1>8. Restatus
  BY <1>1, <1>2, <1>3, <1>6, <1>7, ProviderIsPresent DEF Restatus, RegistryTyped, Step
<1>9. RegistryTyped' /\ OwnershipAgrees' /\ Noted
  BY <1>1, <1>2, <1>8, RestatusKeeps DEF Noted, Step
<1> QED
  BY <1>1, <1>9, SweepStep DEF Step, IInv, Typed, TypeOK, Tried

---------------------------------------------------------------------------
\* The engine starts without providers and without requests.
LEMMA InitHolds == Init => IInv
<1> SUFFICES ASSUME Init PROVE IInv
  OBVIOUS
<1>1. TypeOK
  BY MaxFailuresAssumption DEF Init, TypeOK
<1>2. req.pc = "idle" /\ req \in Request0 /\ sweep.pc = "idle" /\ sweep \in Sweep0
  BY IdleTyped DEF Init
<1>3. OwnershipAgrees
  BY NoneAssumption DEF Init, OwnershipAgrees, Registered, Ids
<1> QED
  BY <1>1, <1>2, <1>3 DEF IInv, Typed, Asked, Tried, Found

\* Requests, the sweep and the ticks, in any order, keep the invariant.
LEMMA NextKeeps == IInv /\ [Next]_vars => IInv'
<1> SUFFICES ASSUME IInv, [Next]_vars PROVE IInv'
  OBVIOUS
<1>1. CASE UNCHANGED vars
  BY <1>1, RegistryStill, SweepStep DEF vars, IInv, Typed, TypeOK, Tried
<1> QED
  BY <1>1, RequestKeeps, ServingKeeps, SweepingKeeps, TickingKeeps DEF Next

\* The inductive invariant holds of every state of the registry.
LEMMA Invariant == Spec => []IInv
BY InitHolds, NextKeeps, PTL DEF Spec

\* The registry, the tables and the breakers keep their types; in particular
\* no model's failure count passes _MAX_CONSECUTIVE_RECOVERY_FAILURES,
\* whoever edits or deletes the model while the sweep reloads it.
THEOREM TypeCorrect == Spec => []TypeOK
<1>1. IInv => TypeOK
  BY DEF IInv, Typed
<1> QED
  BY <1>1, Invariant, PTL

\* SimEngine._point_output_owner names exactly the registered writer of every
\* point, for any number of models, types and points: after each register and
\* unregister, the failed ones included, by a request, a reconciliation or the
\* sweep, however these overlap with each other and with a reset.
THEOREM OwnershipIsExact == Spec => []OwnershipAgrees
<1>1. IInv => OwnershipAgrees
  BY DEF IInv
<1> QED
  BY <1>1, Invariant, PTL
---------------------------------------------------------------------------
(* What the registry says of the configurations.  Two parts are about the  *)
(* registry (Served, Reconciled), one about the rows (Claims), and three   *)
(* about what the request and the sweep remember of a row that others may  *)
(* have changed since they read it (Requested, Held, Overlapped).          *)

Editing == {"begin", "release", "check", "register", "deleting"}
Busy(m) == req.pc \in Editing /\ req.m = m

\* The provider is the one its row asks for.
Settled(id) ==
  db[id[2]].enabled /\ IdOf(id[2], db[id[2]]) = id /\ db[id[2]].outs = reg[id].outs

\* What may still be registered of the model a request is about.
Left(id) ==
  \/ req.pc = "begin" /\ id = IdOf(req.m, db[req.m])
  \/ /\ req.pc \in {"release", "check"}
     /\ req.old.enabled /\ id = IdOf(req.m, req.old) /\ reg[id].outs = req.old.outs
     /\ req.pc = "check" => id = IdOf(req.m, req.cfg)

ServedId(id) == IF Busy(id[2]) THEN Left(id) ELSE Settled(id)
Served == \A id \in Ids : Registered(id) /\ id[2] \notin drift => ServedId(id)

Requested ==
  /\ req.pc = "register" => req.cfg = db[req.m] /\ req.cfg.enabled
  /\ req.pc \in {"release", "check"} => req.cfg = db[req.m] /\ req.cfg \in Config
  /\ req.pc = "begin" => db[req.m] # NoConfig

Overlapped ==
  sweep.pc # "idle" =>
    /\ req.pc \in Editing => req.m \in drift
    /\ req.pc \in {"drop", "load"} => Models \subseteq drift /\ ~req.clean

Held ==
  sweep.pc = "register" /\ sweep.m \notin drift =>
    db[sweep.m] = sweep.cfg /\ sweep.cfg.enabled

Claims ==
  \A m, o \in Models :
    m # o /\ db[m] # NoConfig /\ db[o] # NoConfig => db[m].outs \cap db[o].outs = {}

\* A reconciliation that no sweep met leaves only what the rows ask for.
Reconciled ==
  /\ req.pc = "drop" /\ req.clean =>
       \A id \in Ids : Registered(id) => id \in req.todo \/ id \in Desired
  /\ req.pc = "load" /\ req.clean =>
       \A id \in Ids : Registered(id) => id \in Desired /\ (id[2] \in req.todo \/ Settled(id))

Truthful == Served /\ Requested /\ Overlapped /\ Held /\ Claims /\ Reconciled

\* A step that registers nothing new.
Fewer == \A i \in Ids : Registered(i)' => Registered(i) /\ reg'[i].outs = reg[i].outs

\* A step that registers nothing new but id.
FewerBut(id) ==
  \A i \in Ids : i # id /\ Registered(i)' => Registered(i) /\ reg'[i].outs = reg[i].outs

\* A registry key is a type and a model.
LEMMA IdParts ==
  /\ \A id \in Ids : id[2] \in Models /\ id[1] \in Types /\ id = <<id[1], id[2]>>
  /\ \A m, c : IdOf(m, c)[2] = m
  /\ \A m \in Models, c \in Config : IdOf(m, c) \in Ids
BY DEF Ids, IdOf, Config

\* What unregister, register and a change of statuses leave registered.
LEMMA UnregisterFewer ==
  ASSUME RegistryTyped, NEW id \in Ids, Unregister(id)
  PROVE  Fewer /\ reg'[id] = Absent
BY DEF RegistryTyped, Unregister, Fewer, Registered

(* A registration adds its own model at most.                              *)
LEMMA RegisterFewer ==
  ASSUME RegistryTyped, NEW id \in Ids, NEW outs \in SUBSET Points, NEW raised \in BOOLEAN,
         Register(id, outs, raised)
  PROVE  FewerBut(id) /\ (reg'[id] # Absent => reg'[id].outs = outs)
<1>1. reg' = [reg EXCEPT ![id] = IF raised THEN Absent ELSE Fresh(outs)] /\ Fresh(outs).outs = outs
  BY DEF Register, Fresh
<1> QED
  BY <1>1 DEF RegistryTyped, FewerBut, Registered

(* A new status adds no registration.                                      *)
LEMMA RestatusFewer == ASSUME Restatus PROVE Fewer
BY DEF Restatus, Fewer, Registered

\* What NextDrift says of the next drift.
LEMMA DriftGrows ==
  ASSUME NextDrift
  PROVE  /\ ~(req.pc = "load" /\ req'.pc = "idle" /\ req.clean) => drift \subseteq drift'
         /\ req'.pc # "idle" /\ sweep'.pc # "idle" =>
              IF req'.pc \in {"drop", "load"} THEN Models \subseteq drift'
              ELSE req'.m \in Models => req'.m \in drift'
         /\ \A m \in Models : db[m] # NoConfig /\ db'[m] # db[m] /\ m \notin drift' =>
              /\ req'.pc \in {"begin", "release", "deleting"} \/ req.pc = "deleting"
              /\ m = req'.m \/ m = req.m
         /\ req.pc = "check" /\ req'.pc = "idle" /\ ~req.cfg.enabled => req.m \in drift'
<1> DEFINE clean == req.pc = "load" /\ req'.pc = "idle" /\ req.clean
           saved == {m \in Models : db[m] # NoConfig /\ db'[m] # db[m]}
           rebuilt == IF req'.pc \in {"begin", "release", "deleting"} \/ req.pc = "deleting"
                      THEN {req'.m, req.m} ELSE {}
           overlap == IF req'.pc = "idle" \/ sweep'.pc = "idle" THEN {}
                      ELSE IF req'.pc \in {"drop", "load"} THEN Models ELSE {req'.m} \cap Models
           disabled == IF req.pc = "check" /\ req'.pc = "idle" /\ ~req.cfg.enabled THEN {req.m} ELSE {}
<1>1. drift' = (((IF clean THEN {} ELSE drift) \cup (saved \ rebuilt)) \cup disabled) \cup overlap
  BY DEF NextDrift
<1>2. ~clean => drift \subseteq drift'
  BY <1>1
<1>3. overlap \subseteq drift' /\ disabled \subseteq drift' /\ saved \ rebuilt \subseteq drift'
  BY <1>1
<1> QED
  BY <1>2, <1>3

---------------------------------------------------------------------------
\* Whoever serves a request while a sweep is under way drifts.
LEMMA OverlapNoted ==
  ASSUME IInv', NextDrift, req'.pc \in {"drop", "load"} /\ sweep'.pc # "idle" => ~req'.clean
  PROVE  Overlapped'
<1>1. req'.pc \in Editing => req'.m \in Models
  BY DEF IInv, Asked, Editing
<1> QED
  BY <1>1, DriftGrows DEF Overlapped, Editing

\* A step that is about one model.
LEMMA ServedBy ==
  ASSUME Served, NEW m \in Models, drift \subseteq drift',
         \A i \in Ids : i[2] # m /\ Registered(i)' => Registered(i) /\ reg'[i].outs = reg[i].outs,
         \A o \in Models \ {m} : db'[o] = db[o] /\ ~Busy(o) /\ ~Busy(o)',
         \A i \in Ids : i[2] = m /\ Registered(i)' /\ m \notin drift' => ServedId(i)'
  PROVE  Served'
<1> SUFFICES ASSUME NEW i \in Ids, Registered(i)', i[2] \notin drift' PROVE ServedId(i)'
  BY DEF Served
<1>1. CASE i[2] = m
  BY <1>1
<1>2. CASE i[2] # m
  <2>1. Settled(i)
    BY <1>2, IdParts DEF Served, ServedId
  <2> QED
    BY <1>2, <2>1, IdParts DEF ServedId, Settled
<1> QED
  BY <1>1, <1>2

\* A step that starts a request about one model and registers nothing.
LEMMA RequestServed ==
  ASSUME Served, NEW m \in Models, drift \subseteq drift', Fewer, req.pc = "idle",
         \A o \in Models \ {m} : db'[o] = db[o], req'.pc \in Editing => req'.m = m,
         \A i \in Ids : i[2] = m /\ Registered(i)' /\ m \notin drift' /\ Settled(i) => ServedId(i)'
  PROVE  Served'
<1>1. \A o \in Models \ {m} : db'[o] = db[o] /\ ~Busy(o) /\ ~Busy(o)'
  BY DEF Busy, Editing
<1>2. \A i \in Ids : i[2] = m /\ Registered(i)' /\ m \notin drift' => ServedId(i)'
  <2> SUFFICES ASSUME NEW i \in Ids, i[2] = m, Registered(i)', m \notin drift' PROVE ServedId(i)'
    OBVIOUS
  <2>1. Settled(i)
    BY DEF Served, ServedId, Busy, Editing, Fewer
  <2> QED
    BY <2>1
<1>3. \A i \in Ids : i[2] # m /\ Registered(i)' => Registered(i) /\ reg'[i].outs = reg[i].outs
  BY DEF Fewer
<1> QED
  BY <1>1, <1>2, <1>3, ServedBy

\* What the sweep holds stays the row, or its model drifts.
LEMMA HeldKept ==
  ASSUME IInv, Overlapped, Held, NextDrift, sweep' = sweep,
         drift \subseteq drift' \/ sweep.pc = "idle",
         \A m \in Models : db'[m] # db[m] =>
           (req'.pc # "idle" => m = req'.m) /\ (req.pc = "deleting" => m = req.m)
  PROVE  Held'
<1> SUFFICES ASSUME sweep.pc = "register", sweep.m \notin drift'
             PROVE  db'[sweep.m] = sweep.cfg /\ sweep.cfg.enabled
  BY DEF Held
<1>1. drift \subseteq drift' /\ sweep.m \in Models /\ sweep.cfg \in Config
  BY DEF IInv, Tried
<1>2. db[sweep.m] = sweep.cfg /\ sweep.cfg.enabled
  BY <1>1 DEF Held
<1>3. db[sweep.m] # NoConfig
  BY <1>1, <1>2 DEF Config, NoConfig
<1>4. db'[sweep.m] = db[sweep.m]
  <2> SUFFICES ASSUME db'[sweep.m] # db[sweep.m] PROVE FALSE
    OBVIOUS
  <2>1. req'.pc \in {"begin", "release", "deleting"} \/ req.pc = "deleting"
    BY <1>1, <1>3, DriftGrows
  <2>2. CASE req'.pc \in {"begin", "release", "deleting"}
    BY <1>1, <2>2, DriftGrows
  <2>3. CASE req.pc = "deleting"
    BY <1>1, <2>3 DEF Overlapped, Editing
  <2> QED
    BY <2>1, <2>2, <2>3
<1> QED
  BY <1>2, <1>4

\* Claims survive a change of one row that MayClaim allowed.
LEMMA ClaimsKept ==
  ASSUME Claims, NEW m \in Models, \A o \in Models \ {m} : db'[o] = db[o],
         db'[m] # NoConfig =>
           \A o \in Models \ {m} : db[o] # NoConfig => db[o].outs \cap db'[m].outs = {}
  PROVE  Claims'
BY DEF Claims

\* A step that edits no row, registers nothing new and leaves the request.
LEMMA FewerKeeps ==
  ASSUME Truthful, Fewer, db' = db, drift \subseteq drift', req'.pc = req.pc, req'.m = req.m,
         req'.cfg = req.cfg, req'.old = req.old, req'.todo = req.todo, req'.clean => req.clean
  PROVE  Served' /\ Requested' /\ Claims' /\ Reconciled'
<1>1. \A i \in Ids : Registered(i)' /\ ServedId(i) => ServedId(i)'
  BY DEF ServedId, Busy, Left, Settled, Fewer
<1>2. Served'
  BY <1>1 DEF Truthful, Served, Fewer
<1>3. Requested' /\ Claims'
  BY DEF Truthful, Requested, Claims
<1>4. Desired' = Desired /\ \A i \in Ids : Registered(i)' /\ Settled(i) => Settled(i)'
  BY DEF Desired, EnabledModels, Settled, Fewer
<1>5. Reconciled'
  BY <1>4 DEF Truthful, Reconciled, Fewer
<1> QED
  BY <1>2, <1>3, <1>5

---------------------------------------------------------------------------
\* What Serve leaves in req, in full.
LEMMA ServeIs ==
  ASSUME NEW pc, NEW m, NEW c, NEW old, Serve(pc, m, c, old)
  PROVE  req'.pc = pc /\ req'.m = m /\ req'.cfg = c /\ req'.old = old
BY DEF Serve, IdleReq

\* A request that edits a row: the claims on points stay apart, and the model
\* drifts, or the request takes it in hand.
LEMMA EditKeepsTruth ==
  ASSUME IInv, IInv', Truthful, NextDrift, NEW m \in Models,
         \/ \E c \in Offered[m] : Create(m, c) \/ Save(m, c) \/ Apply(m, c)
         \/ Toggle(m)
  PROVE  Truthful'
<1>1. /\ db \in [Models -> Rows] /\ db' \in [Models -> Rows]
      /\ req.pc = "idle" /\ sweep' = sweep /\ Fewer /\ drift \subseteq drift'
  BY RowsTyped, DriftGrows DEF IInv, Typed, TypeOK, Rows, Create, Save, Apply, Toggle, Fewer, Registered
<1>2. \A o \in Models \ {m} : db'[o] = db[o]
  BY <1>1 DEF Create, Save, Apply, Toggle
<1>3. \A i \in Ids : Registered(i)' => Registered(i) /\ reg'[i] = reg[i]
  BY DEF Create, Save, Apply, Toggle, Registered
<1>4. Held'
  <2>1. req'.pc # "idle" => req'.m = m
    BY ServeIs DEF Create, Save, Apply, Toggle, IdleReq
  <2>2. \A o \in Models : db'[o] # db[o] => (req'.pc # "idle" => o = req'.m) /\ (req.pc = "deleting" => o = req.m)
    BY <1>1, <1>2, <2>1
  <2> QED
    BY <1>1, <2>2, HeldKept DEF Truthful
<1>5. CASE \E c \in Offered[m] : Create(m, c)
  <2>1. PICK c \in Offered[m] : Create(m, c)
    BY <1>5
  <2>2. c \in Config /\ db'[m] = c /\ db[m] = NoConfig
    BY <1>1, <2>1, OfferedAssumption DEF Create
  <2>3. req'.pc = "idle" \/ (req'.pc = "begin" /\ req'.m = m)
    <3>1. CASE c.enabled
      BY <2>1, <3>1, ServeIs DEF Create
    <3>2. CASE ~c.enabled
      BY <2>1, <3>2, IdleTyped DEF Create
    <3> QED
      BY <3>1, <3>2
  <2>4. Served'
    <3>1. \A i \in Ids : i[2] = m => ~Settled(i)
      BY <2>2 DEF Settled, NoConfig
    <3> QED
      BY <1>1, <1>2, <2>3, <3>1, RequestServed DEF Truthful, Editing
  <2>5. Claims'
    BY <1>1, <1>2, <2>1, <2>2, ClaimsKept DEF Truthful, Create, MayClaim
  <2>6. Requested'
    BY <2>2, <2>3 DEF Requested, Config, NoConfig
  <2>7. Overlapped' /\ Reconciled'
    BY <2>3, OverlapNoted DEF Reconciled
  <2> QED
    BY <1>4, <2>4, <2>5, <2>6, <2>7 DEF Truthful
<1>6. CASE \E c \in Offered[m] : Save(m, c)
  <2>1. PICK c \in Offered[m] : Save(m, c)
    BY <1>6
  <2>2. db'[m] = c /\ req'.pc = "idle" /\ db[m] # NoConfig
    BY <1>1, <2>1 DEF Save, IdleReq
  <2>3. Served'
    <3>1. m \notin drift' => db' = db
      BY <1>1, <1>2, <2>2, DriftGrows
    <3>2. \A i \in Ids : i[2] = m /\ Registered(i)' /\ m \notin drift' /\ Settled(i) => ServedId(i)'
      BY <1>3, <2>2, <3>1 DEF ServedId, Settled, Busy, Editing
    <3> QED
      BY <1>1, <1>2, <2>2, <3>2, RequestServed DEF Truthful, Editing
  <2>4. Claims'
    BY <1>1, <1>2, <2>1, <2>2, ClaimsKept DEF Truthful, Save, MayClaim
  <2>5. Requested' /\ Overlapped' /\ Reconciled'
    BY <2>2, OverlapNoted DEF Requested, Reconciled
  <2> QED
    BY <1>4, <2>3, <2>4, <2>5 DEF Truthful
<1>7. CASE \E c \in Offered[m] : Apply(m, c)
  <2>1. PICK c \in Offered[m] : Apply(m, c)
    BY <1>7
  <2>2. c \in Config /\ db'[m] = c
    BY <1>1, <2>1, OfferedAssumption DEF Apply
  <2>3. req'.pc = "release" /\ req'.m = m /\ req'.cfg = c /\ req'.old = db[m]
    BY <2>1, ServeIs DEF Apply
  <2>4. Served'
    <3>1. \A i \in Ids : i[2] = m /\ Registered(i)' /\ Settled(i) => ServedId(i)'
      BY <1>3, <2>3 DEF Settled, ServedId, Busy, Editing, Left
    <3> QED
      BY <1>1, <1>2, <2>3, <3>1, RequestServed DEF Truthful
  <2>5. Claims'
    BY <1>1, <1>2, <2>1, <2>2, ClaimsKept DEF Truthful, Apply, MayClaim
  <2>6. Requested'
    BY <2>2, <2>3 DEF Requested
  <2>7. Overlapped' /\ Reconciled'
    BY <2>3, OverlapNoted DEF Reconciled
  <2> QED
    BY <1>4, <2>4, <2>5, <2>6, <2>7 DEF Truthful
<1>8. CASE Toggle(m)
  <2>1. db[m] \in Config
    BY <1>1, <1>8 DEF Toggle, Rows
  <2>2. db'[m].outs = db[m].outs /\ db'[m].type = db[m].type /\ db'[m] # NoConfig
    BY <1>1, <1>8, <2>1 DEF Toggle, Config, NoConfig
  <2>3. req'.pc = "begin" /\ req'.m = m
    BY <1>8, ServeIs DEF Toggle
  <2>4. Served'
    <3>1. IdOf(m, db'[m]) = IdOf(m, db[m])
      BY <2>2 DEF IdOf
    <3>2. \A i \in Ids : i[2] = m /\ Settled(i) => ServedId(i)'
      BY <2>3, <3>1 DEF Settled, ServedId, Busy, Editing, Left
    <3> QED
      BY <1>1, <1>2, <2>3, <3>2, RequestServed DEF Truthful
  <2>5. Claims'
    <3>1. \A o \in Models \ {m} : db[o] # NoConfig => db[o].outs \cap db'[m].outs = {}
      BY <1>8, <2>2 DEF Toggle, Truthful, Claims
    <3> QED
      BY <1>2, <3>1, ClaimsKept DEF Truthful
  <2>6. Requested'
    BY <2>2, <2>3 DEF Requested
  <2>7. Overlapped' /\ Reconciled'
    BY <2>3, OverlapNoted DEF Reconciled
  <2> QED
    BY <1>4, <2>4, <2>5, <2>6, <2>7 DEF Truthful
<1> QED
  BY <1>5, <1>6, <1>7, <1>8

\* The other requests edit no row.
LEMMA RequestKeepsTruth == ASSUME IInv, IInv', Truthful, NextDrift, Request PROVE Truthful'
<1>0. RegistryTyped /\ req.pc = "idle" /\ sweep' = sweep /\ drift \subseteq drift'
  BY RowsTyped, DriftGrows
     DEF Request, Create, Save, Apply, Toggle, AskReload, Delete, Reconcile, Pause, Resume, Reset
<1>1. ASSUME NEW m \in Models, NEW c \in Offered[m], Create(m, c) \/ Save(m, c) \/ Apply(m, c)
      PROVE  Truthful'
  BY <1>1, EditKeepsTruth
<1>2. ASSUME NEW m \in Models, Toggle(m) PROVE Truthful'
  BY <1>2, EditKeepsTruth
<1>3. ASSUME db' = db PROVE Held' /\ Claims'
  BY <1>0, <1>3, HeldKept DEF Truthful, Claims
<1>4. ASSUME NEW m \in Models, AskReload(m) PROVE Truthful'
  <2>1. req'.pc = "begin" /\ req'.m = m /\ db' = db /\ Fewer /\ db[m] # NoConfig
    BY <1>4, ServeIs DEF AskReload, Fewer, Registered
  <2>2. Served'
    <3>1. \A i \in Ids : i[2] = m /\ Settled(i) => ServedId(i)'
      BY <2>1 DEF Settled, ServedId, Busy, Editing, Left
    <3> QED
      BY <1>0, <2>1, <3>1, RequestServed DEF Truthful
  <2>3. Requested' /\ Overlapped' /\ Reconciled'
    BY <2>1, OverlapNoted DEF Requested, Reconciled
  <2> QED
    BY <1>3, <2>1, <2>2, <2>3 DEF Truthful
<1>5. ASSUME NEW m \in Models, Delete(m) PROVE Truthful'
  <2>1. req'.pc = "deleting" /\ req'.m = m /\ db' = db /\ db[m] # NoConfig
    BY <1>5, ServeIs DEF Delete
  <2>2. db[m] \in Config
    BY <2>1, RowsTyped DEF Rows
  <2>3. Fewer /\ reg'[IdOf(m, db[m])] = Absent
    BY <1>0, <1>5, <2>2, IdParts, UnregisterFewer DEF Delete
  <2>4. Served'
    <3>1. \A i \in Ids : i[2] = m /\ Registered(i)' => ~Settled(i)
      BY <2>3 DEF Settled, Registered
    <3> QED
      BY <1>0, <2>1, <2>3, <3>1, RequestServed DEF Truthful
  <2>5. Requested' /\ Overlapped' /\ Reconciled'
    BY <2>1, OverlapNoted DEF Requested, Reconciled
  <2> QED
    BY <1>3, <2>1, <2>4, <2>5 DEF Truthful
<1>6. CASE Reconcile \/ Pause \/ Resume \/ Reset
  <2>1. db' = db /\ req'.pc \notin Editing
    BY <1>0, <1>6 DEF Reconcile, Pause, Resume, Reset, IdleReq, Editing
  <2>2. Fewer
    <3>1. CASE Pause \/ Resume
      BY <1>0, <3>1, RestatusFewer
         DEF Pause, Resume, WithStatus, Restatus, RegistryTyped, Provider, Absent
    <3>2. CASE Reconcile \/ Reset
      BY <3>2 DEF Reconcile, Reset, Fewer, Registered
    <3> QED
      BY <1>6, <3>1, <3>2
  <2>3. Served'
    <3>1. \A i \in Ids : Registered(i)' /\ Settled(i) => Settled(i)'
      BY <2>1, <2>2 DEF Settled, Fewer
    <3>2. \A i \in Ids : ~Busy(i[2]) /\ ~Busy(i[2])'
      BY <1>0, <2>1 DEF Busy, Editing
    <3> QED
      BY <1>0, <2>2, <3>1, <3>2 DEF Truthful, Served, ServedId, Fewer
  <2>4. Requested'
    BY <2>1 DEF Requested, Editing
  <2>5. Overlapped' /\ Reconciled'
    <3>1. CASE Reconcile
      <4>1. req'.pc = "drop" /\ req'.todo = RegisteredIds \ Desired /\ req'.clean = (sweep.pc = "idle")
        BY <3>1 DEF Reconcile, IdleReq
      <4>2. Desired' = Desired /\ \A i \in Ids : Registered(i)' => i \in RegisteredIds
        BY <2>1, <2>2 DEF Desired, EnabledModels, Fewer, RegisteredIds
      <4> QED
        BY <1>0, <4>1, <4>2, OverlapNoted DEF Reconciled
    <3>2. CASE Pause \/ Resume \/ Reset
      <4>1. req'.pc \notin {"drop", "load"}
        BY <1>0, <3>2 DEF Pause, Resume, Reset, IdleReq
      <4> QED
        BY <4>1, OverlapNoted DEF Reconciled
    <3> QED
      BY <1>6, <3>1, <3>2
  <2> QED
    BY <1>3, <2>1, <2>3, <2>4, <2>5 DEF Truthful
<1> QED
  BY <1>1, <1>2, <1>4, <1>5, <1>6 DEF Request

\* A tick steps providers that are there.
LEMMA TickingKeepsTruth == ASSUME IInv, IInv', Truthful, NextDrift, Ticking PROVE Truthful'
<1>1. PICK id \in Ids : Step(id)
  BY DEF Ticking
<1>2. PICK answer \in Answers : reg' = [reg EXCEPT ![id] = Stepped([@ EXCEPT !.status = "running"], answer)]
  BY <1>1 DEF Step
<1>3. RegistryTyped /\ reg[id] \in Provider /\ UNCHANGED <<db, req, sweep>>
  BY <1>1, RowsTyped DEF Step, RegistryTyped, Absent
<1> DEFINE running == [reg[id] EXCEPT !.status = "running"]
<1>4. running.outs = reg[id].outs /\ reg' = [reg EXCEPT ![id] = Stepped(running, answer)]
  BY <1>2, <1>3 DEF Provider
<1> HIDE DEF running
<1>5. Stepped(running, answer).outs = running.outs
  BY <1>4 DEF Stepped
<1>6. Fewer
  BY <1>3, <1>4, <1>5, ProviderIsPresent DEF Fewer, Registered, RegistryTyped
<1>7. drift \subseteq drift'
  BY <1>3, DriftGrows
<1>8. Held' /\ Overlapped'
  BY <1>3, <1>7, HeldKept, OverlapNoted DEF Truthful, Overlapped
<1> QED
  BY <1>3, <1>6, <1>7, <1>8, FewerKeeps DEF Truthful

\* A step of the request being served, about the model it holds.
LEMMA ServingServed ==
  ASSUME Served, NextDrift, req.pc \in Editing, req.m \in Models, FewerBut(IdOf(req.m, db[req.m])),
         \A o \in Models \ {req.m} : db'[o] = db[o], req'.pc \in Editing => req'.m = req.m,
         \A i \in Ids : i[2] = req.m /\ Registered(i)' /\ req.m \notin drift' => ServedId(i)'
  PROVE  Served'
<1>1. drift \subseteq drift'
  BY DriftGrows DEF Editing
<1>2. \A o \in Models \ {req.m} : db'[o] = db[o] /\ ~Busy(o) /\ ~Busy(o)'
  BY DEF Busy, Editing
<1>3. \A i \in Ids : i[2] # req.m /\ Registered(i)' => Registered(i) /\ reg'[i].outs = reg[i].outs
  BY IdParts DEF FewerBut
<1> QED
  BY <1>1, <1>2, <1>3, ServedBy

\* Applying an edit, reloading and deleting: the model's old provider goes,
\* and what comes in its place is what the row says.
LEMMA EditingKeepsTruth ==
  ASSUME IInv, IInv', Truthful, NextDrift,
         ApplyRelease \/ ApplyCheck \/ ReloadRelease \/ ReloadRegister \/ DeleteRow
  PROVE  Truthful'
<1>0. /\ RegistryTyped /\ db \in [Models -> Rows] /\ req \in Request0 /\ sweep' = sweep
      /\ req.pc \in Editing /\ req.m \in Models /\ drift \subseteq drift'
      /\ clock \in {"running", "paused", "stopped"}
  BY RowsTyped, DriftGrows
     DEF ApplyRelease, ApplyCheck, ReloadRelease, ReloadRegister, DeleteRow, IInv, Typed, TypeOK, Asked, Editing
<1>1. \A i \in Ids : Registered(i) /\ i[2] = req.m /\ req.m \notin drift' => Left(i)
  BY <1>0 DEF Truthful, Served, ServedId, Busy
<1>2. ASSUME db' = db PROVE Held' /\ Claims'
  BY <1>0, <1>2, HeldKept DEF Truthful, Claims
<1>3. ASSUME req'.pc \notin {"drop", "load"} PROVE Overlapped' /\ Reconciled'
  BY <1>3, OverlapNoted DEF Reconciled
<1>4. CASE ApplyRelease
  <2>1. req' = [req EXCEPT !.pc = "check"] /\ req.pc = "release" /\ db' = db
    BY <1>4 DEF ApplyRelease
  <2>2. req'.pc = "check" /\ req'.m = req.m /\ req'.cfg = req.cfg /\ req'.old = req.old
    BY <1>0, <2>1 DEF Request0
  <2>3. Fewer /\ \A i \in Ids : Registered(i)' /\ i = IdOf(req.m, req.old) => i = IdOf(req.m, req.cfg)
    <3>1. CASE IdOf(req.m, req.old) = IdOf(req.m, req.cfg)
      BY <1>4, <3>1 DEF ApplyRelease, Fewer, Registered
    <3>2. CASE IdOf(req.m, req.old) # IdOf(req.m, req.cfg)
      BY <1>0, <1>4, <3>2 DEF ApplyRelease, Unregister, RegistryTyped, Fewer, Registered
    <3> QED
      BY <3>1, <3>2
  <2>4. Served'
    <3>1. \A i \in Ids : i[2] = req.m /\ Registered(i)' /\ req.m \notin drift' => ServedId(i)'
      BY <1>0, <1>1, <2>1, <2>2, <2>3 DEF Left, ServedId, Busy, Editing, Fewer
    <3> QED
      BY <1>0, <2>1, <2>2, <2>3, <3>1, ServingServed DEF Truthful, Fewer, FewerBut
  <2>5. Requested'
    BY <2>1, <2>2 DEF Truthful, Requested
  <2> QED
    BY <1>2, <1>3, <2>1, <2>2, <2>4, <2>5 DEF Truthful
<1>5. CASE ApplyCheck
  <2>1. req.pc = "check" /\ db' = db /\ Fewer /\ req.cfg = db[req.m] /\ req.cfg \in Config
    BY <1>5 DEF ApplyCheck, Fewer, Registered, Truthful, Requested
  <2>2. CASE req.cfg.enabled /\ NeedsRestart
    <3>1. req'.pc = "begin" /\ req'.m = req.m
      BY <1>5, <2>2, ServeIs DEF ApplyCheck
    <3>2. Served'
      <4>1. \A i \in Ids : i[2] = req.m /\ Registered(i)' /\ req.m \notin drift' => ServedId(i)'
        BY <1>0, <1>1, <2>1, <3>1 DEF Left, ServedId, Busy, Editing, Fewer
      <4> QED
        BY <1>0, <2>1, <3>1, <4>1, ServingServed DEF Truthful, Fewer, FewerBut
    <3>3. Requested'
      BY <2>1, <3>1 DEF Requested, Config, NoConfig
    <3> QED
      BY <1>2, <1>3, <2>1, <3>1, <3>2, <3>3 DEF Truthful
  <2>3. CASE ~(req.cfg.enabled /\ NeedsRestart)
    <3>1. req'.pc = "idle"
      BY <1>5, <2>3, IdleTyped DEF ApplyCheck
    <3>2. req.m \notin drift' => req.cfg.enabled /\ ~NeedsRestart
      BY <2>1, <2>3, <3>1, DriftGrows
    <3>3. Served'
      <4>1. \A i \in Ids : i[2] = req.m /\ Registered(i)' /\ req.m \notin drift' => ServedId(i)'
        <5> SUFFICES ASSUME NEW i \in Ids, i[2] = req.m, Registered(i)', req.m \notin drift'
                     PROVE  Settled(i)'
          BY <3>1 DEF ServedId, Busy, Editing
        <5>1. Left(i) /\ reg'[i].outs = reg[i].outs
          BY <1>1, <2>1 DEF Fewer
        <5>2. [req.old EXCEPT !.enabled = TRUE] = [req.cfg EXCEPT !.enabled = TRUE]
          BY <3>2 DEF NeedsRestart
        <5>3. req.old \in Config
          BY <1>0, <2>1, <5>1, EnabledIsConfig DEF Left, Request0
        <5>4. req.old.outs = req.cfg.outs
          BY <2>1, <5>2, <5>3 DEF Config
        <5> QED
          BY <2>1, <3>2, <5>1, <5>4 DEF Left, Settled
      <4> QED
        BY <1>0, <2>1, <3>1, <4>1, ServingServed DEF Truthful, Fewer, FewerBut, Editing
    <3>4. Requested'
      BY <3>1 DEF Requested
    <3> QED
      BY <1>2, <1>3, <2>1, <3>1, <3>3, <3>4 DEF Truthful
  <2> QED
    BY <2>2, <2>3
<1>6. CASE ReloadRelease
  <2>1. req.pc = "begin" /\ db' = db /\ db[req.m] \in Config
    BY <1>0, <1>6 DEF ReloadRelease, Truthful, Requested, Rows
  <2>2. Fewer /\ reg'[IdOf(req.m, db[req.m])] = Absent
    BY <1>0, <1>6, <2>1, IdParts, UnregisterFewer DEF ReloadRelease
  <2>3. \/ req'.pc = "idle"
        \/ req'.pc = "register" /\ req'.m = req.m /\ req'.cfg = db[req.m] /\ db[req.m].enabled
    <3>1. CASE db[req.m].enabled
      BY <1>0, <1>6, <2>1, <3>1 DEF ReloadRelease, Request0, Rows
    <3>2. CASE ~db[req.m].enabled
      BY <1>6, <3>2, IdleTyped DEF ReloadRelease
    <3> QED
      BY <3>1, <3>2
  <2>4. Served'
    <3>1. \A i \in Ids : i[2] = req.m /\ Registered(i)' => req.m \in drift'
      BY <1>1, <2>1, <2>2 DEF Left, Registered, Fewer
    <3> QED
      BY <1>0, <2>1, <2>2, <2>3, <3>1, ServingServed DEF Truthful, Fewer, FewerBut, Editing
  <2>5. Requested'
    BY <2>1, <2>3 DEF Requested
  <2> QED
    BY <1>2, <1>3, <2>1, <2>3, <2>4, <2>5 DEF Truthful
<1>7. CASE ReloadRegister
  <2>1. /\ req.pc = "register" /\ db' = db /\ req'.pc = "idle"
        /\ req.cfg = db[req.m] /\ req.cfg.enabled /\ req.cfg \in Config
    BY <1>7, IdleTyped DEF ReloadRegister, Truthful, Requested, IInv, Asked
  <2>2. PICK raised \in BOOLEAN : Register(IdOf(req.m, req.cfg), req.cfg.outs, raised)
    BY <1>7 DEF ReloadRegister
  <2> DEFINE id == IdOf(req.m, db[req.m])
  <2>3. id \in Ids /\ id[2] = req.m /\ db[req.m].outs \in SUBSET Points
    BY <1>0, <2>1, IdParts DEF Config
  <2>4. FewerBut(id) /\ (reg'[id] # Absent => reg'[id].outs = db[req.m].outs)
    BY <1>0, <2>1, <2>2, <2>3, RegisterFewer
  <2>5. Served'
    <3>1. \A i \in Ids : i[2] = req.m /\ Registered(i)' /\ req.m \notin drift' => ServedId(i)'
      <4> SUFFICES ASSUME NEW i \in Ids, i[2] = req.m, Registered(i)', req.m \notin drift'
                   PROVE  Settled(i)'
        BY <2>1 DEF ServedId, Busy, Editing
      <4>1. CASE i = id
        BY <2>1, <2>4, <4>1 DEF Settled, Registered
      <4>2. CASE i # id
        BY <1>1, <2>1, <2>4, <4>2 DEF FewerBut, Left
      <4> QED
        BY <4>1, <4>2
    <3> QED
      BY <1>0, <2>1, <2>4, <3>1, ServingServed DEF Truthful, Editing
  <2>6. Requested'
    BY <2>1 DEF Requested
  <2> QED
    BY <1>2, <1>3, <2>1, <2>5, <2>6 DEF Truthful
<1>8. CASE DeleteRow
  <2>1. /\ req.pc = "deleting" /\ req'.pc = "idle" /\ Fewer
        /\ db' = [db EXCEPT ![req.m] = NoConfig]
    BY <1>8, IdleTyped DEF DeleteRow, Fewer, Registered
  <2>2. \A o \in Models \ {req.m} : db'[o] = db[o]
    BY <1>0, <2>1
  <2>3. Served'
    <3>1. \A i \in Ids : i[2] = req.m /\ Registered(i)' => req.m \in drift'
      BY <1>1, <2>1 DEF Left, Fewer
    <3> QED
      BY <1>0, <2>1, <2>2, <3>1, ServingServed DEF Truthful, Fewer, FewerBut, Editing
  <2>4. Held'
    <3>1. \A o \in Models : db'[o] # db[o] => (req'.pc # "idle" => o = req'.m) /\ (req.pc = "deleting" => o = req.m)
      BY <2>1, <2>2
    <3> QED
      BY <1>0, <3>1, HeldKept DEF Truthful
  <2>5. Claims'
    BY <1>0, <2>1, <2>2, ClaimsKept DEF Truthful
  <2>6. Requested'
    BY <2>1 DEF Requested
  <2> QED
    BY <1>3, <2>1, <2>3, <2>4, <2>5, <2>6 DEF Truthful
<1> QED
  BY <1>4, <1>5, <1>6, <1>7, <1>8

\* Reconciliation drops what no enabled row asks for before it builds what
\* the rows ask for, and only forgets the drift when no sweep met it.
LEMMA ReconcilingKeepsTruth ==
  ASSUME IInv, IInv', Truthful, NextDrift, ReconcileDrop \/ ReconcileLoad \/ ReconcileEnd
  PROVE  Truthful'
<1>0. /\ RegistryTyped /\ db \in [Models -> Rows] /\ req \in Request0 /\ db' = db /\ sweep' = sweep
      /\ req.pc \in {"drop", "load"} /\ clock \in {"running", "paused", "stopped"}
  BY RowsTyped DEF ReconcileDrop, ReconcileLoad, ReconcileEnd, IInv, Typed, TypeOK
<1>1. Claims' /\ EnabledModels' = EnabledModels /\ Desired' = Desired
  BY <1>0 DEF Truthful, Claims, Desired, EnabledModels
<1>2. \A i \in Ids : Registered(i) /\ i[2] \notin drift => Settled(i)
  BY <1>0 DEF Truthful, Served, ServedId, Busy, Editing
<1>3. ASSUME req'.pc \notin Editing, drift \subseteq drift',
             \A i \in Ids : Registered(i)' => Settled(i)' \/ (Registered(i) /\ reg'[i].outs = reg[i].outs)
      PROVE  Served' /\ Requested' /\ Held'
  <2>1. Served'
    BY <1>0, <1>2, <1>3 DEF Served, ServedId, Busy, Settled
  <2>2. Requested'
    BY <1>3 DEF Requested, Editing
  <2>3. Held'
    BY <1>0, <1>3, HeldKept DEF Truthful
  <2> QED
    BY <2>1, <2>2, <2>3
<1>4. CASE ReconcileDrop
  <2>0. req.pc = "drop"
    BY <1>4 DEF ReconcileDrop
  <2>1. CASE req.todo = {}
    <3>1. req' = [req EXCEPT !.pc = "load", !.todo = EnabledModels] /\ UNCHANGED <<reg, owner, stale>>
      BY <1>4, <2>1 DEF ReconcileDrop
    <3>2. req'.pc = "load" /\ req'.todo = EnabledModels /\ req'.clean = req.clean
      BY <1>0, <3>1 DEF Request0
    <3>3. drift \subseteq drift'
      BY <2>0, DriftGrows
    <3>4. Served' /\ Requested' /\ Held'
      BY <1>3, <3>1, <3>2, <3>3 DEF Registered, Editing
    <3>5. Overlapped'
      BY <1>0, <3>2, OverlapNoted DEF Truthful, Overlapped
    <3>6. Reconciled'
      <4>1. \A i \in Ids : i \in Desired => i[2] \in EnabledModels
        BY IdParts DEF Desired
      <4> QED
        BY <1>1, <2>0, <2>1, <3>1, <3>2, <4>1 DEF Truthful, Reconciled, Registered
    <3> QED
      BY <1>1, <3>4, <3>5, <3>6 DEF Truthful
  <2>2. CASE req.todo # {}
    <3>1. PICK id \in req.todo : Unregister(id) /\ req' = [req EXCEPT !.todo = @ \ {id}]
      BY <1>4, <2>2 DEF ReconcileDrop
    <3>2. req'.pc = "drop" /\ req'.todo = req.todo \ {id} /\ req'.clean = req.clean
      BY <1>0, <2>0, <3>1 DEF Request0
    <3>3. \A i \in Ids : Registered(i)' => i # id /\ Registered(i) /\ reg'[i].outs = reg[i].outs
      BY <1>0, <3>1 DEF Unregister, RegistryTyped, Registered
    <3>4. drift \subseteq drift'
      BY <2>0, DriftGrows
    <3>5. Served' /\ Requested' /\ Held'
      BY <1>3, <3>2, <3>3, <3>4 DEF Editing
    <3>6. Overlapped'
      BY <1>0, <3>2, OverlapNoted DEF Truthful, Overlapped
    <3>7. Reconciled'
      BY <1>1, <2>0, <3>2, <3>3 DEF Truthful, Reconciled
    <3> QED
      BY <1>1, <3>5, <3>6, <3>7 DEF Truthful
  <2> QED
    BY <2>1, <2>2
<1>5. CASE ReconcileLoad
  <2>1. PICK m \in req.todo :
          \/ /\ \E raised \in BOOLEAN : Register(IdOf(m, db[m]), db[m].outs, raised)
             /\ req' = [req EXCEPT !.todo = @ \ {m}]
          \/ /\ req' = [req EXCEPT !.todo = @ \ {m}, !.clean = FALSE]
             /\ UNCHANGED <<reg, owner, stale>>
    BY <1>5 DEF ReconcileLoad
  <2>2. req.pc = "load" /\ m \in Models /\ db[m].enabled /\ db[m] \in Config
    BY <1>0, <1>5, <2>1, EnabledIsConfig DEF ReconcileLoad, IInv, Asked, EnabledModels
  <2>3. CASE UNCHANGED <<reg, owner, stale>> /\ req' = [req EXCEPT !.todo = @ \ {m}, !.clean = FALSE]
    <3>1. req'.pc = "load" /\ ~req'.clean
      BY <1>0, <2>2, <2>3 DEF Request0
    <3>2. drift \subseteq drift'
      BY <3>1, DriftGrows
    <3>3. Served' /\ Requested' /\ Held'
      BY <1>3, <2>3, <3>1, <3>2 DEF Registered, Editing
    <3> QED
      BY <1>1, <3>1, <3>3, OverlapNoted DEF Truthful, Reconciled
  <2>4. CASE /\ \E raised \in BOOLEAN : Register(IdOf(m, db[m]), db[m].outs, raised)
             /\ req' = [req EXCEPT !.todo = @ \ {m}]
    <3> DEFINE id == IdOf(m, db[m])
    <3>1. id \in Ids /\ id[2] = m /\ db[m].outs \in SUBSET Points /\ id \in Desired
      BY <2>2, IdParts DEF Config, Desired, EnabledModels
    <3>2. PICK raised \in BOOLEAN : Register(id, db[m].outs, raised)
      BY <2>4
    <3>3. FewerBut(id) /\ (reg'[id] # Absent => reg'[id].outs = db[m].outs)
      BY <1>0, <3>1, <3>2, RegisterFewer
    <3>4. req'.pc = "load" /\ req'.todo = req.todo \ {m} /\ req'.clean = req.clean
      BY <1>0, <2>2, <2>4 DEF Request0
    <3>5. drift \subseteq drift'
      BY <3>4, DriftGrows
    <3>6. \A i \in Ids : Registered(i)' =>
            \/ i = id /\ Settled(i)'
            \/ i # id /\ Registered(i) /\ reg'[i].outs = reg[i].outs
      BY <1>0, <2>2, <3>1, <3>3 DEF FewerBut, Settled, Registered
    <3>7. Served' /\ Requested' /\ Held'
      BY <1>3, <3>4, <3>5, <3>6 DEF Editing
    <3>8. Overlapped'
      BY <1>0, <3>4, OverlapNoted DEF Truthful, Overlapped
    <3>9. Reconciled'
      <4> SUFFICES ASSUME req.clean, NEW i \in Ids, Registered(i)'
                   PROVE  i \in Desired /\ (i[2] \in req'.todo \/ Settled(i)')
        BY <1>1, <3>4 DEF Reconciled
      <4>1. CASE i = id
        BY <3>1, <3>6, <4>1
      <4>2. CASE i # id
        <5>1. Registered(i) /\ i \in Desired /\ (i[2] \in req.todo \/ Settled(i)) /\ reg'[i].outs = reg[i].outs
          BY <2>2, <3>6, <4>2 DEF Truthful, Reconciled
        <5>2. i[2] # m
          BY <3>1, <4>2, <5>1, IdParts DEF Desired
        <5> QED
          BY <1>0, <3>4, <5>1, <5>2 DEF Settled
      <4> QED
        BY <4>1, <4>2
    <3> QED
      BY <1>1, <3>7, <3>8, <3>9 DEF Truthful
  <2> QED
    BY <2>1, <2>3, <2>4
<1>6. CASE ReconcileEnd
  <2>1. req.pc = "load" /\ req.todo = {} /\ req'.pc = "idle" /\ reg' = reg
    BY <1>6, IdleTyped DEF ReconcileEnd
  <2>2. Requested' /\ Overlapped' /\ Reconciled'
    BY <2>1 DEF Requested, Overlapped, Reconciled, Editing
  <2>3. CASE req.clean
    <3>1. Served'
      BY <1>0, <2>1, <2>3 DEF Truthful, Reconciled, Served, ServedId, Busy, Settled, Registered, Editing
    <3>2. Held'
      BY <1>0, <2>1, <2>3 DEF Truthful, Overlapped, Held
    <3> QED
      BY <1>1, <2>2, <3>1, <3>2 DEF Truthful
  <2>4. CASE ~req.clean
    <3>1. drift \subseteq drift'
      BY <2>4, DriftGrows
    <3>2. Served' /\ Held'
      BY <1>3, <2>1, <3>1 DEF Registered, Editing
    <3> QED
      BY <1>1, <2>2, <3>2 DEF Truthful
  <2> QED
    BY <2>3, <2>4
<1> QED
  BY <1>4, <1>5, <1>6

\* A reset changes statuses only.
LEMMA ResettingKeepsTruth ==
  ASSUME IInv, IInv', Truthful, NextDrift,
         ResetInit \/ ResetDone \/ \E id \in Ids : ResetStop(id)
  PROVE  Truthful'
<1>0. /\ RegistryTyped /\ req \in Request0 /\ db' = db /\ sweep' = sweep
      /\ req.pc \in {"reset", "reinit"}
  BY RowsTyped DEF ResetInit, ResetDone, ResetStop, IInv, Typed
<1>1. req'.pc \in {"reset", "reinit", "idle"}
  BY <1>0, IdleTyped DEF ResetInit, ResetDone, ResetStop, Request0
<1>2. Fewer
  <2>1. CASE ResetDone
    BY <2>1 DEF ResetDone, Fewer, Registered
  <2>2. CASE ResetInit
    <3>1. req.m \in stale \/ (req.m \in Ids /\ reg[req.m] \in Provider)
      BY <2>2, <1>0 DEF ResetInit, IInv, Found, Registered, RegistryTyped
    <3>2. PICK status \in {"ready", "error"} :
            reg' = IF req.m \in stale THEN reg
                   ELSE [reg EXCEPT ![req.m] = [@ EXCEPT !.status = status, !.bad = FALSE]]
      BY <2>2 DEF ResetInit
    <3>3. CASE req.m \in stale
      BY <3>2, <3>3 DEF Fewer, Registered
    <3>4. CASE req.m \notin stale
      <4> DEFINE new == [[reg[req.m] EXCEPT !.status = status] EXCEPT !.bad = FALSE]
      <4>1. reg' = [reg EXCEPT ![req.m] = new] /\ new.outs = reg[req.m].outs
        BY <3>1, <3>2, <3>4 DEF Provider
      <4> HIDE DEF new
      <4> QED
        BY <1>0, <3>1, <3>4, <4>1, ProviderIsPresent DEF Fewer, Registered, RegistryTyped
    <3> QED
      BY <3>3, <3>4
  <2>3. ASSUME NEW id \in Ids, ResetStop(id) PROVE Fewer
    <3>1. id \in stale \/ reg[id] \in Provider
      BY <1>0, <2>3 DEF ResetStop, IInv, Found, Registered, RegistryTyped
    <3>2. CASE id \in stale
      BY <2>3, <3>2 DEF ResetStop, Fewer, Registered
    <3>3. CASE id \notin stale
      <4> DEFINE new == [[reg[id] EXCEPT !.status = "stopped"] EXCEPT !.bad = FALSE]
      <4>1. reg' = [reg EXCEPT ![id] = new] /\ new.outs = reg[id].outs
        BY <1>0, <2>3, <3>1, <3>3 DEF ResetStop, Provider, RegistryTyped
      <4> HIDE DEF new
      <4> QED
        BY <1>0, <3>1, <3>3, <4>1, ProviderIsPresent DEF Fewer, Registered, RegistryTyped
    <3> QED
      BY <3>2, <3>3
  <2> QED
    BY <2>1, <2>2, <2>3
<1>3. drift \subseteq drift'
  BY <1>0, DriftGrows
<1>4. Served'
  BY <1>0, <1>1, <1>2, <1>3 DEF Truthful, Served, ServedId, Busy, Settled, Editing, Fewer
<1>5. Requested' /\ Overlapped' /\ Reconciled' /\ Claims'
  BY <1>0, <1>1 DEF Truthful, Requested, Overlapped, Reconciled, Claims, Editing
<1>6. Held'
  BY <1>0, <1>3, HeldKept DEF Truthful
<1> QED
  BY <1>4, <1>5, <1>6 DEF Truthful

\* The sweep registers a row as it found it; whoever edits the row meanwhile
\* drifts.
LEMMA SweepingKeepsTruth == ASSUME IInv, IInv', Truthful, NextDrift, Sweeping PROVE Truthful'
<1>0. /\ RegistryTyped /\ db \in [Models -> Rows] /\ req \in Request0 /\ sweep \in Sweep0 /\ db' = db
      /\ clock \in {"running", "paused", "stopped"} /\ req' \in Request0
      /\ req'.pc = req.pc /\ req'.m = req.m /\ req'.cfg = req.cfg /\ req'.old = req.old
      /\ req'.todo = req.todo /\ (req'.clean => req.clean)
      /\ (~SweepBegin => req' = req)
  BY RowsTyped DEF Sweeping, SweepBegin, SweepLook, SweepUnreachable, SweepPass, SweepRelease, SweepRegister,
                   IInv, Typed, TypeOK, Request0
<1>1. drift \subseteq drift'
  BY <1>0, DriftGrows
<1>2. CASE SweepBegin
  <2>1. sweep'.pc = "probe" /\ Fewer
    BY <1>2, IdleTyped DEF SweepBegin, IdleSweep, Fewer, Registered
  <2>2. req.pc \in {"drop", "load"} => ~req'.clean
    BY <1>0, <1>2 DEF SweepBegin, Request0
  <2>3. Overlapped' /\ Held'
    BY <1>0, <2>1, <2>2, OverlapNoted DEF Held
  <2> QED
    BY <1>0, <1>1, <2>1, <2>3, FewerKeeps DEF Truthful
<1>3. ASSUME sweep.pc # "idle", req' = req PROVE Overlapped'
  BY <1>3, OverlapNoted DEF Truthful, Overlapped
<1>4. CASE SweepLook \/ SweepUnreachable
  <2>1. sweep.pc # "idle" /\ sweep'.pc # "register" /\ Fewer /\ req' = req
    BY <1>0, <1>4, IdleTyped DEF SweepLook, SweepUnreachable, Sweep0, Fewer, Registered
  <2>2. Overlapped' /\ Held'
    BY <1>3, <2>1 DEF Held
  <2> QED
    BY <1>0, <1>1, <2>1, <2>2, FewerKeeps DEF Truthful
<1>5. ASSUME NEW m \in Models, SweepPass(m) PROVE Truthful'
  <2>1. sweep.pc # "idle" /\ sweep'.pc # "register" /\ Fewer /\ req' = req
    BY <1>0, <1>5, VisitedTyped DEF SweepPass, Fewer, Registered
  <2>2. Overlapped' /\ Held'
    BY <1>3, <2>1 DEF Held
  <2> QED
    BY <1>0, <1>1, <2>1, <2>2, FewerKeeps DEF Truthful
<1>6. ASSUME NEW m \in Models, SweepRelease(m) PROVE Truthful'
  <2>1. sweep.pc # "idle" /\ req' = req
    BY <1>6 DEF SweepRelease, SweepTries
  <2>2. Fewer
    <3>1. CASE db[m] = NoConfig
      BY <1>6, <3>1 DEF SweepRelease, Fewer, Registered
    <3>2. CASE db[m] # NoConfig
      <4>1. IdOf(m, db[m]) \in Ids
        BY <1>0, <3>2, IdParts DEF Rows
      <4> QED
        BY <1>0, <1>6, <3>2, <4>1, UnregisterFewer DEF SweepRelease
    <3> QED
      BY <3>1, <3>2
  <2>3. Held'
    <3>1. CASE db[m] # NoConfig /\ db[m].enabled
      <4>1. sweep'.m = m /\ sweep'.cfg = db[m]
        BY <1>0, <1>6, <3>1 DEF SweepRelease, Sweep0
      <4> QED
        BY <1>0, <3>1, <4>1 DEF Held
    <3>2. CASE ~(db[m] # NoConfig /\ db[m].enabled)
      BY <1>0, <1>6, <3>2, VisitedTyped DEF SweepRelease, Held
    <3> QED
      BY <3>1, <3>2
  <2> QED
    BY <1>0, <1>1, <1>3, <2>1, <2>2, <2>3, FewerKeeps DEF Truthful
<1>7. CASE SweepRegister
  <2>1. sweep.pc = "register" /\ sweep.m \in Models /\ sweep.cfg \in Config /\ req' = req
    BY <1>7 DEF SweepRegister, IInv, Tried
  <2>2. PICK raised \in BOOLEAN : Register(IdOf(sweep.m, sweep.cfg), sweep.cfg.outs, raised)
    BY <1>7 DEF SweepRegister
  <2> DEFINE id == IdOf(sweep.m, sweep.cfg)
  <2>3. id \in Ids /\ id[2] = sweep.m /\ sweep.cfg.outs \in SUBSET Points
    BY <2>1, IdParts DEF Config
  <2>4. FewerBut(id) /\ (reg'[id] # Absent => reg'[id].outs = sweep.cfg.outs)
    BY <1>0, <2>2, <2>3, RegisterFewer
  <2>5. Served'
    <3> SUFFICES ASSUME NEW i \in Ids, Registered(i)', i[2] \notin drift' PROVE ServedId(i)'
      BY DEF Served
    <3>1. CASE i = id
      <4>1. db[sweep.m] = sweep.cfg /\ sweep.cfg.enabled /\ ~Busy(sweep.m)
        BY <1>1, <2>1, <2>3, <3>1 DEF Truthful, Held, Overlapped, Busy
      <4> QED
        BY <1>0, <2>1, <2>3, <2>4, <3>1, <4>1 DEF ServedId, Busy, Settled, Registered
    <3>2. CASE i # id
      <4>1. ServedId(i) /\ reg'[i].outs = reg[i].outs
        BY <1>1, <2>4, <3>2 DEF FewerBut, Truthful, Served
      <4> QED
        BY <1>0, <2>1, <4>1 DEF ServedId, Busy, Left, Settled
    <3> QED
      BY <3>1, <3>2
  <2>6. Held'
    BY <1>7, <2>1, <1>0, VisitedTyped DEF SweepRegister, Held
  <2>7. Requested' /\ Claims'
    BY <1>0, <2>1 DEF Truthful, Requested, Claims
  <2>8. Reconciled'
    BY <2>1 DEF Truthful, Overlapped, Reconciled
  <2> QED
    BY <1>3, <2>1, <2>5, <2>6, <2>7, <2>8 DEF Truthful
<1> QED
  BY <1>2, <1>4, <1>5, <1>6, <1>7 DEF Sweeping

---------------------------------------------------------------------------
\* Nothing is registered and nothing is under way at the start.
LEMMA InitTruthful == Init => Truthful
<1> SUFFICES ASSUME Init PROVE Truthful
  OBVIOUS
<1>1. req.pc = "idle" /\ sweep.pc = "idle"
  BY IdleTyped DEF Init
<1>2. Served
  BY DEF Init, Served, Registered
<1>3. Claims
  BY DEF Init, Claims
<1> QED
  BY <1>1, <1>2, <1>3 DEF Truthful, Requested, Overlapped, Held, Reconciled, Editing

\* Every step of every actor keeps what the registry says of the rows.
LEMMA NextTruthful == IInv /\ Truthful /\ [Next]_vars => Truthful'
<1> SUFFICES ASSUME IInv, Truthful, [Next]_vars PROVE Truthful'
  OBVIOUS
<1>0. IInv'
  BY NextKeeps
<1>1. CASE UNCHANGED vars
  <2>1. Fewer
    BY <1>1 DEF vars, Fewer, Registered
  <2>2. Overlapped' /\ Held'
    BY <1>1 DEF vars, Truthful, Overlapped, Held
  <2> QED
    BY <1>1, <2>1, <2>2, FewerKeeps DEF vars, Truthful
<1>2. CASE Next
  BY <1>0, <1>2, RequestKeepsTruth, EditingKeepsTruth, ReconcilingKeepsTruth, ResettingKeepsTruth,
     SweepingKeepsTruth, TickingKeepsTruth DEF Next, Serving
<1> QED
  BY <1>1, <1>2

\* Both invariants hold together in every state of the registry.
LEMMA TruthfulAlways == Spec => [](IInv /\ Truthful)
BY InitHolds, NextKeeps, InitTruthful, NextTruthful, PTL DEF Spec

\* Whatever is registered between two requests is an enabled row, under that
\* row's key and with its outputs, unless the row was saved without apply (or
\* applied as disabled), or a request about it overlapped a recovery sweep:
\* for any number of models, whatever fails, and through every edit, toggle,
\* reload, deletion, reconciliation, reset and sweep.
THEOREM RegistryTellsRows == Spec => []RegisteredIsConfigured
<1>1. IInv /\ Truthful => RegisteredIsConfigured
  BY DEF Truthful, Served, ServedId, Busy, Settled, Editing, RegisteredIsConfigured, RegisteredIds
<1> QED
  BY <1>1, TruthfulAlways, PTL

\* A request that comes to register a model never finds its points taken by
\* another model, unless that one drifted: the one explicit owner per point
\* that the tables enforce is enough for register_simulation_provider.
THEOREM ConflictsNeedDrift == Spec => []ConflictMeansDrift
<1>1. IInv /\ Truthful => ConflictMeansDrift
  <2> SUFFICES ASSUME IInv, Truthful, req.pc = "register", NEW p \in req.cfg.outs,
                      owner[p] # None, owner[p] # IdOf(req.m, req.cfg), owner[p][2] \notin drift
               PROVE  FALSE
    BY DEF ConflictMeansDrift
  <2>1. /\ req.m \in Models /\ req.cfg \in Config /\ req.cfg = db[req.m] /\ p \in Points
        /\ owner \in [Points -> Ids \cup {None}]
    BY RowsTyped DEF IInv, Asked, Truthful, Requested, Config, RegistryTyped
  <2> DEFINE id == owner[p]
  <2>2. id \in Ids /\ Registered(id) /\ p \in reg[id].outs
    BY <2>1 DEF IInv, OwnershipAgrees
  <2>3. ServedId(id)
    BY <2>2 DEF Truthful, Served
  <2>4. ~Busy(id[2])
    BY <2>3 DEF ServedId, Left
  <2>5. Settled(id) /\ id[2] # req.m /\ id[2] \in Models
    BY <2>2, <2>3, <2>4, IdParts DEF ServedId, Busy, Editing
  <2>6. db[id[2]] # NoConfig /\ db[req.m] # NoConfig /\ p \in db[id[2]].outs /\ p \in db[req.m].outs
    BY <2>1, <2>2, <2>5 DEF Settled, NoConfig, Config
  <2> QED
    BY <2>1, <2>5, <2>6 DEF Truthful, Claims
<1> QED
  BY <1>1, TruthfulAlways, PTL
=============================================================================
