-------------------------- MODULE DataPlaneProofs --------------------------
(***************************************************************************)
(* Theorems about DataPlane, for every number of names, edits and faults,  *)
(* and with or without the admission webhook.                              *)
(***************************************************************************)
EXTENDS DataPlane, TLAPS

-----------------------------------------------------------------------------
(* Types *)

\* SetCondition yields conditions again.
LEMMA SetConditionType ==
    ASSUME NEW conds \in Conds, NEW t \in {Provisioned, ReadyType},
           NEW c \in ConditionValues
    PROVE  SetCondition(conds, t, c) \in Conds
<1>1. PICK present \in SUBSET {Provisioned, ReadyType} :
          conds \in [present -> ConditionValues]
  BY DEF Conds, ConditionsOver
<1>2. present \cup {t} \in SUBSET {Provisioned, ReadyType}
  OBVIOUS
<1>3. SetCondition(conds, t, c) \in [present \cup {t} -> ConditionValues]
  BY <1>1 DEF SetCondition
<1> QED
  BY <1>2, <1>3 DEF Conds, ConditionsOver

\* The status helpers map conditions to conditions.
LEMMA StatusTypes ==
    ASSUME NEW conds \in Conds
    PROVE  /\ InitReady(conds) \in Conds
           /\ ensureIsMarkedScheduled(conds) \in Conds
           /\ ensureIsMarkedProvisioned(conds) \in Conds
           /\ \A m \in Messages :
                 SetCondition(conds, Provisioned, ValidationFailed(m)) \in Conds
<1> USE DEF ConditionValues
<1>1. InitReady(conds) \in Conds
  BY SetConditionType DEF InitReady
<1>2. ensureIsMarkedScheduled(conds) \in Conds
  BY SetConditionType DEF ensureIsMarkedScheduled
<1>3. ensureIsMarkedProvisioned(conds) \in Conds
  <2>1. SetCondition(conds, Provisioned, PodsReady) \in Conds
    BY SetConditionType
  <2> QED
    BY <2>1, SetConditionType DEF ensureIsMarkedProvisioned, SetReady
<1>4. ASSUME NEW m \in Messages
      PROVE  SetCondition(conds, Provisioned, ValidationFailed(m)) \in Conds
  <2>1. ValidationFailed(m) \in ConditionValues
    OBVIOUS
  <2> QED
    BY <2>1, SetConditionType
<1> QED
  BY <1>1, <1>2, <1>3, <1>4

\* The empty slice, the idle worker and the absent resource are well typed.
LEMMA ConstantTypes ==
    /\ NoConditions \in Conds
    /\ NoDataPlane \in DataPlaneResource
    /\ Idle \in Worker
<1>1. NoConditions \in Conds
  <2>1. NoConditions \in [{} -> ConditionValues]
    BY DEF NoConditions
  <2> QED
    BY <2>1 DEF Conds, ConditionsOver
<1>2. NoDataPlane \in DataPlaneResource
  BY <1>1 DEF NoDataPlane, DataPlaneResource, Envs
<1>3. Idle \in Worker
  BY <1>2 DEF Idle, Worker, Steps
<1> QED
  BY <1>1, <1>2, <1>3

\* At each step the worker has found what the objects it may generate name.
HeldInOrder ==
    /\ w.pc \in {"validate", "sec", "dep"} => w.held["svc"] \in Names
    /\ w.pc = "dep" => w.held["sec"] \in Names

TypeInv == TypeOK /\ HeldInOrder

\* A write of an owned kind keeps the types of what it changes.
LEMMA WriteType ==
    ASSUME TypeOK, NEW k \in Kinds, NEW objects \in SUBSET Object(k), Write(k, objects)
    PROVE  /\ DOMAIN owned' = Kinds
           /\ \A j \in Kinds : owned'[j] \subseteq Object(j)
           /\ pending' \subseteq Kinds \cup {"dp"}
BY DEF TypeOK, Write

\* A write of one kind leaves the others alone.
LEMMA WriteOwned ==
    ASSUME TypeOK, NEW j \in Kinds, NEW objects, Write(j, objects), NEW k \in Kinds
    PROVE  owned'[k] = IF k = j THEN objects ELSE owned[k]
BY DEF TypeOK, Write

\* A list returns objects.
LEMMA ListType ==
    ASSUME TypeOK, NEW k \in Kinds
    PROVE  List(k) \subseteq Object(k)
BY DEF TypeOK, List

\* A write of the DataPlane keeps the types of what it changes.
LEMMA WriteDPType ==
    ASSUME TypeOK, NEW d \in DataPlaneResource, WriteDP(d)
    PROVE  dp' \in DataPlaneResource /\ pending' \subseteq Kinds \cup {"dp"}
BY DEF TypeOK, WriteDP

\* The worker stays well typed when it returns, or begins a pass, or goes on
\* with a new copy.
LEMMA WorkerType ==
    ASSUME TypeInv
    PROVE  /\ \A b \in BOOLEAN :
                 Return(b) => w' \in Worker /\ queued' \in BOOLEAN /\ HeldInOrder'
           /\ \A c \in DataPlaneResource :
                 /\ \A pc \in {"status", "svc"} :
                       Hold(pc, c) => w' \in Worker /\ HeldInOrder'
                 /\ \A pc \in {"status", "report"} :
                       Goto(pc, c) => w' \in Worker /\ queued' \in BOOLEAN /\ HeldInOrder'
<1> USE DEF TypeInv
<1>0. w' = Idle => HeldInOrder'
  BY DEF HeldInOrder, Idle
<1>1. ASSUME NEW b \in BOOLEAN, Return(b)
      PROVE  w' \in Worker /\ queued' \in BOOLEAN /\ HeldInOrder'
  <2>1. (queued \/ b) \in BOOLEAN
    BY DEF TypeOK
  <2> QED
    BY <1>0, <1>1, <2>1, ConstantTypes, Zenon DEF Return
<1>2. ASSUME NEW c \in DataPlaneResource, NEW pc \in {"status", "report"}, Goto(pc, c)
      PROVE  w' \in Worker /\ queued' \in BOOLEAN /\ HeldInOrder'
  <2>1. w' \in Worker /\ queued' \in BOOLEAN /\ w'.pc = pc
    BY <1>2 DEF Goto, TypeOK, Worker, Steps
  <2> QED
    BY <2>1 DEF HeldInOrder
<1>3. ASSUME NEW c \in DataPlaneResource, NEW pc \in {"status", "svc"}, Hold(pc, c)
      PROVE  w' \in Worker /\ HeldInOrder'
  <2> DEFINE late == "dp" \in pending
  <2>1. late \in BOOLEAN
    OBVIOUS
  <2>2. w' = [Idle EXCEPT !.pc = pc, !.dp = c, !.stale = late]
    BY <1>3 DEF Hold
  <2> HIDE DEF late
  <2>3. w' \in Worker /\ w'.pc = pc
    BY <2>1, <2>2, ConstantTypes DEF Worker, Steps, Kinds
  <2> QED
    BY <2>3 DEF HeldInOrder
<1> QED
  BY <1>1, <1>2, <1>3

\* The counters stay within their bounds.
LEMMA CounterTypes ==
    ASSUME TypeOK
    PROVE  /\ Fault => faults' \in 0..MaxFaults
           /\ Edit => edits' \in 0..MaxEdits
BY ConstantsAssumption DEF Fault, Edit, TypeOK

\* The initial states are well typed.
LEMMA InitType == Init => TypeInv
<1> SUFFICES ASSUME Init PROVE TypeInv
  OBVIOUS
<1>1. dp \in DataPlaneResource
  BY ConstantTypes, ConstantsAssumption DEF Init, DataPlaneResource, NoDataPlane
<1>2. /\ DOMAIN owned = Kinds /\ DOMAIN cache = Kinds
      /\ \A k \in Kinds : owned[k] = {} /\ cache[k] = {}
  BY DEF Init
<1>3. edits \in 0..MaxEdits /\ faults \in 0..MaxFaults /\ config \in Configs
  BY ConstantsAssumption DEF Init
<1>4. dpSeen \in DataPlaneResource /\ w \in Worker
  BY ConstantTypes DEF Init
<1>5. HeldInOrder
  BY DEF Init, HeldInOrder, Idle
<1>6. pending \subseteq Kinds \cup {"dp"} /\ queued \in BOOLEAN /\ ca \in BOOLEAN
      /\ hook \in Hooks
  BY DEF Init
<1> QED
  BY <1>1, <1>2, <1>3, <1>4, <1>5, <1>6 DEF TypeOK, TypeInv

\* Steps that begin a reconciliation.
LEMMA TakeType ==
    ASSUME TypeInv, GetNotFound \/ MarkScheduled \/ StartProvisioning
    PROVE  TypeInv'
<1> USE DEF Take, objectVars, cacheVars, envVars
<1>a. dpSeen \in DataPlaneResource /\ dpSeen.conds \in Conds
  BY DEF TypeInv, TypeOK, DataPlaneResource
<1>b. w' \in Worker /\ HeldInOrder'
  <2>1. CASE GetNotFound
    BY <2>1 DEF GetNotFound, TypeInv, TypeOK, HeldInOrder
  <2>2. CASE MarkScheduled
    <3> DEFINE conds == ensureIsMarkedScheduled(InitReady(dpSeen.conds))
    <3>1. conds \in Conds
      BY <1>a, StatusTypes
    <3> HIDE DEF conds
    <3>2. [dpSeen EXCEPT !.conds = conds] \in DataPlaneResource
      BY <1>a, <3>1 DEF DataPlaneResource
    <3>3. Hold("status", [dpSeen EXCEPT !.conds = conds])
      BY <2>2 DEF MarkScheduled, conds
    <3> QED
      BY <3>2, <3>3, WorkerType
  <2>3. CASE StartProvisioning
    <3> DEFINE conds == InitReady(dpSeen.conds)
    <3>1. conds \in Conds
      BY <1>a, StatusTypes
    <3> HIDE DEF conds
    <3>2. [dpSeen EXCEPT !.conds = conds] \in DataPlaneResource
      BY <1>a, <3>1 DEF DataPlaneResource
    <3>3. Hold("svc", [dpSeen EXCEPT !.conds = conds])
      BY <2>3 DEF StartProvisioning, conds
    <3> QED
      BY <3>2, <3>3, WorkerType
  <2> QED
    BY <2>1, <2>2, <2>3
<1>c. /\ queued' = FALSE
      /\ UNCHANGED <<dp, owned, dpSeen, cache, pending, config, ca, hook, edits, faults>>
  BY DEF GetNotFound, MarkScheduled, StartProvisioning
<1> QED
  BY <1>b, <1>c DEF TypeInv, TypeOK

\* Steps that write the DataPlane.
LEMMA UpdateType ==
    ASSUME TypeInv, updateStatus \/ ReportStatus \/ SetDataPlaneDefaults
    PROVE  TypeInv'
<1> USE DEF objectVars, cacheVars, envVars
<1>a. /\ TypeOK /\ dp \in DataPlaneResource
      /\ w.dp.conds \in Conds /\ w.dp.service \in Names \cup {NoName}
  BY DEF TypeInv, TypeOK, Worker, DataPlaneResource
<1>b. /\ [dp EXCEPT !.conds = w.dp.conds, !.service = w.dp.service] \in DataPlaneResource
      /\ [dp EXCEPT !.env = "defaults"] \in DataPlaneResource
  BY <1>a DEF DataPlaneResource, Envs
<1>c. \/ \E b \in BOOLEAN : Return(b) /\ UNCHANGED <<dp, pending>>
      \/ /\ \/ WriteDP([dp EXCEPT !.conds = w.dp.conds, !.service = w.dp.service])
            \/ WriteDP([dp EXCEPT !.env = "defaults"])
         /\ Return(FALSE)
  BY Zenon DEF updateStatus, ReportStatus, SetDataPlaneDefaults, WriteStatusAndReturn
<1>d. dp' \in DataPlaneResource /\ pending' \subseteq Kinds \cup {"dp"}
  BY <1>a, <1>b, <1>c, WriteDPType DEF TypeOK
<1>e. w' \in Worker /\ queued' \in BOOLEAN /\ HeldInOrder'
  BY <1>c, WorkerType
<1>f. UNCHANGED <<owned, dpSeen, cache, config, ca, hook, edits, faults>>
  BY DEF updateStatus, ReportStatus, SetDataPlaneDefaults
<1> QED
  BY <1>d, <1>e, <1>f DEF TypeInv, TypeOK

\* What validation says is a message or "valid".
LEMMA ValidateType ==
    ASSUME NEW env
    PROVE  Validate(env) \in Messages \cup {Valid} /\ Valid \notin Messages
BY DEF Validate, Messages, Valid

\* Reporting a failed validation keeps the types.
LEMMA NotProvisionedType ==
    ASSUME TypeInv, NEW m \in Messages, ensureDataPlaneIsMarkedNotProvisioned(m)
    PROVE  w' \in Worker /\ queued' \in BOOLEAN /\ HeldInOrder'
<1> DEFINE conds == SetCondition(w.dp.conds, Provisioned, ValidationFailed(m))
<1>1. w.dp \in DataPlaneResource /\ w.dp.conds \in Conds
  BY DEF TypeInv, TypeOK, Worker, DataPlaneResource
<1>2. conds \in Conds
  BY <1>1, StatusTypes
<1>3. Return(FALSE) \/ Goto("report", [w.dp EXCEPT !.conds = conds])
  BY Zenon DEF ensureDataPlaneIsMarkedNotProvisioned
<1> HIDE DEF conds
<1>4. [w.dp EXCEPT !.conds = conds] \in DataPlaneResource
  BY <1>1, <1>2 DEF DataPlaneResource
<1> QED
  BY <1>3, <1>4, WorkerType

\* Steps of the validation.
LEMMA ValidationType ==
    ASSUME TypeInv, ValidationFails \/ ValidationSucceeds \/ ReferenceUnreadable
    PROVE  TypeInv'
<1> USE DEF objectVars, cacheVars, envVars
<1>1. CASE ValidationFails
  <2>1. w' \in Worker /\ queued' \in BOOLEAN /\ HeldInOrder'
    BY <1>1, ValidateType, NotProvisionedType DEF ValidationFails
  <2>2. UNCHANGED <<dp, owned, dpSeen, cache, pending, config, ca, hook, edits, faults>>
    BY <1>1 DEF ValidationFails
  <2> QED
    BY <2>1, <2>2 DEF TypeInv, TypeOK
<1>2. CASE ValidationSucceeds
  <2>1. /\ w' \in Worker /\ queued' \in BOOLEAN /\ w'.pc = "sec" /\ w'.held = w.held
        /\ w.pc = "validate"
    BY <1>2 DEF ValidationSucceeds, Goto, TypeInv, TypeOK, Worker, Steps, Kinds
  <2>2. UNCHANGED <<dp, owned, dpSeen, cache, pending, config, ca, hook, edits, faults>>
    BY <1>2 DEF ValidationSucceeds
  <2>3. HeldInOrder'
    BY <2>1 DEF TypeInv, HeldInOrder
  <2> QED
    BY <2>1, <2>2, <2>3 DEF TypeInv, TypeOK
<1>3. CASE ReferenceUnreadable
  <2>1. w' \in Worker /\ queued' \in BOOLEAN /\ HeldInOrder'
    BY <1>3, NotProvisionedType DEF ReferenceUnreadable, Messages
  <2>2. UNCHANGED <<dp, owned, dpSeen, cache, pending, config, ca, hook, edits>>
    BY <1>3 DEF ReferenceUnreadable, Fault
  <2>3. faults' \in 0..MaxFaults
    BY <1>3, CounterTypes DEF ReferenceUnreadable, TypeInv
  <2> QED
    BY <2>1, <2>2, <2>3 DEF TypeInv, TypeOK
<1> QED
  BY <1>1, <1>2, <1>3

\* An object keeps its type under the changes that anyone makes to it.
LEMMA ChangedObjects ==
    ASSUME NEW k \in Kinds, NEW o \in Object(k)
    PROVE  /\ \A e \in Envs : [o EXCEPT !.env = e] \in Object(k)
           /\ \A e \in Envs : [o EXCEPT !.drift = FALSE, !.env = e] \in Object(k)
           /\ \A p \in PodStates : [o EXCEPT !.pods = p] \in Object(k)
           /\ [o EXCEPT !.drift = TRUE] \in Object(k)
           /\ [o EXCEPT !.ip = FALSE] \in Object(k)
           /\ o.name \in Names /\ o.env \in Envs
BY DEF Object

\* A generated object is an object, and its name is one that was free.
LEMMA GeneratedType ==
    ASSUME TypeInv, NEW k \in Kinds, w.pc = k, Fresh(k) # {}
    PROVE  /\ NewName(k) \in Fresh(k) /\ NewName(k) \in Names
           /\ New(k, Of(k)) \in Object(k)
<1>1. NewName(k) \in Fresh(k)
  BY DEF NewName
<1>2. NewName(k) \in Names
  BY <1>1 DEF Fresh
<1>3. Of(k) \in IF k = "svc" THEN {NoName} ELSE Names
  BY DEF Of, TypeInv, HeldInOrder, Kinds
<1> DEFINE env == IF k = "dep" THEN w.dp.env ELSE "none"
           ip == k = "svc"
<1>4. env \in Envs /\ ip \in BOOLEAN
  BY DEF TypeInv, TypeOK, Worker, DataPlaneResource, Envs
<1>5. New(k, Of(k)) = [name |-> NewName(k), drift |-> FALSE, of |-> Of(k), ip |-> ip,
                       env |-> env, pods |-> "none"]
  BY DEF New
<1> HIDE DEF env, ip
<1>6. New(k, Of(k)) \in Object(k)
  BY <1>2, <1>3, <1>4, <1>5 DEF Object, PodStates
<1> QED
  BY <1>1, <1>2, <1>6

\* What the reconciler makes of an object is one, of the same name.
LEMMA CorrectedType ==
    ASSUME TypeOK, NEW k \in Kinds, NEW o \in Object(k)
    PROVE  /\ Corrected(k, o) \in Object(k)
           /\ Corrected(k, o).name = o.name
           /\ Corrected(k, o).env = IF k = "dep" THEN w.dp.env ELSE o.env
<1> DEFINE env == IF k = "dep" THEN w.dp.env ELSE o.env
<1>1. env \in Envs
  BY ChangedObjects DEF TypeOK, Worker, DataPlaneResource
<1>2. Corrected(k, o) = [o EXCEPT !.drift = FALSE, !.env = env]
  BY DEF Corrected
<1>3. Corrected(k, o).env = env /\ Corrected(k, o).name = o.name
  <2> HIDE DEF env
  <2> QED
    BY <1>2 DEF Object
<1>4. Corrected(k, o) \in Object(k)
  <2> HIDE DEF env
  <2> QED
    BY <1>1, <1>2, ChangedObjects
<1> QED
  BY <1>3, <1>4

\* Where Reconcile goes after a create or an update of an owned object.
LEMMA ChangedType ==
    ASSUME TypeInv, NEW k \in Kinds, NEW n \in Names, Changed(k, n)
    PROVE  w' \in Worker /\ queued' \in BOOLEAN /\ HeldInOrder'
<1>1. [w.dp EXCEPT !.service = n] \in DataPlaneResource
  BY DEF TypeInv, TypeOK, Worker, DataPlaneResource
<1> QED
  BY <1>1, WorkerType DEF Changed

\* Steps about the owned objects.
LEMMA OwnedType ==
    ASSUME TypeInv, NEW k \in Kinds, FoundSeveral(k) \/ CreateOwned(k) \/ UpdateOwned(k)
    PROVE  TypeInv'
<1> USE DEF objectVars, cacheVars, envVars
<1>a. TypeOK /\ owned[k] \subseteq Object(k)
  BY DEF TypeInv, TypeOK
<1>1. CASE FoundSeveral(k)
  <2>1. w' \in Worker /\ queued' \in BOOLEAN /\ HeldInOrder'
    BY <1>1, WorkerType DEF FoundSeveral
  <2> QED
    BY <1>1, <2>1 DEF FoundSeveral, TypeInv, TypeOK
<1>2. CASE CreateOwned(k)
  <2>1. /\ w.pc = k /\ Fresh(k) # {}
        /\ Write(k, owned[k] \cup {New(k, Of(k))}) /\ Changed(k, NewName(k))
        /\ UNCHANGED <<dp, dpSeen, cache, config, ca, hook, edits, faults>>
    BY <1>2 DEF CreateOwned
  <2>2. New(k, Of(k)) \in Object(k) /\ NewName(k) \in Names
    BY <2>1, GeneratedType
  <2>3. w' \in Worker /\ queued' \in BOOLEAN /\ HeldInOrder'
    BY <2>1, <2>2, ChangedType
  <2>4. owned[k] \cup {New(k, Of(k))} \in SUBSET Object(k)
    BY <1>a, <2>2
  <2>5. /\ DOMAIN owned' = Kinds
        /\ \A j \in Kinds : owned'[j] \subseteq Object(j)
        /\ pending' \subseteq Kinds \cup {"dp"}
    BY <1>a, <2>1, <2>4, WriteType
  <2> QED
    BY <2>1, <2>3, <2>5 DEF TypeInv, TypeOK
<1>3. CASE UpdateOwned(k)
  <2>1. PICK o \in List(k) :
          IF o \in owned[k]
          THEN /\ Write(k, (owned[k] \ {o}) \cup {Corrected(k, o)})
               /\ Changed(k, o.name)
          ELSE Return(TRUE) /\ UNCHANGED <<owned, pending>>
    BY <1>3 DEF UpdateOwned
  <2>2. o \in Object(k) /\ o.name \in Names /\ Corrected(k, o) \in Object(k)
    BY <1>a, ListType, ChangedObjects, CorrectedType
  <2>3. w' \in Worker /\ queued' \in BOOLEAN /\ HeldInOrder'
    BY <2>1, <2>2, ChangedType, WorkerType
  <2>4. (owned[k] \ {o}) \cup {Corrected(k, o)} \in SUBSET Object(k)
    BY <1>a, <2>2
  <2>5. /\ DOMAIN owned' = Kinds
        /\ \A j \in Kinds : owned'[j] \subseteq Object(j)
        /\ pending' \subseteq Kinds \cup {"dp"}
    <3>1. CASE o \in owned[k]
      BY <1>a, <2>1, <2>4, <3>1, WriteType
    <3>2. CASE o \notin owned[k]
      BY <1>a, <2>1, <3>2 DEF TypeOK
    <3> QED
      BY <3>1, <3>2
  <2>6. UNCHANGED <<dp, dpSeen, cache, config, ca, hook, edits, faults>>
    BY <1>3 DEF UpdateOwned
  <2> QED
    BY <2>3, <2>5, <2>6 DEF TypeInv, TypeOK
<1> QED
  BY <1>1, <1>2, <1>3

\* Steps that go on with an object that is there, or stop for want of a CA.
LEMMA HaveType ==
    ASSUME TypeInv, CANotFound \/ HaveService \/ HaveCertificate \/ HaveDeployment
    PROVE  TypeInv'
<1> USE DEF objectVars, cacheVars, envVars
<1>a. /\ TypeOK /\ w \in Worker /\ queued \in BOOLEAN
      /\ w.dp \in DataPlaneResource /\ w.dp.conds \in Conds
  BY DEF TypeInv, TypeOK, Worker, DataPlaneResource
<1>b. ASSUME NEW k \in Kinds, NEW o \in List(k)
      PROVE  o.name \in Names
  BY <1>a, <1>b, ListType, ChangedObjects
<1>1. CASE CANotFound
  <2>1. w' \in Worker /\ queued' \in BOOLEAN /\ HeldInOrder'
    BY <1>1, WorkerType DEF CANotFound
  <2> QED
    BY <1>1, <2>1 DEF CANotFound, TypeInv, TypeOK
<1>2. CASE HaveService
  <2>1. PICK o \in List("svc") :
          /\ Have("svc", o)
          /\ IF ~o.ip
             THEN Return(FALSE)
             ELSE /\ w' = [w EXCEPT !.pc = IF w.dp.env = "none" THEN "update" ELSE "validate",
                                    !.held["svc"] = o.name]
                  /\ UNCHANGED queued
    BY <1>2 DEF HaveService
  <2>2. w' \in Worker /\ queued' \in BOOLEAN /\ HeldInOrder'
    <3>1. CASE Return(FALSE)
      BY <3>1, WorkerType
    <3>2. CASE ~Return(FALSE)
      <4> DEFINE pc == IF w.dp.env = "none" THEN "update" ELSE "validate"
      <4>1. w' = [w EXCEPT !.pc = pc, !.held["svc"] = o.name] /\ queued' = queued
        BY <2>1, <3>2
      <4>2. pc \in {"update", "validate"}
        OBVIOUS
      <4> HIDE DEF pc
      <4>3. o.name \in Names
        BY <1>b DEF Kinds
      <4>4. w' \in Worker /\ w'.pc = pc /\ w'.held["svc"] \in Names
        BY <1>a, <4>1, <4>2, <4>3 DEF Worker, Steps, Kinds
      <4> QED
        BY <1>a, <4>1, <4>2, <4>4 DEF HeldInOrder
    <3> QED
      BY <3>1, <3>2
  <2> QED
    BY <2>1, <2>2 DEF Have, TypeInv, TypeOK
<1>3. CASE HaveCertificate
  <2>1. PICK o \in List("sec") :
          /\ Have("sec", o)
          /\ w' = [w EXCEPT !.pc = "dep", !.held["sec"] = o.name]
          /\ UNCHANGED queued
    BY <1>3 DEF HaveCertificate
  <2>2. o.name \in Names
    BY <1>b DEF Kinds
  <2>3. /\ w' \in Worker /\ w'.pc = "dep" /\ w'.held["sec"] \in Names
        /\ w'.held["svc"] = w.held["svc"] /\ w.pc = "sec"
    BY <1>a, <2>1, <2>2 DEF Worker, Steps, Kinds, Have
  <2>4. HeldInOrder'
    BY <2>3 DEF TypeInv, HeldInOrder
  <2> QED
    BY <2>1, <2>3, <2>4 DEF Have, TypeInv, TypeOK
<1>4. CASE HaveDeployment
  <2> DEFINE conds == ensureIsMarkedProvisioned(w.dp.conds)
  <2>1. conds \in Conds
    BY <1>a, StatusTypes
  <2>2. PICK o \in List("dep") :
          /\ Have("dep", o)
          /\ Return(FALSE) \/ Goto("status", [w.dp EXCEPT !.conds = conds])
    BY <1>4 DEF HaveDeployment
  <2> HIDE DEF conds
  <2>3. [w.dp EXCEPT !.conds = conds] \in DataPlaneResource
    BY <1>a, <2>1 DEF DataPlaneResource
  <2>4. w' \in Worker /\ queued' \in BOOLEAN /\ HeldInOrder'
    BY <2>2, <2>3, WorkerType
  <2> QED
    BY <2>2, <2>4 DEF Have, TypeInv, TypeOK
<1> QED
  BY <1>1, <1>2, <1>3, <1>4

\* Failures and restarts.
LEMMA FaultType ==
    ASSUME TypeInv, APIError \/ Restart
    PROVE  TypeInv'
<1> USE DEF objectVars, cacheVars
<1>a. TypeOK /\ (Fault => faults' \in 0..MaxFaults)
  BY CounterTypes DEF TypeInv
<1>1. CASE APIError
  <2>1. w' \in Worker /\ queued' \in BOOLEAN /\ HeldInOrder'
    BY <1>1, WorkerType DEF APIError
  <2>2. Fault /\ UNCHANGED <<dp, owned, dpSeen, cache, pending>>
    BY <1>1 DEF APIError
  <2> QED
    BY <1>a, <2>1, <2>2 DEF Fault, TypeInv, TypeOK
<1>2. CASE Restart
  <2>1. DOMAIN cache' = Kinds /\ \A k \in Kinds : cache'[k] \subseteq Object(k)
    BY <1>a, <1>2 DEF Restart, TypeOK
  <2>2. w' \in Worker /\ HeldInOrder' /\ dpSeen' \in DataPlaneResource
    BY <1>a, <1>2, ConstantTypes DEF Restart, TypeOK, HeldInOrder, Idle
  <2>3. Fault /\ queued' = TRUE /\ pending' = {} /\ UNCHANGED <<dp, owned>>
    BY <1>2 DEF Restart
  <2> QED
    BY <1>a, <2>1, <2>2, <2>3 DEF Fault, TypeInv, TypeOK
<1> QED
  BY <1>1, <1>2

\* Informers, the CA manager and the controllers of Kubernetes.
LEMMA EnvironmentType ==
    ASSUME TypeInv,
           \/ DeliverDataPlane \/ (\E k \in Kinds : DeliverOwned(k)) \/ Resync
           \/ CreateCA \/ DeploymentController \/ GarbageCollect
    PROVE  TypeInv'
<1> USE DEF objectVars, cacheVars, envVars
<1>a. TypeOK
  BY DEF TypeInv
<1>0. UNCHANGED w => (HeldInOrder => HeldInOrder')
  BY DEF HeldInOrder
<1>1. CASE DeliverDataPlane
  BY <1>1, <1>0 DEF DeliverDataPlane, TypeInv, TypeOK
<1>2. ASSUME NEW k \in Kinds, DeliverOwned(k)
      PROVE  TypeInv'
  <2>1. DOMAIN cache' = Kinds /\ \A j \in Kinds : cache'[j] \subseteq Object(j)
    BY <1>a, <1>2 DEF DeliverOwned, TypeOK
  <2>2. /\ queued' = TRUE /\ pending' = pending \ {k}
        /\ UNCHANGED <<dp, owned, dpSeen, w, config, ca, hook, edits, faults>>
    BY <1>2 DEF DeliverOwned
  <2> QED
    BY <1>0, <2>1, <2>2 DEF TypeInv, TypeOK
<1>3. CASE Resync
  BY <1>3, <1>0 DEF Resync, TypeInv, TypeOK
<1>4. CASE CreateCA
  BY <1>4, <1>0 DEF CreateCA, TypeInv, TypeOK
<1>5. CASE DeploymentController
  <2>1. PICK o \in owned["dep"] :
           Write("dep", (owned["dep"] \ {o}) \cup {[o EXCEPT !.pods = NextPods(o)]})
    BY <1>5 DEF DeploymentController
  <2>2. "dep" \in Kinds /\ owned["dep"] \subseteq Object("dep")
    BY <1>a DEF TypeOK, Kinds
  <2>3. NextPods(o) \in PodStates
    BY <2>2 DEF Object, NextPods, PodStates
  <2>4. (owned["dep"] \ {o}) \cup {[o EXCEPT !.pods = NextPods(o)]} \in SUBSET Object("dep")
    BY <2>2, <2>3, ChangedObjects
  <2>5. /\ DOMAIN owned' = Kinds
        /\ \A j \in Kinds : owned'[j] \subseteq Object(j)
        /\ pending' \subseteq Kinds \cup {"dp"}
    BY <1>a, <2>1, <2>2, <2>4, WriteType
  <2> QED
    BY <1>5, <1>0, <2>5 DEF DeploymentController, TypeInv, TypeOK
<1>6. CASE GarbageCollect
  <2>1. PICK k \in Kinds : Write(k, {})
    BY <1>6 DEF GarbageCollect
  <2>2. /\ DOMAIN owned' = Kinds
        /\ \A j \in Kinds : owned'[j] \subseteq Object(j)
        /\ pending' \subseteq Kinds \cup {"dp"}
    BY <1>a, <2>1, WriteType
  <2> QED
    BY <1>6, <1>0, <2>2 DEF GarbageCollect, TypeInv, TypeOK
<1> QED
  BY <1>1, <1>2, <1>3, <1>4, <1>5, <1>6

\* Users.
LEMMA UserType ==
    ASSUME TypeInv, EditDataPlane \/ EditConfig \/ LoseOwned \/ EditOwned \/ PodFails
    PROVE  TypeInv'
<1> USE DEF objectVars, cacheVars
<1>a. TypeOK /\ (Edit => edits' \in 0..MaxEdits)
  BY CounterTypes DEF TypeInv
<1>0. UNCHANGED w => (HeldInOrder => HeldInOrder')
  BY DEF HeldInOrder
<1>b. ASSUME NEW k \in Kinds, NEW S \in SUBSET Object(k), Write(k, S), Edit,
             UNCHANGED <<dp, w, config>>
      PROVE  TypeInv'
  <2>1. /\ DOMAIN owned' = Kinds
        /\ \A j \in Kinds : owned'[j] \subseteq Object(j)
        /\ pending' \subseteq Kinds \cup {"dp"}
    BY <1>a, <1>b, WriteType
  <2> QED
    BY <1>a, <1>0, <1>b, <2>1 DEF Edit, TypeInv, TypeOK
<1>1. CASE EditDataPlane
  <2>1. PICK d \in DataPlaneResource : WriteDP(d)
    <3>1. ASSUME NEW e \in UserEnvs
          PROVE  [dp EXCEPT !.env = e] \in DataPlaneResource
      BY <1>a, ConstantsAssumption DEF TypeOK, DataPlaneResource
    <3>2. [dp EXCEPT !.alive = FALSE] \in DataPlaneResource
      BY <1>a DEF TypeOK, DataPlaneResource
    <3> QED
      BY <1>1, <3>1, <3>2 DEF EditDataPlane
  <2>2. dp' \in DataPlaneResource /\ pending' \subseteq Kinds \cup {"dp"}
    BY <1>a, <2>1, WriteDPType
  <2>3. w' \in Worker /\ HeldInOrder'
    <3> DEFINE stale == w.pc # "idle"
    <3>1. stale \in BOOLEAN
      OBVIOUS
    <3>2. w' = [w EXCEPT !.stale = stale]
      BY <1>1 DEF EditDataPlane
    <3> HIDE DEF stale
    <3>3. w' \in Worker /\ w'.pc = w.pc /\ w'.held = w.held
      BY <1>a, <3>1, <3>2 DEF TypeOK, Worker
    <3> QED
      BY <3>3 DEF HeldInOrder, TypeInv
  <2>4. Edit /\ UNCHANGED <<owned, config>>
    BY <1>1 DEF EditDataPlane
  <2> QED
    BY <1>a, <2>2, <2>3, <2>4 DEF Edit, TypeInv, TypeOK
<1>2. CASE EditConfig
  BY <1>2, <1>a, <1>0, ConstantsAssumption DEF EditConfig, Edit, TypeInv, TypeOK
<1>3. CASE LoseOwned
  <2>1. PICK k \in Kinds : \E o \in owned[k] : Write(k, owned[k] \ {o})
    BY <1>3 DEF LoseOwned
  <2>2. PICK o \in owned[k] : Write(k, owned[k] \ {o})
    BY <2>1
  <2>3. owned[k] \ {o} \in SUBSET Object(k)
    BY <1>a DEF TypeOK
  <2> QED
    BY <1>3, <1>b, <2>2, <2>3 DEF LoseOwned
<1>4. CASE EditOwned
  <2>1. PICK k \in Kinds : \E o \in owned[k] : \E new \in
          {[o EXCEPT !.drift = TRUE], [o EXCEPT !.ip = FALSE], [o EXCEPT !.env = "none"]} :
          Write(k, (owned[k] \ {o}) \cup {new})
    BY <1>4 DEF EditOwned
  <2>2. PICK o \in owned[k] : \E new \in
          {[o EXCEPT !.drift = TRUE], [o EXCEPT !.ip = FALSE], [o EXCEPT !.env = "none"]} :
          Write(k, (owned[k] \ {o}) \cup {new})
    BY <2>1
  <2>3. PICK new \in
          {[o EXCEPT !.drift = TRUE], [o EXCEPT !.ip = FALSE], [o EXCEPT !.env = "none"]} :
          Write(k, (owned[k] \ {o}) \cup {new})
    BY <2>2
  <2>4. owned[k] \subseteq Object(k)
    BY <1>a DEF TypeOK
  <2>5. new \in Object(k)
    BY <2>3, <2>4, ChangedObjects DEF Envs
  <2> QED
    BY <1>4, <1>b, <2>3, <2>4, <2>5 DEF EditOwned
<1>5. CASE PodFails
  <2>1. PICK o \in owned["dep"] :
           Write("dep", (owned["dep"] \ {o}) \cup {[o EXCEPT !.pods = "starting"]})
    BY <1>5 DEF PodFails
  <2>2. "dep" \in Kinds /\ owned["dep"] \subseteq Object("dep")
    BY <1>a DEF TypeOK, Kinds
  <2>3. (owned["dep"] \ {o}) \cup {[o EXCEPT !.pods = "starting"]} \in SUBSET Object("dep")
    BY <2>2, ChangedObjects DEF PodStates
  <2> QED
    BY <1>5, <1>b, <2>1, <2>2, <2>3 DEF PodFails
<1> QED
  BY <1>1, <1>2, <1>3, <1>4, <1>5

\* Every step keeps the types, and the order in which the worker finds objects.
LEMMA TypeStep ==
    ASSUME TypeInv, [Next]_vars
    PROVE  TypeInv'
<1>1. CASE Next
  BY <1>1, TakeType, UpdateType, ValidationType, OwnedType, HaveType, FaultType,
     EnvironmentType, UserType, Zenon DEF Next, Reconcile
<1>2. CASE UNCHANGED vars
  BY <1>2 DEF vars, TypeInv, TypeOK, HeldInOrder
<1> QED
  BY <1>1, <1>2

\* The types, and the order of what the worker finds, are invariant.
LEMMA TypeInvariant == Spec => []TypeInv
BY InitType, TypeStep, PTL DEF Spec

\* Type correctness of the DataPlane reconciler and its environment; with it,
\* that every certificate is made for a Service, and every Deployment mounts a
\* Secret, that an earlier step of the same pass had found.
THEOREM TypeCorrect == Spec => []TypeOK
<1>1. TypeInv => TypeOK
  BY DEF TypeInv
<1> QED
  BY <1>1, TypeInvariant, PTL

-----------------------------------------------------------------------------
(* What a step does to the three copies of the DataPlane: the stored one,  *)
(* the cached one and the worker's.                                        *)

\* The stored and the cached DataPlane stay as they are.
Quiet == UNCHANGED <<dp, dpSeen>> /\ ("dp" \in pending => "dp" \in pending')

\* The cache catches up with the API server.
Sees == UNCHANGED dp /\ dpSeen' = dp /\ w' \in {w, Idle}

\* A pass of Reconcile begins with the cached DataPlane and new conditions.
Begins(pc, conds) ==
    /\ UNCHANGED <<dp, dpSeen, pending>>
    /\ w.pc = "idle"
    /\ w'.pc = pc /\ w'.dp.env = dpSeen.env /\ w'.dp.conds = conds
    /\ ~w'.stale => "dp" \notin pending

\* Reconcile goes on with the same spec.
GoesOn(pc, conds) ==
    /\ Quiet
    /\ w'.pc = pc /\ w'.dp.env = w.dp.env /\ w'.dp.conds = conds
    /\ w'.stale = w.stale

\* Reconcile writes the DataPlane, which nobody wrote since it was read, and returns.
Stores(env, conds) ==
    /\ UNCHANGED dpSeen /\ "dp" \in pending'
    /\ w.pc # "idle" /\ ~w.stale
    /\ w' = Idle
    /\ dp'.env = env /\ dp'.conds = conds

\* Somebody else writes the DataPlane.
Edited(env) ==
    /\ UNCHANGED dpSeen /\ "dp" \in pending'
    /\ dp'.env = env /\ dp'.conds = dp.conds
    /\ w'.pc = w.pc /\ w'.dp = w.dp
    /\ w.pc # "idle" => w'.stale

\* The moves of Reconcile with the DataPlane, and of those who write it.
Moves ==
    \/ Quiet /\ w' \in {w, Idle}
    \/ Sees
    \/ Begins("status", ensureIsMarkedScheduled(InitReady(dpSeen.conds)))
    \/ Begins("svc", InitReady(dpSeen.conds))
    \/ w.pc = "svc" /\ GoesOn("report", w.dp.conds)
    \/ w.pc = "svc" /\ GoesOn("update", w.dp.conds)
    \/ w.pc = "svc" /\ w.dp.env # "none" /\ GoesOn("validate", w.dp.conds)
    \/ /\ w.pc = "validate"
       /\ \E m \in {Validate(w.dp.env), "no answer"} :
             GoesOn("report", SetCondition(w.dp.conds, Provisioned, ValidationFailed(m)))
    \/ w.pc = "validate" /\ Validate(w.dp.env) = Valid /\ GoesOn("sec", w.dp.conds)
    \/ w.pc = "sec" /\ GoesOn("dep", w.dp.conds)
    \/ w.pc = "dep" /\ GoesOn("status", ensureIsMarkedProvisioned(w.dp.conds))
    \/ w.pc \in {"status", "report"} /\ Stores(dp.env, w.dp.conds)
    \/ w.pc = "update" /\ Stores("defaults", dp.conds)
    \/ Edited(dp.env)
    \/ \E e \in UserEnvs : handleValidation("UPDATE", e) /\ Edited(e)

\* Returning is a quiet move; Goto goes on.
LEMMA WorkerMoves ==
    ASSUME TypeOK, UNCHANGED <<dp, dpSeen>>, "dp" \in pending => "dp" \in pending'
    PROVE  /\ \A b \in BOOLEAN : Return(b) => Quiet /\ w' \in {w, Idle}
           /\ \A pc \in Steps, c \in DataPlaneResource :
                 Goto(pc, c) /\ c.env = w.dp.env => GoesOn(pc, c.conds)
<1>1. ASSUME NEW b \in BOOLEAN, Return(b)
      PROVE  Quiet /\ w' \in {w, Idle}
  BY <1>1 DEF Return, Quiet
<1>2. ASSUME NEW pc \in Steps, NEW c \in DataPlaneResource, Goto(pc, c), c.env = w.dp.env
      PROVE  GoesOn(pc, c.conds)
  BY <1>2 DEF Goto, GoesOn, Quiet, TypeOK, Worker
<1> QED
  BY <1>1, <1>2

\* The first steps of a pass.
LEMMA TakeMoves ==
    ASSUME TypeOK, GetNotFound \/ MarkScheduled \/ StartProvisioning
    PROVE  Moves
<1> USE DEF Take, objectVars, cacheVars
<1>a. dpSeen \in DataPlaneResource
  BY DEF TypeOK
<1>b. ASSUME NEW pc, NEW conds, Take, Hold(pc, [dpSeen EXCEPT !.conds = conds])
      PROVE  Begins(pc, conds)
  <2> DEFINE late == "dp" \in pending
             copy == [dpSeen EXCEPT !.conds = conds]
  <2>1. w' = [Idle EXCEPT !.pc = pc, !.dp = copy, !.stale = late]
    BY <1>b DEF Hold
  <2>2. copy.env = dpSeen.env /\ copy.conds = conds
    BY <1>a DEF DataPlaneResource
  <2>3. ~late => "dp" \notin pending
    OBVIOUS
  <2> HIDE DEF late, copy
  <2>4. w'.pc = pc /\ w'.dp = copy /\ w'.stale = late
    BY <2>1 DEF Idle
  <2> QED
    BY <1>b, <2>2, <2>3, <2>4 DEF Begins
<1>1. CASE GetNotFound
  BY <1>1 DEF GetNotFound, Moves, Quiet
<1>2. CASE MarkScheduled
  BY <1>2, <1>b DEF MarkScheduled, Moves
<1>3. CASE StartProvisioning
  BY <1>3, <1>b DEF StartProvisioning, Moves
<1> QED
  BY <1>1, <1>2, <1>3

\* The writes of the DataPlane by Reconcile.
LEMMA UpdateMoves ==
    ASSUME TypeOK, updateStatus \/ ReportStatus \/ SetDataPlaneDefaults
    PROVE  Moves
<1> USE DEF cacheVars
<1>a. dp \in DataPlaneResource /\ UNCHANGED dpSeen
  BY DEF TypeOK, updateStatus, ReportStatus, SetDataPlaneDefaults
<1>b. ASSUME NEW b \in BOOLEAN, Return(b), UNCHANGED <<dp, pending>>
      PROVE  Moves
  BY <1>a, <1>b, WorkerMoves DEF Moves
<1>1. ASSUME w.pc \in {"status", "report"}, WriteStatusAndReturn
      PROVE  Moves
  <2>1. CASE Refused
    BY <1>1, <1>b, <2>1 DEF WriteStatusAndReturn
  <2>2. CASE ~Refused
    <3>1. /\ dp' = [dp EXCEPT !.conds = w.dp.conds, !.service = w.dp.service]
          /\ "dp" \in pending' /\ w' = Idle /\ ~w.stale
      BY <1>1, <2>2 DEF WriteStatusAndReturn, WriteDP, Return, Refused
    <3>2. dp'.env = dp.env /\ dp'.conds = w.dp.conds
      BY <1>a, <3>1 DEF DataPlaneResource
    <3> QED
      BY <1>1, <1>a, <3>1, <3>2 DEF Moves, Stores
  <2> QED
    BY <2>1, <2>2
<1>2. CASE updateStatus
  <2>1. w.pc = "status" /\ (WriteStatusAndReturn \/ (Return(FALSE) /\ UNCHANGED <<dp, pending>>))
    BY <1>2, Zenon DEF updateStatus
  <2> QED
    BY <1>1, <1>b, <2>1
<1>3. CASE ReportStatus
  BY <1>1, <1>3 DEF ReportStatus
<1>4. CASE SetDataPlaneDefaults
  <2>1. CASE Refused
    BY <1>4, <1>b, <2>1 DEF SetDataPlaneDefaults
  <2>2. CASE ~Refused
    <3>1. /\ dp' = [dp EXCEPT !.env = "defaults"] /\ w.pc = "update"
          /\ "dp" \in pending' /\ w' = Idle /\ ~w.stale
      BY <1>4, <2>2 DEF SetDataPlaneDefaults, WriteDP, Return, Refused
    <3>2. dp'.env = "defaults" /\ dp'.conds = dp.conds
      BY <1>a, <3>1 DEF DataPlaneResource
    <3> QED
      BY <1>a, <3>1, <3>2 DEF Moves, Stores
  <2> QED
    BY <2>1, <2>2
<1> QED
  BY <1>2, <1>3, <1>4

\* Validation, and a reference that cannot be read.
LEMMA ValidationMoves ==
    ASSUME TypeOK, ValidationFails \/ ValidationSucceeds \/ ReferenceUnreadable
    PROVE  Moves
<1> USE DEF objectVars, cacheVars
<1>a. w.dp \in DataPlaneResource /\ w.dp.conds \in Conds
  BY DEF TypeOK, Worker, DataPlaneResource
<1>b. w.pc = "validate" /\ UNCHANGED <<dp, dpSeen, pending>>
  BY DEF ValidationFails, ValidationSucceeds, ReferenceUnreadable
<1>c. ASSUME NEW m \in Messages, m \in {Validate(w.dp.env), "no answer"},
             ensureDataPlaneIsMarkedNotProvisioned(m)
      PROVE  Moves
  <2> DEFINE conds == SetCondition(w.dp.conds, Provisioned, ValidationFailed(m))
             copy == [w.dp EXCEPT !.conds = conds]
  <2>1. Return(FALSE) \/ Goto("report", copy)
    BY <1>c, Zenon DEF ensureDataPlaneIsMarkedNotProvisioned
  <2>2. conds \in Conds
    BY <1>a, StatusTypes
  <2>3. copy \in DataPlaneResource /\ copy.env = w.dp.env /\ copy.conds = conds
    <3> HIDE DEF conds
    <3> QED
      BY <1>a, <2>2 DEF DataPlaneResource
  <2> HIDE DEF copy
  <2>4. Goto("report", copy) => GoesOn("report", conds)
    BY <1>b, <2>3, WorkerMoves DEF Steps
  <2> QED
    BY <1>b, <1>c, <2>1, <2>4, WorkerMoves DEF Moves
<1>1. CASE ValidationFails
  BY <1>1, <1>c, ValidateType DEF ValidationFails
<1>2. CASE ValidationSucceeds
  <2>1. GoesOn("sec", w.dp.conds) /\ Validate(w.dp.env) = Valid
    BY <1>2, <1>a, <1>b, WorkerMoves DEF ValidationSucceeds, Steps, Kinds
  <2> QED
    BY <1>b, <2>1 DEF Moves
<1>3. CASE ReferenceUnreadable
  BY <1>3, <1>c DEF ReferenceUnreadable, Messages
<1> QED
  BY <1>1, <1>2, <1>3

\* The work on the owned objects.
LEMMA OwnedMoves ==
    ASSUME TypeInv, NEW k \in Kinds, FoundSeveral(k) \/ CreateOwned(k) \/ UpdateOwned(k)
    PROVE  Moves
<1> USE DEF objectVars, cacheVars
<1>0. TypeOK
  BY DEF TypeInv
<1>a. w.pc = k /\ UNCHANGED <<dp, dpSeen>>
  BY DEF FoundSeveral, CreateOwned, UpdateOwned
<1>b. "dp" \in pending => "dp" \in pending'
  BY DEF FoundSeveral, CreateOwned, UpdateOwned, Write
<1>c. ASSUME NEW n \in Names, Changed(k, n)
      PROVE  Moves
  <2> DEFINE copy == [w.dp EXCEPT !.service = n]
  <2>1. copy \in DataPlaneResource /\ copy.env = w.dp.env /\ copy.conds = w.dp.conds
    BY <1>0 DEF TypeOK, Worker, DataPlaneResource
  <2>2. (k = "svc" /\ Goto("report", copy)) \/ Return(FALSE)
    BY <1>c DEF Changed
  <2> HIDE DEF copy
  <2>3. Goto("report", copy) => GoesOn("report", w.dp.conds)
    BY <1>0, <1>a, <1>b, <2>1, WorkerMoves DEF Steps
  <2> QED
    BY <1>0, <1>a, <1>b, <2>2, <2>3, WorkerMoves DEF Moves
<1>1. CASE FoundSeveral(k)
  BY <1>0, <1>1, <1>a, <1>b, WorkerMoves DEF FoundSeveral, Moves
<1>2. CASE CreateOwned(k)
  BY <1>2, <1>c, GeneratedType DEF CreateOwned
<1>3. CASE UpdateOwned(k)
  <2>1. PICK o \in List(k) : Changed(k, o.name) \/ Return(TRUE)
    BY <1>3 DEF UpdateOwned
  <2>2. o.name \in Names
    BY <1>0, ListType, ChangedObjects
  <2> QED
    BY <1>0, <1>a, <1>b, <1>c, <2>1, <2>2, WorkerMoves DEF Moves
<1> QED
  BY <1>1, <1>2, <1>3

\* Going on with an object that is there.
LEMMA HaveMoves ==
    ASSUME TypeOK, CANotFound \/ HaveService \/ HaveCertificate \/ HaveDeployment
    PROVE  Moves
<1> USE DEF objectVars, cacheVars
<1>a. w \in Worker /\ w.dp \in DataPlaneResource /\ w.dp.conds \in Conds
  BY DEF TypeOK, Worker, DataPlaneResource
<1>b. UNCHANGED <<dp, dpSeen, pending>>
  BY DEF CANotFound, HaveService, HaveCertificate, HaveDeployment, Have
<1>1. CASE CANotFound
  BY <1>1, <1>b, WorkerMoves DEF CANotFound, Moves
<1>2. CASE HaveService
  <2>1. PICK o \in List("svc") :
          /\ Have("svc", o)
          /\ \/ Return(FALSE)
             \/ w' = [w EXCEPT !.pc = IF w.dp.env = "none" THEN "update" ELSE "validate",
                               !.held["svc"] = o.name]
    BY <1>2 DEF HaveService
  <2>2. ASSUME NEW pc \in {"update", "validate"}, w' = [w EXCEPT !.pc = pc, !.held["svc"] = o.name]
        PROVE  GoesOn(pc, w.dp.conds)
    BY <1>a, <1>b, <2>2 DEF GoesOn, Quiet, Worker
  <2>3. w.pc = "svc"
    BY <2>1 DEF Have
  <2>4. CASE w.dp.env = "none" /\ ~Return(FALSE)
    BY <2>1, <2>2, <2>3, <2>4 DEF Moves
  <2>5. CASE w.dp.env # "none" /\ ~Return(FALSE)
    BY <2>1, <2>2, <2>3, <2>5 DEF Moves
  <2> QED
    BY <1>b, <2>4, <2>5, WorkerMoves DEF Moves
<1>3. CASE HaveCertificate
  <2>1. PICK o \in List("sec") :
          Have("sec", o) /\ w' = [w EXCEPT !.pc = "dep", !.held["sec"] = o.name]
    BY <1>3 DEF HaveCertificate
  <2>2. GoesOn("dep", w.dp.conds) /\ w.pc = "sec"
    BY <1>a, <1>b, <2>1 DEF GoesOn, Quiet, Worker, Have
  <2> QED
    BY <2>2 DEF Moves
<1>4. CASE HaveDeployment
  <2> DEFINE conds == ensureIsMarkedProvisioned(w.dp.conds)
             copy == [w.dp EXCEPT !.conds = conds]
  <2>1. PICK o \in List("dep") : Have("dep", o) /\ (Return(FALSE) \/ Goto("status", copy))
    BY <1>4 DEF HaveDeployment
  <2>2. conds \in Conds
    BY <1>a, StatusTypes
  <2>3. copy \in DataPlaneResource /\ copy.env = w.dp.env /\ copy.conds = conds
    <3> HIDE DEF conds
    <3> QED
      BY <1>a, <2>2 DEF DataPlaneResource
  <2> HIDE DEF copy
  <2>4. Goto("status", copy) => GoesOn("status", conds)
    BY <1>b, <2>3, WorkerMoves DEF Steps
  <2>5. w.pc = "dep"
    BY <2>1 DEF Have
  <2> QED
    BY <1>b, <2>1, <2>4, <2>5, WorkerMoves DEF Moves
<1> QED
  BY <1>1, <1>2, <1>3, <1>4

\* Everything outside Reconcile, apart from edits of the DataPlane.
LEMMA OtherMoves ==
    ASSUME TypeOK,
           \/ APIError \/ Restart \/ DeliverDataPlane \/ (\E k \in Kinds : DeliverOwned(k))
           \/ Resync \/ CreateCA \/ DeploymentController \/ GarbageCollect
           \/ EditConfig \/ LoseOwned \/ EditOwned \/ PodFails
    PROVE  Moves
<1> USE DEF objectVars, cacheVars
<1>1. CASE APIError
  BY <1>1, WorkerMoves DEF APIError, Moves
<1>2. CASE Restart \/ DeliverDataPlane
  BY <1>2 DEF Restart, DeliverDataPlane, Moves, Sees
<1>3. CASE \/ Resync \/ CreateCA \/ EditConfig
           \/ (\E k \in Kinds : DeliverOwned(k))
  BY <1>3 DEF Resync, CreateCA, EditConfig, Edit, DeliverOwned, Kinds, Moves, Quiet
<1>4. CASE DeploymentController \/ GarbageCollect \/ LoseOwned \/ EditOwned \/ PodFails
  <2>1. UNCHANGED <<dp, dpSeen, w>>
    BY <1>4 DEF DeploymentController, GarbageCollect, LoseOwned, EditOwned, PodFails, Edit
  <2>2. \E k \in Kinds : \E S : Write(k, S)
    BY <1>4, Zenon DEF DeploymentController, GarbageCollect, LoseOwned, EditOwned, PodFails,
       Kinds
  <2> QED
    BY <2>1, <2>2 DEF Write, Moves, Quiet
<1> QED
  BY <1>1, <1>2, <1>3, <1>4

\* A user's edit of the DataPlane, or its deletion.
LEMMA EditMoves ==
    ASSUME TypeOK, EditDataPlane
    PROVE  Moves
<1>a. dp \in DataPlaneResource /\ w \in Worker
  BY DEF TypeOK
<1>b. w'.pc = w.pc /\ w'.dp = w.dp /\ (w.pc # "idle" => w'.stale)
  <2> DEFINE stale == w.pc # "idle"
  <2>1. w' = [w EXCEPT !.stale = stale]
    BY DEF EditDataPlane
  <2>2. w'.pc = w.pc /\ w'.dp = w.dp /\ w'.stale = stale
    <3> HIDE DEF stale
    <3> QED
      BY <1>a, <2>1 DEF Worker
  <2> QED
    BY <2>2
<1>c. UNCHANGED dpSeen /\ "dp" \in pending'
  BY DEF EditDataPlane, WriteDP, Edit, cacheVars
<1>1. \/ \E e \in UserEnvs : handleValidation("UPDATE", e) /\ dp' = [dp EXCEPT !.env = e]
      \/ dp' = [dp EXCEPT !.alive = FALSE]
  BY DEF EditDataPlane, WriteDP
<1>2. ASSUME NEW e \in UserEnvs, dp' = [dp EXCEPT !.env = e]
      PROVE  Edited(e)
  BY <1>a, <1>b, <1>c, <1>2 DEF Edited, DataPlaneResource
<1>3. ASSUME dp' = [dp EXCEPT !.alive = FALSE]
      PROVE  Edited(dp.env)
  BY <1>a, <1>b, <1>c, <1>3 DEF Edited, DataPlaneResource
<1> QED
  BY <1>1, <1>2, <1>3 DEF Moves

\* Every step is one of the moves.
LEMMA StepMoves ==
    ASSUME TypeInv, Next
    PROVE  Moves
BY TakeMoves, UpdateMoves, ValidationMoves, OwnedMoves, HaveMoves, OtherMoves, EditMoves,
   Zenon DEF TypeInv, Next, Reconcile

-----------------------------------------------------------------------------
(* The Ready condition *)

\* A slice of conditions in which Ready is True only if all the others are.
Truthful(conds) == IsReady(conds) => areAllConditionsReady(conds)

\* All three copies are truthful, and a pass withdraws Ready in its own copy
\* until it has seen the pods ready: the copy that a failed validation or a new
\* Service is reported with is never Ready.
ReadyInv ==
    /\ Truthful(dp.conds) /\ Truthful(dpSeen.conds) /\ Truthful(w.dp.conds)
    /\ w.pc \notin {"idle", "status"} => ~IsReady(w.dp.conds)

\* What the status helpers do to the Ready condition.
LEMMA ReadyHelpers ==
    ASSUME NEW conds
    PROVE  /\ ~IsReady(InitReady(conds))
           /\ ~IsReady(ensureIsMarkedScheduled(InitReady(conds)))
           /\ Truthful(ensureIsMarkedProvisioned(conds))
           /\ ~IsReady(conds) => \A c : ~IsReady(SetCondition(conds, Provisioned, c))
           /\ ~IsReady(conds) => Truthful(conds)
<1> USE DEF IsReady, IsValidCondition, HasCondition, SetCondition, ReadyType, Provisioned
<1>1. ~IsReady(InitReady(conds))
  BY DEF InitReady, NotReady, NewCondition
<1>2. ASSUME NEW c, NEW cs, ~IsReady(cs)
      PROVE  ~IsReady(SetCondition(cs, Provisioned, c))
  BY <1>2
<1>3. ~IsReady(ensureIsMarkedScheduled(InitReady(conds)))
  BY <1>1, <1>2 DEF ensureIsMarkedScheduled
<1>4. ASSUME NEW cs
      PROVE  Truthful(SetReady(cs))
  BY DEF Truthful, SetReady, areAllConditionsReady, NotReady, NewCondition
<1> QED
  BY <1>1, <1>2, <1>3, <1>4 DEF ensureIsMarkedProvisioned, Truthful

\* The idle worker holds no conditions.
LEMMA IdleFacts ==
    /\ Idle.pc = "idle" /\ Idle.dp = NoDataPlane
    /\ NoDataPlane.env = "none" /\ NoDataPlane.conds = NoConditions
    /\ DOMAIN NoConditions = {} /\ ~IsReady(NoConditions)
BY DEF Idle, NoDataPlane, NoConditions, IsReady, IsValidCondition, HasCondition

\* Every step keeps ReadyInv.
LEMMA ReadyStep ==
    ASSUME TypeInv, ReadyInv, Next
    PROVE  ReadyInv'
<1>a. w' = Idle => Truthful(w'.dp.conds) /\ w'.pc = "idle"
  BY IdleFacts, ReadyHelpers
<1>1. CASE Quiet /\ w' \in {w, Idle}
  BY <1>1, <1>a DEF Quiet, ReadyInv
<1>2. CASE Sees
  BY <1>2, <1>a DEF Sees, ReadyInv
<1>3. ASSUME NEW pc, NEW conds, ~IsReady(conds), Begins(pc, conds)
      PROVE  ReadyInv'
  BY <1>3, ReadyHelpers DEF Begins, ReadyInv
<1>4. ASSUME NEW pc, w.pc \notin {"idle", "status"}, GoesOn(pc, w.dp.conds)
      PROVE  ReadyInv'
  BY <1>4 DEF GoesOn, Quiet, ReadyInv
<1>5. ASSUME NEW c, w.pc = "validate",
             GoesOn("report", SetCondition(w.dp.conds, Provisioned, c))
      PROVE  ReadyInv'
  <2>1. ~IsReady(SetCondition(w.dp.conds, Provisioned, c))
    BY <1>5, ReadyHelpers DEF ReadyInv
  <2> QED
    BY <1>5, <2>1, ReadyHelpers DEF GoesOn, Quiet, ReadyInv
<1>6. CASE w.pc = "dep" /\ GoesOn("status", ensureIsMarkedProvisioned(w.dp.conds))
  BY <1>6, ReadyHelpers DEF GoesOn, Quiet, ReadyInv
<1>7. CASE w.pc \in {"status", "report"} /\ Stores(dp.env, w.dp.conds)
  BY <1>7, <1>a DEF Stores, ReadyInv
<1>8. CASE w.pc = "update" /\ Stores("defaults", dp.conds)
  BY <1>8, <1>a DEF Stores, ReadyInv
<1>9. ASSUME NEW e, Edited(e)
      PROVE  ReadyInv'
  BY <1>9 DEF Edited, ReadyInv
<1>10. Moves
  BY StepMoves
<1> QED
  BY <1>1, <1>2, <1>3, <1>4, <1>5, <1>6, <1>7, <1>8, <1>9, <1>10, ReadyHelpers DEF Moves

\* ReadyInv holds of every reachable state.
LEMMA ReadyInvariant == Spec => []ReadyInv
<1>1. Init => ReadyInv
  <2> SUFFICES ASSUME Init PROVE ReadyInv
    OBVIOUS
  <2>1. dp.conds = NoConditions /\ dpSeen = NoDataPlane /\ w = Idle
    BY DEF Init, NoDataPlane
  <2> QED
    BY <2>1, IdleFacts, ReadyHelpers DEF ReadyInv
<1>2. TypeInv /\ ReadyInv /\ [Next]_vars => ReadyInv'
  <2>1. ASSUME ReadyInv, UNCHANGED vars
        PROVE  ReadyInv'
    BY <2>1 DEF ReadyInv, vars
  <2> QED
    BY <2>1, ReadyStep
<1> QED
  BY <1>1, <1>2, TypeInvariant, PTL DEF Spec

\* A DataPlane is never stored as Ready beside a condition that is not True,
\* whatever the order of users' edits, late events, refused updates and crashes.
THEOREM ReadyTruthful == Spec => []ReadyMeansAllReady
<1>1. ReadyInv => ReadyMeansAllReady
  BY DEF ReadyInv, Truthful, ReadyMeansAllReady
<1> QED
  BY <1>1, ReadyInvariant, PTL

-----------------------------------------------------------------------------
(* Ready is for the stored spec *)

Unfit == {"none", "postgres"}

\* Without an event on its way the cache is current, a copy that is not stale has
\* the stored spec, and what lies behind the validation has passed it.
SpecInv ==
    /\ "dp" \notin pending => dpSeen = dp
    /\ w.pc # "idle" /\ ~w.stale => w.dp.env = dp.env
    /\ w.pc = "validate" => w.dp.env # "none"
    /\ w.pc \in {"sec", "dep"} => w.dp.env \notin Unfit
    /\ w.pc = "status" /\ IsReady(w.dp.conds) => w.dp.env \notin Unfit

\* Every step keeps SpecInv.
LEMMA SpecStep ==
    ASSUME TypeInv, SpecInv, Next
    PROVE  SpecInv'
<1> USE IdleFacts
<1>1. CASE Quiet /\ w' \in {w, Idle}
  BY <1>1 DEF Quiet, SpecInv
<1>2. CASE Sees
  BY <1>2 DEF Sees, SpecInv
<1>3. ASSUME NEW pc \in {"status", "svc"}, NEW conds, ~IsReady(conds), Begins(pc, conds)
      PROVE  SpecInv'
  BY <1>3 DEF Begins, SpecInv
<1>4. ASSUME NEW pc \in {"report", "update"}, NEW conds, w.pc \in {"svc", "validate"},
             GoesOn(pc, conds)
      PROVE  SpecInv'
  BY <1>4 DEF GoesOn, Quiet, SpecInv
<1>5. CASE w.pc = "svc" /\ w.dp.env # "none" /\ GoesOn("validate", w.dp.conds)
  BY <1>5 DEF GoesOn, Quiet, SpecInv
<1>6. CASE w.pc = "validate" /\ Validate(w.dp.env) = Valid /\ GoesOn("sec", w.dp.conds)
  <2>1. w.dp.env \notin Unfit
    BY <1>6 DEF SpecInv, Unfit, Validate, Valid
  <2> QED
    BY <1>6, <2>1 DEF GoesOn, Quiet, SpecInv
<1>7. CASE w.pc = "sec" /\ GoesOn("dep", w.dp.conds)
  BY <1>7 DEF GoesOn, Quiet, SpecInv
<1>8. CASE w.pc = "dep" /\ GoesOn("status", ensureIsMarkedProvisioned(w.dp.conds))
  BY <1>8 DEF GoesOn, Quiet, SpecInv
<1>9. ASSUME NEW e, NEW conds, Stores(e, conds)
      PROVE  SpecInv'
  BY <1>9 DEF Stores, SpecInv
<1>10. ASSUME NEW e, Edited(e)
       PROVE  SpecInv'
  BY <1>10 DEF Edited, SpecInv
<1>11. /\ Begins("status", ensureIsMarkedScheduled(InitReady(dpSeen.conds))) => SpecInv'
       /\ Begins("svc", InitReady(dpSeen.conds)) => SpecInv'
  BY <1>3, ReadyHelpers
<1>12. /\ w.pc = "svc" /\ GoesOn("report", w.dp.conds) => SpecInv'
       /\ w.pc = "svc" /\ GoesOn("update", w.dp.conds) => SpecInv'
       /\ w.pc = "validate" => \A conds : GoesOn("report", conds) => SpecInv'
  BY <1>4
<1>13. Moves
  BY StepMoves
<1> QED
  BY <1>1, <1>2, <1>5, <1>6, <1>7, <1>8, <1>9, <1>10, <1>11, <1>12, <1>13, Zenon DEF Moves

\* SpecInv holds of every reachable state.
LEMMA SpecInvariant == Spec => []SpecInv
<1>1. Init => SpecInv
  BY IdleFacts DEF Init, SpecInv
<1>2. TypeInv /\ SpecInv /\ [Next]_vars => SpecInv'
  <2>1. ASSUME SpecInv, UNCHANGED vars
        PROVE  SpecInv'
    BY <2>1 DEF SpecInv, vars
  <2> QED
    BY <2>1, SpecStep
<1> QED
  BY <1>1, <1>2, TypeInvariant, PTL DEF Spec

\* The status update that makes a DataPlane Ready is refused unless the spec it
\* was computed from is still the stored one; and that spec has been validated.
THEOREM ReadyForStored == Spec => ReadyForStoredSpec
<1>1. TypeInv /\ ReadyInv /\ SpecInv /\ [Next]_vars =>
         [~IsReady(dp.conds) /\ IsReady(dp'.conds) => dp.env \notin {"none", "postgres"}]_vars
  <2> SUFFICES ASSUME TypeInv, ReadyInv, SpecInv, Next, ~IsReady(dp.conds), IsReady(dp'.conds)
               PROVE  dp.env \notin Unfit
    BY DEF Unfit
  <2>1. dp'.conds # dp.conds
    OBVIOUS
  <2>2. w.pc \in {"status", "report"} /\ Stores(dp.env, w.dp.conds)
    BY <2>1, StepMoves DEF Moves, Quiet, Sees, Begins, GoesOn, Stores, Edited
  <2>3. w.dp.env = dp.env /\ IsReady(w.dp.conds)
    BY <2>2 DEF Stores, SpecInv
  <2>4. w.pc = "status"
    BY <2>2, <2>3 DEF ReadyInv
  <2> QED
    BY <2>3, <2>4 DEF SpecInv
<1> QED
  BY <1>1, TypeInvariant, ReadyInvariant, SpecInvariant, PTL DEF Spec, ReadyForStoredSpec

-----------------------------------------------------------------------------
(* The admission webhook *)

\* Conditions that do not report a database.
Clean(conds) ==
    \A t \in DOMAIN conds : conds[t] # ValidationFailed("unsupported database")

\* Where the webhook runs and no reference can name a database, none of the
\* copies has one in its spec or reports one.
AdmittedInv ==
    hook /\ "postgres" \notin UserConfigs =>
        /\ config \in UserConfigs
        /\ dp.env # "postgres" /\ Clean(dp.conds)
        /\ dpSeen.env # "postgres" /\ Clean(dpSeen.conds)
        /\ w.dp.env # "postgres" /\ Clean(w.dp.conds)

\* The status helpers report no database of their own accord.
LEMMA CleanHelpers ==
    ASSUME NEW conds, Clean(conds)
    PROVE  /\ Clean(InitReady(conds))
           /\ Clean(ensureIsMarkedScheduled(InitReady(conds)))
           /\ Clean(ensureIsMarkedProvisioned(conds))
           /\ \A m : m # "unsupported database"
                 => Clean(SetCondition(conds, Provisioned, ValidationFailed(m)))
<1> USE DEF ValidationFailed, NewCondition
<1>1. ASSUME NEW cs, Clean(cs), NEW t, NEW c, c # ValidationFailed("unsupported database")
      PROVE  Clean(SetCondition(cs, t, c))
  BY <1>1 DEF Clean, SetCondition
<1>2. /\ NotReady # ValidationFailed("unsupported database")
      /\ ResourceReady # ValidationFailed("unsupported database")
      /\ Scheduled # ValidationFailed("unsupported database")
      /\ PodsReady # ValidationFailed("unsupported database")
      /\ \A m : m # "unsupported database" =>
            ValidationFailed(m) # ValidationFailed("unsupported database")
  BY DEF NotReady, ResourceReady, Scheduled, PodsReady
<1>3. Clean(InitReady(conds))
  BY <1>1, <1>2 DEF InitReady
<1>4. Clean(ensureIsMarkedScheduled(InitReady(conds)))
  BY <1>1, <1>2, <1>3 DEF ensureIsMarkedScheduled
<1>5. Clean(ensureIsMarkedProvisioned(conds))
  BY <1>1, <1>2 DEF ensureIsMarkedProvisioned, SetReady
<1> QED
  BY <1>1, <1>2, <1>3, <1>4, <1>5

\* The webhook stays as it is, and only users write the ConfigMap or Secret.
LEMMA ConfigStep ==
    ASSUME Next
    PROVE  hook' = hook /\ (config' = config \/ config' \in UserConfigs)
<1> USE DEF envVars
<1>1. CASE Reconcile
  BY <1>1 DEF Reconcile, GetNotFound, MarkScheduled, StartProvisioning, Take, updateStatus,
     ReportStatus, SetDataPlaneDefaults, ValidationFails, ValidationSucceeds, FoundSeveral,
     CreateOwned, UpdateOwned, CANotFound, HaveService, HaveCertificate, HaveDeployment, Have
<1>2. CASE APIError \/ ReferenceUnreadable \/ Restart
  BY <1>2 DEF APIError, ReferenceUnreadable, Restart, Fault
<1>3. CASE \/ DeliverDataPlane \/ (\E k \in Kinds : DeliverOwned(k)) \/ Resync
           \/ CreateCA \/ DeploymentController \/ GarbageCollect
  BY <1>3 DEF DeliverDataPlane, DeliverOwned, Resync, CreateCA, DeploymentController,
     GarbageCollect
<1>4. CASE EditDataPlane \/ EditConfig \/ LoseOwned \/ EditOwned \/ PodFails
  BY <1>4 DEF EditDataPlane, EditConfig, LoseOwned, EditOwned, PodFails, Edit
<1> QED
  BY <1>1, <1>2, <1>3, <1>4 DEF Next

\* Every step keeps AdmittedInv.
LEMMA AdmittedStep ==
    ASSUME TypeInv, AdmittedInv, Next
    PROVE  AdmittedInv'
<1> SUFFICES ASSUME hook', "postgres" \notin UserConfigs
             PROVE  AdmittedInv'
  BY DEF AdmittedInv
<1> DEFINE Fine(d) == d.env # "postgres" /\ Clean(d.conds)
<1>a. /\ hook /\ config \in UserConfigs /\ config' \in UserConfigs
      /\ Fine(dp) /\ Fine(dpSeen) /\ Fine(w.dp)
  BY ConfigStep DEF AdmittedInv
<1>b. Fine(Idle.dp)
  BY IdleFacts DEF Clean
<1> SUFFICES Fine(dp') /\ Fine(dpSeen') /\ Fine(w'.dp)
  BY <1>a DEF AdmittedInv
<1>1. CASE Quiet /\ w' \in {w, Idle}
  BY <1>1, <1>a, <1>b DEF Quiet
<1>2. CASE Sees
  BY <1>2, <1>a, <1>b DEF Sees
<1>3. ASSUME NEW pc, NEW conds, Clean(conds), Begins(pc, conds)
      PROVE  Fine(dp') /\ Fine(dpSeen') /\ Fine(w'.dp)
  BY <1>3, <1>a DEF Begins
<1>4. ASSUME NEW pc, NEW conds, Clean(conds), GoesOn(pc, conds)
      PROVE  Fine(dp') /\ Fine(dpSeen') /\ Fine(w'.dp)
  BY <1>4, <1>a DEF GoesOn, Quiet
<1>5. ASSUME NEW m \in {Validate(w.dp.env), "no answer"}
      PROVE  Clean(SetCondition(w.dp.conds, Provisioned, ValidationFailed(m)))
  <2>1. m # "unsupported database"
    BY <1>5, <1>a DEF Validate, Valid
  <2> QED
    BY <2>1, <1>a, CleanHelpers
<1>6. CASE Stores(dp.env, w.dp.conds) \/ Stores("defaults", dp.conds)
  BY <1>6, <1>a, <1>b DEF Stores
<1>7. CASE Edited(dp.env)
  BY <1>7, <1>a DEF Edited
<1>8. ASSUME NEW e \in UserEnvs, handleValidation("UPDATE", e), Edited(e)
      PROVE  Fine(dp') /\ Fine(dpSeen') /\ Fine(w'.dp)
  <2>1. e # "postgres"
    BY <1>8, <1>a DEF handleValidation, Validate, Valid
  <2> QED
    BY <1>8, <1>a, <2>1 DEF Edited
<1>9. Moves
  BY StepMoves
<1>10. Clean(w.dp.conds) /\ Clean(dpSeen.conds)
  BY <1>a
<1> HIDE DEF Fine
<1> QED
  BY <1>1, <1>2, <1>3, <1>4, <1>5, <1>6, <1>7, <1>8, <1>9, <1>10, CleanHelpers DEF Moves

\* With the webhook installed, and no database in what environments refer to,
\* no status ever reports an unsupported database: it was refused before it
\* could be stored, at the create and at every later update.
THEOREM WebhookSuffices == Spec => []RejectedBeforeStored
<1>1. Init => AdmittedInv
  <2> SUFFICES ASSUME Init, hook PROVE AdmittedInv
    BY DEF AdmittedInv
  <2>1. PICK e \in UserEnvs :
          handleValidation("CREATE", e) /\ dp = [NoDataPlane EXCEPT !.alive = TRUE, !.env = e]
    BY DEF Init
  <2>2. dp.env = e /\ dp.conds = NoConditions
    BY <2>1 DEF NoDataPlane
  <2>3. e # "postgres"
    BY <2>1 DEF handleValidation, Validate, Valid
  <2>4. config \in UserConfigs /\ dpSeen = NoDataPlane /\ w = Idle
    BY DEF Init
  <2> QED
    BY <2>2, <2>3, <2>4, IdleFacts DEF AdmittedInv, Clean
<1>2. TypeInv /\ AdmittedInv /\ [Next]_vars => AdmittedInv'
  <2>1. ASSUME AdmittedInv, UNCHANGED vars
        PROVE  AdmittedInv'
    BY <2>1 DEF AdmittedInv, vars
  <2> QED
    BY <2>1, AdmittedStep
<1>3. AdmittedInv => RejectedBeforeStored
  BY DEF AdmittedInv, RejectedBeforeStored, Clean
<1> QED
  BY <1>1, <1>2, <1>3, TypeInvariant, PTL DEF Spec

-----------------------------------------------------------------------------
(* The owned objects *)

\* Objects of a kind go, or one is changed in place, by a user, or to the
\* environment of the worker's copy, or in something else than its environment.
Shrinks(k) == owned'[k] \subseteq owned[k]
Changes(k) ==
    \E o \in owned[k] : \E new :
        /\ owned'[k] = (owned[k] \ {o}) \cup {new} /\ new.name = o.name
        /\ \/ EditOwned
           \/ new.env = o.env
           \/ w.pc = k /\ new.env = w.dp.env

\* An object is created while the list of its kind is empty.
Grows(k) ==
    /\ List(k) = {} /\ w.pc = k
    /\ \E new : /\ owned'[k] = owned[k] \cup {new}
                /\ k = "dep" => new.env = w.dp.env

\* Every step does one of these to every kind.
LEMMA OwnedStep ==
    ASSUME TypeInv, Next, NEW k \in Kinds
    PROVE  Shrinks(k) \/ Changes(k) \/ Grows(k)
<1> USE DEF objectVars
<1>0. TypeOK
  BY DEF TypeInv
<1>1. UNCHANGED owned => Shrinks(k)
  BY DEF Shrinks
<1>2. ASSUME NEW j \in Kinds, NEW S, S \subseteq owned[j], Write(j, S)
      PROVE  Shrinks(k)
  BY <1>0, <1>2, WriteOwned DEF Shrinks
<1>3. ASSUME NEW j \in Kinds, NEW o \in owned[j], NEW new, new.name = o.name,
             EditOwned \/ new.env = o.env \/ (w.pc = j /\ new.env = w.dp.env),
             Write(j, (owned[j] \ {o}) \cup {new})
      PROVE  Shrinks(k) \/ Changes(k)
  <2>1. CASE j = k
    <3>1. owned'[k] = (owned[k] \ {o}) \cup {new}
      BY <1>0, <1>3, <2>1, WriteOwned
    <3> QED
      BY <1>3, <2>1, <3>1 DEF Changes
  <2>2. CASE j # k
    BY <1>0, <1>3, <2>2, WriteOwned DEF Shrinks
  <2> QED
    BY <2>1, <2>2
<1>4. ASSUME NEW j \in Kinds, CreateOwned(j)
      PROVE  Shrinks(k) \/ Grows(k)
  <2>1. List(j) = {} /\ w.pc = j /\ Write(j, owned[j] \cup {New(j, Of(j))})
    BY <1>4 DEF CreateOwned
  <2>2. CASE j = k
    <3>1. owned'[k] = owned[k] \cup {New(k, Of(k))}
      BY <1>0, <2>1, <2>2, WriteOwned
    <3>2. k = "dep" => New(k, Of(k)).env = w.dp.env
      BY DEF New
    <3> QED
      BY <2>1, <2>2, <3>1, <3>2 DEF Grows
  <2>3. CASE j # k
    BY <1>0, <2>1, <2>3, WriteOwned DEF Shrinks
  <2> QED
    BY <2>2, <2>3
<1>5. ASSUME NEW j \in Kinds, UpdateOwned(j)
      PROVE  Shrinks(k) \/ Changes(k)
  <2>1. PICK o \in List(j) :
           \/ /\ o \in owned[j]
              /\ Write(j, (owned[j] \ {o}) \cup {Corrected(j, o)})
           \/ UNCHANGED owned
    BY <1>5 DEF UpdateOwned
  <2>2. /\ Corrected(j, o).name = o.name
        /\ Corrected(j, o).env = o.env \/ Corrected(j, o).env = w.dp.env
    BY <1>0, ListType, CorrectedType
  <2>3. w.pc = j
    BY <1>5 DEF UpdateOwned
  <2> QED
    BY <1>1, <1>3, <2>1, <2>2, <2>3
<1>6. CASE DeploymentController \/ PodFails
  <2>1. PICK o \in owned["dep"] : \E p :
           Write("dep", (owned["dep"] \ {o}) \cup {[o EXCEPT !.pods = p]})
    BY <1>6, Zenon DEF DeploymentController, PodFails
  <2>2. PICK p : Write("dep", (owned["dep"] \ {o}) \cup {[o EXCEPT !.pods = p]})
    BY <2>1
  <2>3. o \in Object("dep")
    BY <1>0 DEF TypeOK, Kinds
  <2>4. [o EXCEPT !.pods = p].name = o.name /\ [o EXCEPT !.pods = p].env = o.env
    BY <2>3 DEF Object
  <2> QED
    BY <2>2, <2>4, <1>3 DEF Kinds
<1>7. CASE GarbageCollect
  BY <1>7, <1>2 DEF GarbageCollect
<1>8. CASE LoseOwned
  <2>1. PICK j \in Kinds : \E o \in owned[j] : Write(j, owned[j] \ {o})
    BY <1>8 DEF LoseOwned
  <2> QED
    BY <2>1, <1>2
<1>9. CASE EditOwned
  <2>1. PICK j \in Kinds : \E o \in owned[j] : \E new \in
          {[o EXCEPT !.drift = TRUE], [o EXCEPT !.ip = FALSE], [o EXCEPT !.env = "none"]} :
          Write(j, (owned[j] \ {o}) \cup {new})
    BY <1>9, Zenon DEF EditOwned
  <2>2. PICK o \in owned[j] : \E new \in
          {[o EXCEPT !.drift = TRUE], [o EXCEPT !.ip = FALSE], [o EXCEPT !.env = "none"]} :
          Write(j, (owned[j] \ {o}) \cup {new})
    BY <2>1
  <2>3. PICK new \in
          {[o EXCEPT !.drift = TRUE], [o EXCEPT !.ip = FALSE], [o EXCEPT !.env = "none"]} :
          Write(j, (owned[j] \ {o}) \cup {new})
    BY <2>2
  <2>4. new.name = o.name
    <3>1. o \in Object(j)
      BY <1>0 DEF TypeOK
    <3> QED
      BY <2>3, <3>1 DEF Object
  <2> QED
    BY <1>9, <2>3, <2>4, <1>3
<1>10. \/ UNCHANGED owned
       \/ \E j \in Kinds : CreateOwned(j) \/ UpdateOwned(j)
       \/ DeploymentController \/ GarbageCollect \/ LoseOwned \/ EditOwned \/ PodFails
  BY DEF Next, Reconcile, Take, GetNotFound, MarkScheduled, StartProvisioning, updateStatus,
         ReportStatus, SetDataPlaneDefaults, ValidationFails, ValidationSucceeds,
         FoundSeveral, CANotFound, HaveService, HaveCertificate, HaveDeployment, Have,
         APIError, ReferenceUnreadable, Restart, DeliverDataPlane, DeliverOwned, Resync,
         CreateCA, EditDataPlane, EditConfig
<1> QED
  BY <1>1, <1>4, <1>5, <1>6, <1>7, <1>8, <1>9, <1>10

\* The reconciler never owns two objects of a kind that the manager's client
\* lists from the API server, so it cannot stop itself for good there.
THEOREM NoDuplicateLive == Spec => []AtMostOneLive
<1>1. Init => AtMostOneLive
  BY DEF Init, AtMostOneLive, MoreThanOne
<1>2. TypeInv /\ AtMostOneLive /\ [Next]_vars => AtMostOneLive'
  <2> SUFFICES ASSUME TypeInv, AtMostOneLive, [Next]_vars,
                      NEW k \in Kinds \ CachedKinds
               PROVE  ~MoreThanOne(owned'[k])
    BY DEF AtMostOneLive
  <2>a. ~MoreThanOne(owned[k]) /\ List(k) = owned[k]
    BY DEF AtMostOneLive, List
  <2>1. CASE UNCHANGED vars
    BY <2>1, <2>a DEF vars
  <2>2. CASE Next
    <3>1. CASE Shrinks(k)
      BY <2>a, <3>1 DEF Shrinks, MoreThanOne
    <3>2. CASE Changes(k)
      BY <2>a, <3>2 DEF Changes, MoreThanOne
    <3>3. CASE Grows(k)
      BY <2>a, <3>3 DEF Grows, MoreThanOne
    <3> QED
      BY <2>2, <3>1, <3>2, <3>3, OwnedStep
  <2> QED
    BY <2>1, <2>2
<1> QED
  BY <1>1, <1>2, TypeInvariant, PTL DEF Spec

\* A Deployment gets an environment only from a copy of the DataPlane that has
\* passed the validation of the same pass, however old the copy is.
THEOREM DeployedIsValidated == Spec => ValidatedBeforeDeployed
<1>1. TypeInv /\ SpecInv /\ [Next]_vars =>
         [\A o \in owned'["dep"] :
             o.env \in {"none", "postgres"} =>
                EditOwned \/ \E old \in owned["dep"] : old.name = o.name /\ old.env = o.env]_vars
  <2> SUFFICES ASSUME TypeInv, SpecInv, Next, NEW o \in owned'["dep"], o.env \in Unfit,
                      ~EditOwned
               PROVE  \E old \in owned["dep"] : old.name = o.name /\ old.env = o.env
    BY DEF Unfit
  <2>a. w.pc = "dep" => w.dp.env # o.env
    BY DEF SpecInv
  <2>1. CASE Shrinks("dep")
    BY <2>1 DEF Shrinks
  <2>2. CASE Changes("dep")
    BY <2>2, <2>a DEF Changes
  <2>3. CASE Grows("dep")
    BY <2>3, <2>a DEF Grows
  <2> QED
    BY <2>1, <2>2, <2>3, OwnedStep DEF Kinds
<1> QED
  BY <1>1, TypeInvariant, SpecInvariant, PTL DEF Spec, ValidatedBeforeDeployed
=============================================================================
