------------------------- MODULE ControlPlaneProofs -------------------------
(***************************************************************************)
(* Theorems about ControlPlane, for every number of names, Services, edits *)
(* and faults.                                                             *)
(***************************************************************************)
EXTENDS ControlPlane, TLAPS

-----------------------------------------------------------------------------
(* Types *)

\* SetCondition yields conditions again.
LEMMA SetConditionType ==
    ASSUME NEW conds \in Conds, NEW t \in {Provisioned, ReadyType},
           NEW c \in ConditionValues
    PROVE  SetCondition(conds, t, c) \in Conds
<1>1. PICK present \in SUBSET {Provisioned, ReadyType} :
          conds \in [present -> ConditionValues]
  BY DEF Conds, ConditionsOver
<1>2. present \cup {t} \in SUBSET {Provisioned, ReadyType}
  OBVIOUS
<1>3. SetCondition(conds, t, c) \in [present \cup {t} -> ConditionValues]
  BY <1>1 DEF SetCondition
<1> QED
  BY <1>2, <1>3 DEF Conds, ConditionsOver

\* The status helpers map conditions to conditions.
LEMMA StatusTypes ==
    ASSUME NEW conds \in Conds, NEW dp \in BOOLEAN
    PROVE  /\ InitReady(conds) \in Conds
           /\ ensureIsMarkedScheduled(conds) \in Conds
           /\ ensureIsMarkedProvisioned(conds) \in Conds
           /\ ensureDataPlaneStatus(dp, conds) \in Conds
<1> USE DEF ConditionValues
<1>1. InitReady(conds) \in Conds
  BY SetConditionType DEF InitReady
<1>2. ensureIsMarkedScheduled(conds) \in Conds
  BY SetConditionType DEF ensureIsMarkedScheduled
<1>3. ensureIsMarkedProvisioned(conds) \in Conds
  <2>1. SetCondition(conds, Provisioned, PodsReady) \in Conds
    BY SetConditionType
  <2> QED
    BY <2>1, SetConditionType DEF ensureIsMarkedProvisioned, SetReady
<1>4. ensureDataPlaneStatus(dp, conds) \in Conds
  BY SetConditionType DEF ensureDataPlaneStatus
<1> QED
  BY <1>1, <1>2, <1>3, <1>4

\* The empty slice, the idle worker and the absent resource are well typed.
LEMMA ConstantTypes ==
    /\ NoConditions \in Conds
    /\ NoEnv \in Env
    /\ NoControlPlane \in ControlPlaneResource
    /\ Idle \in Worker
<1>1. NoConditions \in Conds
  <2>1. NoConditions \in [{} -> ConditionValues]
    BY DEF NoConditions
  <2> QED
    BY <2>1 DEF Conds, ConditionsOver
<1>2. NoEnv \in Env
  BY DEF NoEnv, Env, ServiceNames
<1>3. NoControlPlane \in ControlPlaneResource
  BY <1>1, <1>2 DEF NoControlPlane, ControlPlaneResource
<1>4. Idle \in Worker
  BY <1>3 DEF Idle, Worker, Steps
<1> QED
  BY <1>1, <1>2, <1>3, <1>4

\* A write of an owned kind keeps the types of what it changes.
LEMMA WriteType ==
    ASSUME TypeOK, NEW k \in Kinds, NEW objects \in SUBSET Object, Write(k, objects)
    PROVE  /\ owned' \in [Kinds -> SUBSET Object]
           /\ pending' \subseteq Kinds \cup {"cp"}
BY DEF TypeOK, Write

\* A list returns objects.
LEMMA ListType ==
    ASSUME TypeOK, NEW k \in Kinds
    PROVE  List(k) \subseteq Object
BY DEF TypeOK, List

\* A generated object is an object.
LEMMA PlainType ==
    ASSUME NEW n \in Names, NEW uses \in SUBSET (Kinds \X Names)
    PROVE  Plain(n, uses) \in Object
BY ConstantTypes DEF Plain, Object, PodStates

\* The worker stays well typed when it returns or goes on with a new copy.
LEMMA WorkerType ==
    ASSUME TypeOK
    PROVE  /\ \A b \in BOOLEAN : Return(b) => w' \in Worker /\ queued' \in BOOLEAN
           /\ \A pc \in Steps, c \in ControlPlaneResource :
                 /\ Goto(pc, c) => w' \in Worker /\ queued' \in BOOLEAN
                 /\ Hold(pc, c) => w' \in Worker /\ timer' \in BOOLEAN
<1>1. ASSUME NEW b \in BOOLEAN, Return(b)
      PROVE  w' \in Worker /\ queued' \in BOOLEAN
  <2>1. (queued \/ b) \in BOOLEAN
    BY DEF TypeOK
  <2> QED
    BY <1>1, <2>1, ConstantTypes, Zenon DEF Return
<1>2. ASSUME NEW pc \in Steps, NEW c \in ControlPlaneResource, Goto(pc, c)
      PROVE  w' \in Worker /\ queued' \in BOOLEAN
  BY <1>2 DEF Goto, TypeOK, Worker
<1>3. ASSUME NEW pc \in Steps, NEW c \in ControlPlaneResource, Hold(pc, c)
      PROVE  w' \in Worker /\ timer' \in BOOLEAN
  <2> DEFINE fresh == "cp" \in pending
  <2>1. fresh \in BOOLEAN
    OBVIOUS
  <2>2. w' = [Idle EXCEPT !.pc = pc, !.cp = c, !.stale = fresh]
    BY <1>3 DEF Hold
  <2> HIDE DEF fresh
  <2>3. w' \in Worker
    BY <2>1, <2>2, ConstantTypes DEF Worker
  <2> QED
    BY <1>3, <2>3 DEF Hold, TypeOK
<1> QED
  BY <1>1, <1>2, <1>3

\* The initial states are well typed.
LEMMA InitType == Init => TypeOK
<1> SUFFICES ASSUME Init PROVE TypeOK
  OBVIOUS
<1>1. cp \in ControlPlaneResource
  BY ConstantTypes DEF Init, ControlPlaneResource, NoControlPlane
<1>2. /\ owned \in [Kinds -> SUBSET Object]
      /\ cache \in [Kinds -> SUBSET Object]
  BY DEF Init
<1>3. edits \in 0..MaxEdits /\ faults \in 0..MaxFaults
  BY ConstantsAssumption DEF Init
<1>4. cpSeen \in ControlPlaneResource /\ w \in Worker
  BY ConstantTypes DEF Init
<1> QED
  BY <1>1, <1>2, <1>3, <1>4 DEF Init, TypeOK

\* Removing finalizers, or the resource with the last one, keeps the type.
LEMMA StoredType ==
    ASSUME NEW c \in ControlPlaneResource
    PROVE  Stored(c) \in ControlPlaneResource
<1> DEFINE alive == c.alive /\ ~(c.deleted /\ c.fins = {})
<1>1. alive \in BOOLEAN
  BY DEF ControlPlaneResource
<1>2. Stored(c) = [c EXCEPT !.alive = alive]
  BY DEF Stored
<1> HIDE DEF alive
<1> QED
  BY <1>1, <1>2 DEF ControlPlaneResource

\* A write of the ControlPlane keeps the types of what it changes.
LEMMA WriteCPType ==
    ASSUME TypeOK, NEW c \in ControlPlaneResource, WriteCP(c)
    PROVE  cp' \in ControlPlaneResource /\ pending' \subseteq Kinds \cup {"cp"}
BY DEF TypeOK, WriteCP

\* The environments that the spec helpers compute are environments.
LEMMA EnvTypes ==
    ASSUME NEW env \in Env, NEW dp \in BOOLEAN, NEW service \in ServiceNames
    PROVE  /\ setControlPlaneDefaults(env, service) \in Env
           /\ setControlPlaneEnvOnDataPlaneChange(dp, env, service) \in Env
BY DEF Env, ServiceNames, setControlPlaneDefaults, setControlPlaneEnvOnDataPlaneChange

\* Steps that begin a reconciliation.
LEMMA TakeType ==
    ASSUME TypeOK,
           \/ GetNotFound \/ WaitForGracePeriod \/ StartCleanup
           \/ AddFinalizers \/ MarkScheduled \/ StartProvisioning
    PROVE  TypeOK'
<1> USE DEF Take, objectVars, cacheVars, envVars
<1>a. cpSeen \in ControlPlaneResource /\ cpSeen.conds \in Conds
  BY DEF TypeOK, ControlPlaneResource
<1>b. w' \in Worker /\ timer' \in BOOLEAN
  <2>1. CASE GetNotFound
    BY <2>1 DEF GetNotFound, TypeOK
  <2>2. CASE WaitForGracePeriod
    BY <2>2 DEF WaitForGracePeriod, TypeOK
  <2>3. CASE StartCleanup
    BY <2>3, <1>a, WorkerType DEF StartCleanup, Steps
  <2>4. CASE AddFinalizers
    <3>1. [cpSeen EXCEPT !.fins = Finalizers] \in ControlPlaneResource
      BY <1>a DEF ControlPlaneResource
    <3> QED
      BY <2>4, <3>1, WorkerType DEF AddFinalizers, Steps
  <2>5. CASE MarkScheduled
    <3> DEFINE conds == ensureIsMarkedScheduled(InitReady(cpSeen.conds))
    <3>1. conds \in Conds
      BY <1>a, StatusTypes
    <3> HIDE DEF conds
    <3>2. [cpSeen EXCEPT !.conds = conds] \in ControlPlaneResource
      BY <1>a, <3>1 DEF ControlPlaneResource
    <3>3. Hold("status", [cpSeen EXCEPT !.conds = conds])
      BY <2>5 DEF MarkScheduled, conds
    <3> QED
      BY <3>2, <3>3, WorkerType DEF Steps
  <2>6. CASE StartProvisioning
    <3> DEFINE conds == InitReady(cpSeen.conds)
    <3>1. conds \in Conds
      BY <1>a, StatusTypes
    <3> HIDE DEF conds
    <3>2. [cpSeen EXCEPT !.conds = conds] \in ControlPlaneResource
      BY <1>a, <3>1 DEF ControlPlaneResource
    <3>3. Hold("dataplane", [cpSeen EXCEPT !.conds = conds])
      BY <2>6 DEF StartProvisioning, conds
    <3> QED
      BY <3>2, <3>3, WorkerType DEF Steps
  <2> QED
    BY <2>1, <2>2, <2>3, <2>4, <2>5, <2>6
<1>c. /\ queued' = FALSE
      /\ UNCHANGED <<cp, owned, cpSeen, cache, pending, graceOver, svc, ca,
                     edits, faults>>
  BY DEF GetNotFound, WaitForGracePeriod, StartCleanup, AddFinalizers,
         MarkScheduled, StartProvisioning
<1> QED
  BY <1>b, <1>c DEF TypeOK

\* Steps that write the ControlPlane or read the DataPlane.
LEMMA UpdateType ==
    ASSUME TypeOK,
           \/ UpdateAndReturn \/ updateStatus \/ ReadDataPlane
           \/ ensureDataPlaneConfiguration
    PROVE  TypeOK'
<1> USE DEF objectVars, cacheVars, envVars
<1>a. /\ cp \in ControlPlaneResource /\ w.cp \in ControlPlaneResource
      /\ w.cp.dp \in BOOLEAN /\ w.cp.env \in Env /\ w.cp.conds \in Conds
      /\ w.cp.fins \subseteq Finalizers /\ cp.conds \in Conds
  BY DEF TypeOK, Worker, ControlPlaneResource
<1>b. ASSUME NEW c \in ControlPlaneResource
      PROVE  WithDataPlaneStatus(c) \in ControlPlaneResource
  <2> DEFINE conds == ensureDataPlaneStatus(c.dp, c.conds)
  <2>1. conds \in Conds
    BY <1>b, StatusTypes DEF ControlPlaneResource
  <2>2. WithDataPlaneStatus(c) = [c EXCEPT !.conds = conds]
    BY DEF WithDataPlaneStatus
  <2> HIDE DEF conds
  <2> QED
    BY <1>b, <2>1, <2>2 DEF ControlPlaneResource
<1>1. CASE UpdateAndReturn
  <2>1. [cp EXCEPT !.fins = w.cp.fins, !.env = w.cp.env] \in ControlPlaneResource
    BY <1>a DEF ControlPlaneResource
  <2>2. /\ cp' \in ControlPlaneResource /\ pending' \subseteq Kinds \cup {"cp"}
        /\ w' \in Worker /\ queued' \in BOOLEAN
    BY <1>1, <2>1, StoredType, WriteCPType, WorkerType, <1>a
       DEF UpdateAndReturn, TypeOK
  <2> QED
    BY <1>1, <2>2 DEF UpdateAndReturn, TypeOK
<1>2. CASE updateStatus
  <2>1. [cp EXCEPT !.conds = w.cp.conds] \in ControlPlaneResource
    BY <1>a DEF ControlPlaneResource
  <2>2. /\ cp' \in ControlPlaneResource /\ pending' \subseteq Kinds \cup {"cp"}
        /\ w' \in Worker /\ queued' \in BOOLEAN
    BY <1>2, <2>1, WriteCPType, WorkerType, <1>a DEF updateStatus, TypeOK
  <2> QED
    BY <1>2, <2>2 DEF updateStatus, TypeOK
<1>3. CASE ReadDataPlane
  <2> DEFINE service == IF w.cp.dp THEN svc ELSE NoService
             defaulted == setControlPlaneDefaults(w.cp.env, service)
             changed == setControlPlaneEnvOnDataPlaneChange(w.cp.dp, w.cp.env, service)
  <2>1. service \in ServiceNames
    BY DEF TypeOK, ServiceNames
  <2>2. defaulted \in Env /\ changed \in Env
    BY <1>a, <2>1, EnvTypes
  <2>3. \/ Return(TRUE)
        \/ Goto("update", [w.cp EXCEPT !.env = defaulted])
        \/ Goto("config", [w.cp EXCEPT !.env = changed])
        \/ Goto("sa", WithDataPlaneStatus(w.cp))
    BY <1>3, Zenon DEF ReadDataPlane
  <2> HIDE DEF service, defaulted, changed
  <2>4. /\ [w.cp EXCEPT !.env = defaulted] \in ControlPlaneResource
        /\ [w.cp EXCEPT !.env = changed] \in ControlPlaneResource
        /\ WithDataPlaneStatus(w.cp) \in ControlPlaneResource
    BY <1>a, <1>b, <2>2 DEF ControlPlaneResource
  <2>5. w' \in Worker /\ queued' \in BOOLEAN
    BY <2>3, <2>4, WorkerType DEF Steps, Kinds
  <2>6. UNCHANGED <<cp, owned, cpSeen, cache, pending, timer, graceOver, svc, ca,
                    edits, faults>>
    BY <1>3, Zenon DEF ReadDataPlane
  <2> QED
    BY <2>5, <2>6 DEF TypeOK
<1>4. CASE ensureDataPlaneConfiguration
  <2> DEFINE copy == [w.cp EXCEPT !.conds = cp.conds]
  <2>1. [cp EXCEPT !.env = w.cp.env] \in ControlPlaneResource
    BY <1>a DEF ControlPlaneResource
  <2>2. WithDataPlaneStatus(copy) \in ControlPlaneResource
    <3>1. copy \in ControlPlaneResource
      BY <1>a DEF ControlPlaneResource
    <3> QED
      BY <3>1, <1>b
  <2>3. \/ Return(TRUE) /\ UNCHANGED <<cp, pending>>
        \/ /\ WriteCP([cp EXCEPT !.env = w.cp.env])
           /\ Goto("sa", WithDataPlaneStatus(copy))
    BY <1>4 DEF ensureDataPlaneConfiguration
  <2> HIDE DEF copy
  <2>4. /\ cp' \in ControlPlaneResource /\ pending' \subseteq Kinds \cup {"cp"}
        /\ w' \in Worker /\ queued' \in BOOLEAN
    BY <2>1, <2>2, <2>3, WriteCPType, WorkerType, <1>a DEF TypeOK, Steps, Kinds
  <2> QED
    BY <1>4, <2>4 DEF ensureDataPlaneConfiguration, TypeOK
<1> QED
  BY <1>1, <1>2, <1>3, <1>4

\* At each step the worker has found what the objects it may generate name.
HeldInOrder ==
    /\ w.pc \in {"cr", "crb", "sec", "dep"} => w.held["sa"] \in Names
    /\ w.pc \in {"crb", "sec", "dep"} => w.held["cr"] \in Names
    /\ w.pc = "dep" => w.held["sec"] \in Names

\* A generated object is an object, and its name is one that was free.
LEMMA GeneratedType ==
    ASSUME TypeOK, HeldInOrder, NEW k \in Kinds, w.pc = k, Fresh(k) # {}
    PROVE  /\ NewName(k) \in Fresh(k)
           /\ Plain(NewName(k), Uses(k)) \in Object
<1>1. NewName(k) \in Fresh(k)
  BY DEF NewName
<1>2. NewName(k) \in Names
  BY <1>1 DEF Fresh
<1>3. Uses(k) \in SUBSET (Kinds \X Names)
  <2>1. CASE k = "crb"
    BY <2>1 DEF Uses, HeldInOrder, Kinds
  <2>2. CASE k = "dep"
    BY <2>2 DEF Uses, HeldInOrder, Kinds
  <2>3. CASE k \notin {"crb", "dep"}
    BY <2>3 DEF Uses
  <2> QED
    BY <2>1, <2>2, <2>3
<1> QED
  BY <1>1, <1>2, <1>3, PlainType

\* Steps about the owned objects.
LEMMA OwnedType ==
    ASSUME TypeOK, HeldInOrder,
           \/ \E k \in Kinds : FoundSeveral(k)
           \/ CANotFound
           \/ \E k \in Kinds \ {"dep"} : CreateOwned(k) \/ RepairOwned(k) \/ HaveOwned(k)
    PROVE  TypeOK'
<1> USE DEF objectVars, cacheVars, envVars
<1>1. ASSUME NEW k \in Kinds, FoundSeveral(k)
      PROVE  TypeOK'
  BY <1>1, WorkerType DEF FoundSeveral, TypeOK
<1>2. CASE CANotFound
  BY <1>2, WorkerType DEF CANotFound, TypeOK
<1>3. ASSUME NEW k \in Kinds \ {"dep"}, CreateOwned(k)
      PROVE  TypeOK'
  <2>1. owned[k] \cup {Plain(NewName(k), Uses(k))} \subseteq Object
    BY <1>3, GeneratedType DEF CreateOwned, TypeOK
  <2>2. /\ owned' \in [Kinds -> SUBSET Object]
        /\ pending' \subseteq Kinds \cup {"cp"}
    BY <1>3, <2>1, WriteType DEF CreateOwned
  <2> QED
    BY <1>3, <2>2, WorkerType DEF CreateOwned, TypeOK
<1>4. ASSUME NEW k \in Kinds \ {"dep"}, RepairOwned(k)
      PROVE  TypeOK'
  <2>1. PICK o \in List(k) :
           \/ /\ Write(k, (owned[k] \ {o}) \cup {[o EXCEPT !.drift = FALSE]})
              /\ Return(FALSE)
           \/ Return(TRUE) /\ UNCHANGED <<owned, pending>>
    BY <1>4 DEF RepairOwned
  <2>2. [o EXCEPT !.drift = FALSE] \in Object
    <3>1. o \in Object
      BY ListType
    <3> QED
      BY <3>1 DEF Object
  <2>3. (owned[k] \ {o}) \cup {[o EXCEPT !.drift = FALSE]} \subseteq Object
    BY <2>2 DEF TypeOK
  <2>4. /\ owned' \in [Kinds -> SUBSET Object]
        /\ pending' \subseteq Kinds \cup {"cp"}
        /\ w' \in Worker /\ queued' \in BOOLEAN
    BY <2>1, <2>3, WriteType, WorkerType DEF TypeOK
  <2> QED
    BY <1>4, <2>4 DEF RepairOwned, TypeOK
<1>5. ASSUME NEW k \in Kinds \ {"dep"}, HaveOwned(k)
      PROVE  TypeOK'
  <2>1. PICK o \in List(k) :
           w' = [w EXCEPT !.pc = NextStep[k], !.held[k] = o.name]
    BY <1>5 DEF HaveOwned
  <2>2. o.name \in Names
    BY ListType DEF Object
  <2>3. NextStep[k] \in Steps
    BY DEF NextStep, Kinds, Steps
  <2>4. w' \in Worker
    BY <2>1, <2>2, <2>3 DEF TypeOK, Worker
  <2> QED
    BY <1>5, <2>4 DEF HaveOwned, TypeOK
<1> QED
  BY <1>1, <1>2, <1>3, <1>4, <1>5

\* Steps about the Deployment.
LEMMA DeploymentType ==
    ASSUME TypeOK, HeldInOrder,
           CreateDeployment \/ UpdateDeployment \/ CheckReadiness
    PROVE  TypeOK'
<1> USE DEF objectVars, cacheVars, envVars
<1>a. /\ w.cp \in ControlPlaneResource
      /\ w.cp.dp \in BOOLEAN /\ w.cp.env \in Env /\ w.cp.conds \in Conds
  BY DEF TypeOK, Worker, ControlPlaneResource
<1>b. DeploymentChanged => w' \in Worker /\ queued' \in BOOLEAN
  BY <1>a, WorkerType DEF DeploymentChanged, Steps
<1>c. \A o \in List("dep") : o \in Object /\ Corrected(o) \in Object
  BY <1>a, ListType DEF Corrected, Object, Kinds
<1>1. CASE CreateDeployment
  <2> DEFINE base == Plain(NewName("dep"), Uses("dep"))
  <2>1. base \in Object
    BY <1>1, GeneratedType DEF CreateDeployment, Kinds
  <2>2. Write("dep", owned["dep"] \cup
              {[base EXCEPT !.on = w.cp.dp, !.env = w.cp.env]})
    BY <1>1 DEF CreateDeployment
  <2> HIDE DEF base
  <2>3. owned["dep"] \cup {[base EXCEPT !.on = w.cp.dp, !.env = w.cp.env]}
           \subseteq Object
    BY <1>a, <2>1 DEF Object, TypeOK, Kinds
  <2>4. /\ owned' \in [Kinds -> SUBSET Object]
        /\ pending' \subseteq Kinds \cup {"cp"}
    BY <2>2, <2>3, WriteType DEF Kinds
  <2>5. /\ DeploymentChanged
        /\ UNCHANGED <<cp, cpSeen, cache, timer, graceOver, svc, ca, edits, faults>>
    BY <1>1 DEF CreateDeployment
  <2> QED
    BY <2>4, <2>5, <1>b DEF TypeOK
<1>2. CASE UpdateDeployment
  <2>1. PICK o \in List("dep") :
           \/ /\ Write("dep", (owned["dep"] \ {o}) \cup {Corrected(o)})
              /\ DeploymentChanged
           \/ Return(TRUE) /\ UNCHANGED <<owned, pending>>
    BY <1>2 DEF UpdateDeployment
  <2>2. (owned["dep"] \ {o}) \cup {Corrected(o)} \subseteq Object
    BY <1>c DEF TypeOK, Kinds
  <2>3. /\ owned' \in [Kinds -> SUBSET Object]
        /\ pending' \subseteq Kinds \cup {"cp"}
        /\ w' \in Worker /\ queued' \in BOOLEAN
    BY <1>b, <2>1, <2>2, WriteType, WorkerType DEF TypeOK, Kinds
  <2> QED
    BY <1>2, <2>3 DEF UpdateDeployment, TypeOK
<1>3. CASE CheckReadiness
  <2> DEFINE conds == ensureIsMarkedProvisioned(w.cp.conds)
  <2>1. conds \in Conds
    BY <1>a, StatusTypes
  <2>2. Goto("status", [w.cp EXCEPT !.conds = conds]) \/ Return(FALSE)
    BY <1>3 DEF CheckReadiness
  <2> HIDE DEF conds
  <2>3. [w.cp EXCEPT !.conds = conds] \in ControlPlaneResource
    BY <1>a, <2>1 DEF ControlPlaneResource
  <2>4. w' \in Worker /\ queued' \in BOOLEAN
    BY <2>2, <2>3, WorkerType DEF Steps
  <2> QED
    BY <1>3, <2>4 DEF CheckReadiness, TypeOK
<1> QED
  BY <1>1, <1>2, <1>3

\* Steps of the cleanup.
LEMMA CleanupType ==
    ASSUME TypeOK, DeleteBindings \/ DeleteRoles
    PROVE  TypeOK'
<1> USE DEF objectVars, cacheVars, envVars
<1>a. ASSUME NEW k \in Kinds
      PROVE  /\ WithoutFinalizer(k) \in ControlPlaneResource
             /\ w.cp \in ControlPlaneResource
             /\ owned[k] \ Listed(k) \subseteq Object
  BY DEF TypeOK, Worker, ControlPlaneResource, WithoutFinalizer
<1>b. ASSUME NEW k \in Kinds, Delete(k, Listed(k))
      PROVE  /\ owned' \in [Kinds -> SUBSET Object]
             /\ pending' \subseteq Kinds \cup {"cp"}
  BY <1>a, <1>b, WriteType DEF Delete, TypeOK
<1>1. CASE DeleteBindings
  BY <1>1, <1>a, <1>b, WorkerType DEF DeleteBindings, TypeOK, Kinds, Steps
<1>2. CASE DeleteRoles
  BY <1>2, <1>a, <1>b, WorkerType DEF DeleteRoles, TypeOK, Kinds, Steps
<1> QED
  BY <1>1, <1>2

\* Faults.
LEMMA FaultType ==
    ASSUME TypeOK, APIError \/ PartialDelete \/ Restart
    PROVE  TypeOK'
<1> USE DEF objectVars, cacheVars
<1>a. Fault => faults' \in 0..MaxFaults
  BY ConstantsAssumption DEF Fault, TypeOK
<1>1. CASE APIError
  BY <1>1, <1>a, WorkerType DEF APIError, Fault, TypeOK
<1>2. CASE PartialDelete
  <2>1. PICK k \in {"crb", "cr"} : \E done \in SUBSET Listed(k) : Write(k, owned[k] \ done)
    BY <1>2 DEF PartialDelete
  <2>2. PICK done \in SUBSET Listed(k) : Write(k, owned[k] \ done)
    BY <2>1
  <2>3. k \in Kinds /\ owned[k] \ done \subseteq Object
    BY <2>1 DEF TypeOK, Kinds
  <2>4. /\ owned' \in [Kinds -> SUBSET Object]
        /\ pending' \subseteq Kinds \cup {"cp"}
    BY <2>2, <2>3, WriteType
  <2>5. /\ Fault /\ Return(TRUE)
        /\ UNCHANGED <<cp, cpSeen, cache, timer>>
    BY <1>2 DEF PartialDelete
  <2> QED
    BY <1>a, <2>4, <2>5, WorkerType DEF Fault, TypeOK
<1>3. CASE Restart
  <2>1. cache' \in [Kinds -> SUBSET Object]
    BY <1>3 DEF Restart, TypeOK
  <2>2. w' \in Worker /\ cpSeen' \in ControlPlaneResource
    BY <1>3, ConstantTypes DEF Restart, TypeOK
  <2>3. /\ Fault /\ queued' = TRUE /\ timer' = FALSE /\ pending' = {}
        /\ UNCHANGED <<cp, owned>>
    BY <1>3 DEF Restart
  <2> QED
    BY <1>a, <2>1, <2>2, <2>3 DEF Fault, TypeOK
<1> QED
  BY <1>1, <1>2, <1>3

\* Informers, timers, the CA manager and the controllers of Kubernetes.
LEMMA EnvironmentType ==
    ASSUME TypeOK,
           \/ DeliverControlPlane \/ Resync
           \/ \E k \in Kinds : DeliverOwned(k)
           \/ GraceExpires \/ TimerFires \/ CreateCA
           \/ DeploymentController \/ GarbageCollect
    PROVE  TypeOK'
<1> USE DEF objectVars, cacheVars, envVars
<1>1. CASE DeliverControlPlane
  BY <1>1 DEF DeliverControlPlane, TypeOK
<1>2. ASSUME NEW k \in Kinds, DeliverOwned(k)
      PROVE  TypeOK'
  <2>1. cache' \in [Kinds -> SUBSET Object]
    BY <1>2 DEF DeliverOwned, TypeOK
  <2>2. queued' \in BOOLEAN
    <3>1. (queued \/ (k \in Namespaced \/ cpSeen.alive)) \in BOOLEAN
      OBVIOUS
    <3> QED
      BY <1>2, <3>1, Zenon DEF DeliverOwned
  <2> QED
    BY <1>2, <2>1, <2>2 DEF DeliverOwned, TypeOK
<1>3. CASE Resync
  BY <1>3 DEF Resync, TypeOK
<1>4. CASE GraceExpires
  BY <1>4 DEF GraceExpires, TypeOK
<1>5. CASE TimerFires
  BY <1>5 DEF TimerFires, TypeOK
<1>6. CASE CreateCA
  BY <1>6 DEF CreateCA, TypeOK
<1>7. CASE DeploymentController
  <2>1. PICK o \in owned["dep"] :
           Write("dep", (owned["dep"] \ {o}) \cup {[o EXCEPT !.pods = NextPods(o)]})
    BY <1>7 DEF DeploymentController
  <2>2. o \in Object
    BY DEF TypeOK, Kinds
  <2>3. NextPods(o) \in PodStates
    BY <2>2 DEF NextPods, PodStates, Object
  <2>4. [o EXCEPT !.pods = NextPods(o)] \in Object
    BY <2>2, <2>3 DEF Object
  <2>5. (owned["dep"] \ {o}) \cup {[o EXCEPT !.pods = NextPods(o)]} \subseteq Object
    BY <2>4 DEF TypeOK, Kinds
  <2>6. /\ owned' \in [Kinds -> SUBSET Object]
        /\ pending' \subseteq Kinds \cup {"cp"}
    BY <2>1, <2>5, WriteType DEF Kinds
  <2>7. UNCHANGED <<cp, cpSeen, cache, queued, timer, w, graceOver, svc, ca,
                    edits, faults>>
    BY <1>7 DEF DeploymentController
  <2> QED
    BY <2>6, <2>7 DEF TypeOK
<1>8. CASE GarbageCollect
  <2>1. PICK k \in Namespaced : Write(k, {})
    BY <1>8 DEF GarbageCollect
  <2>2. /\ owned' \in [Kinds -> SUBSET Object]
        /\ pending' \subseteq Kinds \cup {"cp"}
    BY <2>1, WriteType DEF Namespaced, Kinds
  <2> QED
    BY <1>8, <2>2 DEF GarbageCollect, TypeOK
<1> QED
  BY <1>1, <1>2, <1>3, <1>4, <1>5, <1>6, <1>7, <1>8

\* Users and the DataPlane.
LEMMA UserType ==
    ASSUME TypeOK,
           EditControlPlane \/ LoseOwned \/ EditOwned \/ PodFails \/ ServiceChanges
    PROVE  TypeOK'
<1> USE DEF objectVars, cacheVars
<1>a. Edit => edits' \in 0..MaxEdits
  BY ConstantsAssumption DEF Edit, TypeOK
<1>b. ASSUME Edit, UNCHANGED <<cp, w, svc>>,
             NEW k \in Kinds, NEW S \in SUBSET Object, Write(k, S)
      PROVE  TypeOK'
  <2>1. /\ owned' \in [Kinds -> SUBSET Object]
        /\ pending' \subseteq Kinds \cup {"cp"}
    BY <1>b, WriteType
  <2> QED
    BY <1>a, <1>b, <2>1 DEF Edit, TypeOK
<1>1. CASE EditControlPlane
  <2>1. PICK new \in ControlPlaneResource : UserWrites(new)
    <3>1. [cp EXCEPT !.dp = ~@] \in ControlPlaneResource
      <4> DEFINE dp == ~cp.dp
      <4>1. dp \in BOOLEAN
        OBVIOUS
      <4> HIDE DEF dp
      <4>2. [cp EXCEPT !.dp = dp] \in ControlPlaneResource
        BY <4>1 DEF TypeOK, ControlPlaneResource
      <4> QED
        BY <4>2 DEF dp
    <3>2. [cp EXCEPT !.deleted = TRUE] \in ControlPlaneResource
      BY DEF TypeOK, ControlPlaneResource
    <3>3. \A s \in ServiceNames : [cp EXCEPT !.env.service = s] \in ControlPlaneResource
      BY DEF TypeOK, ControlPlaneResource, Env
    <3> QED
      BY <1>1, <3>1, <3>2, <3>3 DEF EditControlPlane
  <2>2. cp' \in ControlPlaneResource /\ pending' \subseteq Kinds \cup {"cp"}
    BY <2>1, StoredType, WriteCPType DEF UserWrites
  <2>3. w' \in Worker
    <3> DEFINE stale == w.pc # "idle"
    <3>1. stale \in BOOLEAN
      OBVIOUS
    <3>2. w' = [w EXCEPT !.stale = stale]
      BY <2>1 DEF UserWrites
    <3> HIDE DEF stale
    <3> QED
      BY <3>1, <3>2 DEF TypeOK, Worker
  <2>4. Edit /\ UNCHANGED <<owned, svc>>
    BY <1>1 DEF EditControlPlane
  <2> QED
    BY <1>a, <2>2, <2>3, <2>4 DEF Edit, TypeOK
<1>2. CASE LoseOwned
  <2>0. PICK k \in Kinds : \E o \in owned[k] : Write(k, owned[k] \ {o})
    BY <1>2 DEF LoseOwned
  <2>1. PICK o \in owned[k] : Write(k, owned[k] \ {o})
    BY <2>0
  <2>2. owned[k] \ {o} \in SUBSET Object
    BY DEF TypeOK
  <2> QED
    BY <1>2, <1>b, <2>1, <2>2 DEF LoseOwned
<1>3. CASE EditOwned
  <2>1. PICK k \in Kinds : \E o \in owned[k] : \E new \in
          {[o EXCEPT !.drift = TRUE]} \cup
          (IF k = "dep" THEN {[o EXCEPT !.on = ~@], [o EXCEPT !.env = NoEnv]} ELSE {}) :
          Write(k, (owned[k] \ {o}) \cup {new})
    BY <1>3, Zenon DEF EditOwned
  <2>2. PICK o \in owned[k] : \E new \in
          {[o EXCEPT !.drift = TRUE], [o EXCEPT !.on = ~o.on], [o EXCEPT !.env = NoEnv]} :
          Write(k, (owned[k] \ {o}) \cup {new})
    BY <2>1
  <2>3. PICK new \in
          {[o EXCEPT !.drift = TRUE], [o EXCEPT !.on = ~o.on], [o EXCEPT !.env = NoEnv]} :
          Write(k, (owned[k] \ {o}) \cup {new})
    BY <2>2
  <2>4. new \in Object
    <3> DEFINE on == ~o.on
    <3>1. on \in BOOLEAN
      OBVIOUS
    <3>2. new \in {[o EXCEPT !.drift = TRUE], [o EXCEPT !.on = on],
                   [o EXCEPT !.env = NoEnv]}
      BY <2>3
    <3> HIDE DEF on
    <3>3. o \in Object
      BY DEF TypeOK
    <3> QED
      BY <3>1, <3>2, <3>3, ConstantTypes DEF Object
  <2>5. (owned[k] \ {o}) \cup {new} \in SUBSET Object
    BY <2>4 DEF TypeOK
  <2> QED
    BY <1>3, <1>b, <2>3, <2>5, Zenon DEF EditOwned
<1>4. CASE PodFails
  <2>1. PICK o \in owned["dep"] :
           Write("dep", (owned["dep"] \ {o}) \cup {[o EXCEPT !.pods = "starting"]})
    BY <1>4 DEF PodFails
  <2>2. o \in Object
    BY DEF TypeOK, Kinds
  <2>3. [o EXCEPT !.pods = "starting"] \in Object
    BY <2>2 DEF Object, PodStates
  <2>4. (owned["dep"] \ {o}) \cup {[o EXCEPT !.pods = "starting"]} \in SUBSET Object
    BY <2>3 DEF TypeOK, Kinds
  <2> QED
    BY <1>4, <1>b, <2>1, <2>4 DEF PodFails, Kinds
<1>5. CASE ServiceChanges
  BY <1>5, <1>a DEF ServiceChanges, Edit, TypeOK
<1> QED
  BY <1>1, <1>2, <1>3, <1>4, <1>5

\* The worker moves from one owned kind to the next only with the object found.
LEMMA HeldStep ==
    ASSUME TypeOK, HeldInOrder, Next
    PROVE  HeldInOrder'
<1> DEFINE Late == {"cr", "crb", "sec", "dep"}
<1>1. ASSUME NEW k \in Kinds \ {"dep"}, HaveOwned(k)
      PROVE  HeldInOrder'
  <2>1. PICK o \in List(k) :
           w' = [w EXCEPT !.pc = NextStep[k], !.held[k] = o.name]
    BY <1>1 DEF HaveOwned
  <2>2. o.name \in Names
    BY ListType DEF Object
  <2>3. /\ w'.pc = NextStep[k]
        /\ w'.held = [w.held EXCEPT ![k] = o.name]
        /\ w.held \in [Kinds -> Names \cup {NoName}]
        /\ w.pc = k
    BY <1>1, <2>1 DEF TypeOK, Worker, HaveOwned
  <2> QED
    BY <2>2, <2>3 DEF HeldInOrder, NextStep, Kinds
<1>2. CASE w' = w
  BY <1>2 DEF HeldInOrder
<1>3. CASE w'.pc \notin Late
  BY <1>3 DEF HeldInOrder
<1>4. CASE w'.pc = w.pc /\ w'.held = w.held
  BY <1>4 DEF HeldInOrder
<1>5. \/ \E k \in Kinds \ {"dep"} : HaveOwned(k)
      \/ w' = w
      \/ w'.pc \notin Late
      \/ w'.pc = w.pc /\ w'.held = w.held
  <2>a. ASSUME NEW b \in BOOLEAN, Return(b)
        PROVE  w'.pc \notin Late
    BY <2>a DEF Return, Idle
  <2>b. ASSUME NEW pc \in Steps \ Late, NEW c, Goto(pc, c)
        PROVE  w'.pc \notin Late
    BY <2>b DEF Goto, TypeOK, Worker
  <2>c. ASSUME NEW pc \in Steps \ Late, NEW c, Hold(pc, c)
        PROVE  w'.pc \notin Late
    <3> DEFINE fresh == "cp" \in pending
    <3>1. w' = [Idle EXCEPT !.pc = pc, !.cp = c, !.stale = fresh]
      BY <2>c DEF Hold
    <3> HIDE DEF fresh
    <3>2. w'.pc = pc
      BY <3>1, ConstantTypes DEF Worker
    <3> QED
      BY <3>2
  <2>d. {"update", "status", "config", "dataplane", "sa", "delcr", "delcrb"}
           \subseteq Steps \ Late
    BY DEF Steps, Kinds
  <2>1. CASE GetNotFound \/ WaitForGracePeriod
    BY <2>1 DEF GetNotFound, WaitForGracePeriod
  <2>2. CASE StartCleanup \/ AddFinalizers \/ MarkScheduled \/ StartProvisioning
    BY <2>2, <2>c, <2>d DEF StartCleanup, AddFinalizers, MarkScheduled, StartProvisioning
  <2>3. CASE UpdateAndReturn \/ updateStatus \/ ensureDataPlaneConfiguration
    BY <2>3, <2>a, <2>b, <2>d DEF UpdateAndReturn, updateStatus, ensureDataPlaneConfiguration
  <2>4. CASE ReadDataPlane
    <3> DEFINE service == IF w.cp.dp THEN svc ELSE NoService
               defaulted == setControlPlaneDefaults(w.cp.env, service)
               changed == setControlPlaneEnvOnDataPlaneChange(w.cp.dp, w.cp.env, service)
    <3>1. \/ Return(TRUE)
          \/ Goto("update", [w.cp EXCEPT !.env = defaulted])
          \/ Goto("config", [w.cp EXCEPT !.env = changed])
          \/ Goto("sa", WithDataPlaneStatus(w.cp))
      BY <2>4, Zenon DEF ReadDataPlane
    <3> HIDE DEF service, defaulted, changed
    <3> QED
      BY <3>1, <2>a, <2>b, <2>d
  <2>5. CASE \/ \E k \in Kinds : FoundSeveral(k)
             \/ CANotFound
             \/ \E k \in Kinds \ {"dep"} : CreateOwned(k) \/ RepairOwned(k)
    BY <2>5, <2>a DEF FoundSeveral, CANotFound, CreateOwned, RepairOwned
  <2>6. CASE CreateDeployment \/ UpdateDeployment \/ CheckReadiness
    BY <2>6, <2>a, <2>b, <2>d DEF CreateDeployment, UpdateDeployment, CheckReadiness,
                      DeploymentChanged
  <2>7. CASE DeleteBindings \/ DeleteRoles
    BY <2>7, <2>a, <2>b, <2>d DEF DeleteBindings, DeleteRoles
  <2>8. CASE APIError \/ PartialDelete \/ Restart
    <3>1. Idle.pc \notin Late
      BY DEF Idle
    <3>2. Return(TRUE) \/ w' = Idle
      BY <2>8 DEF APIError, PartialDelete, Restart
    <3> QED
      BY <3>1, <3>2, <2>a
  <2>9. CASE \/ DeliverControlPlane \/ Resync
             \/ \E k \in Kinds : DeliverOwned(k)
             \/ GraceExpires \/ TimerFires \/ CreateCA
             \/ DeploymentController \/ GarbageCollect
             \/ LoseOwned \/ EditOwned \/ PodFails \/ ServiceChanges
    BY <2>9 DEF DeliverControlPlane, DeliverOwned, Resync, GraceExpires, TimerFires,
                CreateCA, DeploymentController, GarbageCollect, LoseOwned, EditOwned,
                PodFails, ServiceChanges
  <2>10. CASE EditControlPlane
    BY <2>10 DEF EditControlPlane, UserWrites, TypeOK, Worker
  <2> QED
    BY <2>1, <2>2, <2>3, <2>4, <2>5, <2>6, <2>7, <2>8, <2>9, <2>10, Zenon
       DEF Next, Reconcile
<1> QED
  BY <1>1, <1>2, <1>3, <1>4, <1>5

\* Type correctness of the ControlPlane reconciler and its environment.
THEOREM TypeCorrect == Spec => []TypeOK
<1>1. Init => TypeOK /\ HeldInOrder
  <2>1. w = Idle => HeldInOrder
    BY DEF HeldInOrder, Idle
  <2> QED
    BY <2>1, InitType DEF Init
<1>2. TypeOK /\ HeldInOrder /\ [Next]_vars => TypeOK' /\ HeldInOrder'
  <2> SUFFICES ASSUME TypeOK, HeldInOrder, [Next]_vars
               PROVE  TypeOK' /\ HeldInOrder'
    OBVIOUS
  <2>1. CASE Next
    BY <2>1, HeldStep, TakeType, UpdateType, OwnedType, DeploymentType, CleanupType,
       FaultType, EnvironmentType, UserType, Zenon DEF Next, Reconcile
  <2>2. CASE UNCHANGED vars
    BY <2>2 DEF vars, TypeOK, HeldInOrder
  <2> QED
    BY <2>1, <2>2
<1> QED
  BY <1>1, <1>2, PTL DEF Spec

-----------------------------------------------------------------------------
(* No second object of a kind that is read from the API server *)

\* A write of one kind leaves the others alone.
LEMMA WriteOwned ==
    ASSUME TypeOK, NEW j \in Kinds, NEW objects, Write(j, objects), NEW k \in Kinds
    PROVE  owned'[k] = IF k = j THEN objects ELSE owned[k]
BY DEF TypeOK, Write

\* Every step either creates an object of a kind whose list was empty, or ends
\* with objects that can be traced to different objects from before.
LEMMA OwnedStep ==
    ASSUME TypeOK, Next, NEW k \in Kinds
    PROVE  \/ owned'[k] \subseteq owned[k]
           \/ \E o \in owned[k] : \E new :
                 owned'[k] = (owned[k] \ {o}) \cup {new} /\ new.name = o.name
           \/ /\ List(k) = {} /\ w.pc = k
              /\ \E new : owned'[k] = owned[k] \cup {new}
<1> USE DEF objectVars
<1>1. CASE UNCHANGED owned
  BY <1>1
<1>2. ASSUME NEW j \in Kinds, NEW S, S \subseteq owned[j], Write(j, S)
      PROVE  owned'[k] \subseteq owned[k]
  BY <1>2, WriteOwned
<1>3. ASSUME NEW j \in Kinds, NEW o \in owned[j], NEW new, new.name = o.name,
             Write(j, (owned[j] \ {o}) \cup {new})
      PROVE  \/ owned'[k] \subseteq owned[k]
             \/ \E x \in owned[k] : \E y :
                   owned'[k] = (owned[k] \ {x}) \cup {y} /\ y.name = x.name
  <2>1. CASE j = k
    BY <1>3, <2>1, WriteOwned
  <2>2. CASE j # k
    BY <1>3, <2>2, WriteOwned
  <2> QED
    BY <2>1, <2>2
<1>4. ASSUME NEW j \in Kinds, NEW new, List(j) = {}, w.pc = j,
             Write(j, owned[j] \cup {new})
      PROVE  \/ owned'[k] \subseteq owned[k]
             \/ /\ List(k) = {} /\ w.pc = k
                /\ \E y : owned'[k] = owned[k] \cup {y}
  <2>1. CASE j = k
    BY <1>4, <2>1, WriteOwned
  <2>2. CASE j # k
    BY <1>4, <2>2, WriteOwned
  <2> QED
    BY <2>1, <2>2
<1>5. CASE \E j \in Kinds \ {"dep"} : CreateOwned(j)
  BY <1>5, <1>4 DEF CreateOwned
<1>6. CASE CreateDeployment
  BY <1>6, <1>4 DEF CreateDeployment, Kinds
<1>7. ASSUME NEW j \in Kinds \ {"dep"}, RepairOwned(j)
      PROVE  \/ owned'[k] \subseteq owned[k]
             \/ \E x \in owned[k] : \E y :
                   owned'[k] = (owned[k] \ {x}) \cup {y} /\ y.name = x.name
  <2>1. PICK o \in List(j) :
           \/ /\ o \in owned[j]
              /\ Write(j, (owned[j] \ {o}) \cup {[o EXCEPT !.drift = FALSE]})
           \/ UNCHANGED owned
    BY <1>7 DEF RepairOwned
  <2>2. o \in Object
    BY ListType
  <2>3. [o EXCEPT !.drift = FALSE].name = o.name
    BY <2>2 DEF Object
  <2> QED
    BY <2>1, <2>3, <1>3
<1>8. CASE UpdateDeployment
  <2>1. PICK o \in List("dep") :
           \/ /\ o \in owned["dep"]
              /\ Write("dep", (owned["dep"] \ {o}) \cup {Corrected(o)})
           \/ UNCHANGED owned
    BY <1>8 DEF UpdateDeployment
  <2>2. o \in Object
    BY ListType DEF Kinds
  <2>3. Corrected(o).name = o.name
    BY <2>2 DEF Object, Corrected
  <2> QED
    BY <2>1, <2>3, <1>3 DEF Kinds
<1>9. CASE DeleteBindings \/ DeleteRoles
  <2>1. PICK j \in {"crb", "cr"} : Delete(j, Listed(j))
    BY <1>9 DEF DeleteBindings, DeleteRoles
  <2> QED
    BY <2>1, <1>2 DEF Delete, Kinds
<1>10. CASE PartialDelete
  <2>1. PICK j \in {"crb", "cr"} : \E done \in SUBSET Listed(j) : Write(j, owned[j] \ done)
    BY <1>10 DEF PartialDelete
  <2> QED
    BY <2>1, <1>2 DEF Kinds
<1>11. CASE DeploymentController
  <2>1. PICK o \in owned["dep"] :
           Write("dep", (owned["dep"] \ {o}) \cup {[o EXCEPT !.pods = NextPods(o)]})
    BY <1>11 DEF DeploymentController
  <2>2. o \in Object
    BY DEF TypeOK, Kinds
  <2>3. [o EXCEPT !.pods = NextPods(o)].name = o.name
    BY <2>2 DEF Object
  <2> QED
    BY <2>1, <2>3, <1>3 DEF Kinds
<1>12. CASE GarbageCollect
  BY <1>12, <1>2 DEF GarbageCollect, Namespaced, Kinds
<1>13. CASE LoseOwned
  <2>1. PICK j \in Kinds : \E o \in owned[j] : Write(j, owned[j] \ {o})
    BY <1>13 DEF LoseOwned
  <2> QED
    BY <2>1, <1>2
<1>14. CASE EditOwned
  <2>1. PICK j \in Kinds : \E o \in owned[j] : \E new \in
          {[o EXCEPT !.drift = TRUE]} \cup
          (IF j = "dep" THEN {[o EXCEPT !.on = ~@], [o EXCEPT !.env = NoEnv]} ELSE {}) :
          Write(j, (owned[j] \ {o}) \cup {new})
    BY <1>14, Zenon DEF EditOwned
  <2>2. PICK o \in owned[j] : \E new \in
          {[o EXCEPT !.drift = TRUE], [o EXCEPT !.on = ~o.on], [o EXCEPT !.env = NoEnv]} :
          Write(j, (owned[j] \ {o}) \cup {new})
    BY <2>1
  <2>3. PICK new \in
          {[o EXCEPT !.drift = TRUE], [o EXCEPT !.on = ~o.on], [o EXCEPT !.env = NoEnv]} :
          Write(j, (owned[j] \ {o}) \cup {new})
    BY <2>2
  <2>4. new.name = o.name
    <3>1. o \in Object
      BY DEF TypeOK
    <3> QED
      BY <2>3, <3>1 DEF Object
  <2> QED
    BY <2>3, <2>4, <1>3
<1>15. CASE PodFails
  <2>1. PICK o \in owned["dep"] :
           Write("dep", (owned["dep"] \ {o}) \cup {[o EXCEPT !.pods = "starting"]})
    BY <1>15 DEF PodFails
  <2>2. o \in Object
    BY DEF TypeOK, Kinds
  <2>3. [o EXCEPT !.pods = "starting"].name = o.name
    BY <2>2 DEF Object
  <2> QED
    BY <2>1, <2>3, <1>3 DEF Kinds
<1>16. \/ UNCHANGED owned
       \/ \E j \in Kinds \ {"dep"} : CreateOwned(j) \/ RepairOwned(j)
       \/ CreateDeployment \/ UpdateDeployment \/ DeleteBindings \/ DeleteRoles
       \/ PartialDelete \/ DeploymentController \/ GarbageCollect
       \/ LoseOwned \/ EditOwned \/ PodFails
  BY DEF Next, Reconcile, Take, GetNotFound, WaitForGracePeriod, StartCleanup,
         AddFinalizers, MarkScheduled, StartProvisioning, UpdateAndReturn,
         updateStatus, ReadDataPlane, ensureDataPlaneConfiguration, FoundSeveral,
         CANotFound, HaveOwned, CheckReadiness, APIError, Restart,
         DeliverControlPlane, DeliverOwned, Resync, GraceExpires, TimerFires,
         CreateCA, EditControlPlane, ServiceChanges
<1> QED
  BY <1>1, <1>5, <1>6, <1>7, <1>8, <1>9, <1>10, <1>11, <1>12, <1>13, <1>14, <1>15,
     <1>16

\* The reconciler never owns two Deployments, or two objects of any other kind
\* that the manager's client lists from the API server.
THEOREM NoDuplicateLive == Spec => []AtMostOneLive
<1>1. Init => AtMostOneLive
  BY DEF Init, AtMostOneLive, MoreThanOne
<1>2. TypeOK /\ AtMostOneLive /\ [Next]_vars => AtMostOneLive'
  <2> SUFFICES ASSUME TypeOK, AtMostOneLive, [Next]_vars,
                      NEW k \in Kinds \ CachedKinds
               PROVE  ~MoreThanOne(owned'[k])
    BY DEF AtMostOneLive
  <2>a. ~MoreThanOne(owned[k]) /\ List(k) = owned[k]
    BY DEF AtMostOneLive, List
  <2>1. CASE UNCHANGED vars
    BY <2>1, <2>a DEF vars
  <2>2. CASE Next
    BY <2>2, <2>a, OwnedStep DEF MoreThanOne
  <2> QED
    BY <2>1, <2>2
<1> QED
  BY <1>1, <1>2, TypeCorrect, PTL DEF Spec

-----------------------------------------------------------------------------
(* A second object of a cached kind comes from a stale cache *)

\* Apart from deliveries and restarts a step leaves the cache alone, and what it
\* does to owned objects is a write of one kind, which announces its event.
LEMMA StepWrites ==
    ASSUME TypeOK, Next
    PROVE  \/ owned' = owned /\ cache' = cache /\ pending \subseteq pending'
           \/ cache' = cache /\ \E j \in Kinds : \E S : Write(j, S)
           \/ DeliverControlPlane \/ (\E j \in Kinds : DeliverOwned(j)) \/ Restart
<1> USE DEF objectVars, cacheVars
<1>1. ASSUME NEW j \in Kinds \ {"dep"}, CreateOwned(j) \/ RepairOwned(j)
      PROVE  cache' = cache /\ (UNCHANGED <<owned, pending>> \/ \E S : Write(j, S))
  BY <1>1 DEF CreateOwned, RepairOwned
<1>2. CASE CreateDeployment \/ UpdateDeployment \/ DeploymentController \/ PodFails
  <2>1. cache' = cache /\ (UNCHANGED <<owned, pending>> \/ \E S : Write("dep", S))
    BY <1>2 DEF CreateDeployment, UpdateDeployment, DeploymentController, PodFails, Edit
  <2> QED
    BY <2>1 DEF Kinds
<1>3. CASE DeleteBindings \/ DeleteRoles \/ PartialDelete
  <2>1. /\ cache' = cache
        /\ UNCHANGED <<owned, pending>> \/ \E j \in {"cr", "crb"} : \E S : Write(j, S)
    BY <1>3 DEF DeleteBindings, DeleteRoles, PartialDelete, Delete
  <2> QED
    BY <2>1 DEF Kinds
<1>4. CASE GarbageCollect \/ LoseOwned \/ EditOwned
  <2>1. \E j \in Kinds : \E S : Write(j, S)
    BY <1>4, Zenon DEF GarbageCollect, LoseOwned, EditOwned, Namespaced, Kinds
  <2>2. cache' = cache
    BY <1>4 DEF GarbageCollect, LoseOwned, EditOwned, Edit
  <2> QED
    BY <2>1, <2>2
<1>5. CASE \/ UpdateAndReturn \/ updateStatus \/ ensureDataPlaneConfiguration
           \/ EditControlPlane
  BY <1>5 DEF UpdateAndReturn, updateStatus, ensureDataPlaneConfiguration,
              EditControlPlane, UserWrites, WriteCP, Edit
<1>6. \/ UNCHANGED <<owned, cache, pending>>
      \/ \E j \in Kinds \ {"dep"} : CreateOwned(j) \/ RepairOwned(j)
      \/ CreateDeployment \/ UpdateDeployment \/ DeploymentController \/ PodFails
      \/ DeleteBindings \/ DeleteRoles \/ PartialDelete
      \/ GarbageCollect \/ LoseOwned \/ EditOwned
      \/ UpdateAndReturn \/ updateStatus \/ ensureDataPlaneConfiguration
      \/ EditControlPlane
      \/ DeliverControlPlane \/ (\E j \in Kinds : DeliverOwned(j)) \/ Restart
  BY DEF Next, Reconcile, Take, GetNotFound, WaitForGracePeriod, StartCleanup,
         AddFinalizers, MarkScheduled, StartProvisioning, ReadDataPlane, FoundSeveral,
         CANotFound, HaveOwned, CheckReadiness, APIError, Resync, GraceExpires,
         TimerFires, CreateCA, ServiceChanges, Edit
<1> QED
  BY <1>1, <1>2, <1>3, <1>4, <1>5, <1>6

\* Where no event is on its way, the cache is what is stored.
CacheCurrent == \A k \in CachedKinds : k \notin pending => cache[k] = owned[k]

LEMMA CacheStep ==
    ASSUME TypeOK, CacheCurrent, Next
    PROVE  CacheCurrent'
<1> SUFFICES ASSUME NEW k \in CachedKinds, k \notin pending'
             PROVE  cache'[k] = owned'[k]
  BY DEF CacheCurrent
<1>a. k \in Kinds /\ k # "cp"
  BY ConstantsAssumption DEF Kinds
<1>b. k \notin pending => cache[k] = owned[k]
  BY DEF CacheCurrent
<1>1. CASE owned' = owned /\ cache' = cache /\ pending \subseteq pending'
  BY <1>1, <1>b
<1>2. ASSUME cache' = cache, NEW j \in Kinds, NEW S, Write(j, S)
      PROVE  cache'[k] = owned'[k]
  <2>1. pending' = pending \cup {j}
    BY <1>2 DEF Write
  <2>2. owned'[k] = owned[k]
    BY <1>2, <1>a, <2>1, WriteOwned
  <2> QED
    BY <1>2, <1>b, <2>1, <2>2
<1>3. CASE DeliverControlPlane
  BY <1>3, <1>a, <1>b DEF DeliverControlPlane, objectVars
<1>4. ASSUME NEW j \in Kinds, DeliverOwned(j)
      PROVE  cache'[k] = owned'[k]
  <2>1. owned' = owned /\ pending' = pending \ {j}
        /\ cache' = IF j \in CachedKinds THEN [cache EXCEPT ![j] = owned[j]] ELSE cache
    BY <1>4 DEF DeliverOwned, objectVars
  <2>2. cache \in [Kinds -> SUBSET Object]
    BY DEF TypeOK
  <2> QED
    BY <1>a, <1>b, <2>1, <2>2
<1>5. CASE Restart
  BY <1>5, <1>a DEF Restart, objectVars
<1> QED
  BY <1>1, <1>2, <1>3, <1>4, <1>5, StepWrites

LEMMA CacheInvariant == Spec => []CacheCurrent
<1>1. Init => CacheCurrent
  BY ConstantsAssumption DEF Init, CacheCurrent, Kinds
<1>2. TypeOK /\ CacheCurrent /\ [Next]_vars => CacheCurrent'
  <2>1. ASSUME CacheCurrent, UNCHANGED vars
        PROVE  CacheCurrent'
    BY <2>1 DEF CacheCurrent, vars
  <2> QED
    BY <2>1, CacheStep
<1> QED
  BY <1>1, <1>2, TypeCorrect, PTL DEF Spec

\* A second object of a kind is created only while the first is not in the cache
\* that the reconciler lists; never of a kind that it lists from the API server.
THEOREM DuplicatesFromStaleCache == Spec => DuplicatesOnlyFromStaleCache
<1>1. TypeOK /\ CacheCurrent /\ [Next]_vars
         => [\A k \in Kinds :
               owned[k] # {} /\ ~(NamesOf(owned'[k]) \subseteq NamesOf(owned[k]))
                  => k \in pending /\ k \in CachedKinds]_vars
  <2> SUFFICES ASSUME TypeOK, CacheCurrent, Next, NEW k \in Kinds, owned[k] # {},
                      ~(NamesOf(owned'[k]) \subseteq NamesOf(owned[k]))
               PROVE  k \in pending /\ k \in CachedKinds
    OBVIOUS
  <2>1. ~(owned'[k] \subseteq owned[k])
    BY DEF NamesOf
  <2>2. ASSUME NEW o \in owned[k], NEW new, new.name = o.name,
               owned'[k] = (owned[k] \ {o}) \cup {new}
        PROVE  FALSE
    BY <2>2 DEF NamesOf
  <2>3. List(k) = {}
    BY <2>1, <2>2, OwnedStep
  <2> QED
    BY <2>3 DEF List, CacheCurrent
<1> QED
  BY <1>1, TypeCorrect, CacheInvariant, PTL DEF Spec, DuplicatesOnlyFromStaleCache
=============================================================================
