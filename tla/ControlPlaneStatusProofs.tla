---------------------- MODULE ControlPlaneStatusProofs ----------------------
(***************************************************************************)
(* A theorem about the status conditions of ControlPlane: pods that are    *)
(* awaited are never reported Ready.                                       *)
(***************************************************************************)
EXTENDS ControlPlaneFinalizerProofs

\* A slice in which no condition contradicts Ready, but for the report that the
\* DataPlane is unset.
Allowed(conds) ==
    IsReady(conds) /\ ~areAllConditionsReady(conds) => conds[Provisioned] = DataPlaneNotSet

\* The report that the DataPlane is unset.
ReportsUnset(conds) ==
    HasCondition(conds, Provisioned) /\ conds[Provisioned] = DataPlaneNotSet

\* The stored conditions are allowed, and so are those that the worker is about to
\* store.  In between, from the Update whose reply brings back the stored Ready
\* on, the worker's copy may have a Ready that PodsNotReady contradicts; then its
\* DataPlane is set, and it stores no status before it has seen the pods ready.
StatusInv ==
    /\ Allowed(cp.conds)
    /\ w.pc \in Kinds => w.cp.dp \/ ReportsUnset(w.cp.conds)
    /\ w.pc = "status" => Allowed(w.cp.conds)

\* What the status helpers make of conditions.
LEMMA StatusHelpers ==
    ASSUME NEW conds \in Conds
    PROVE  /\ Allowed(ensureIsMarkedScheduled(InitReady(conds)))
           /\ Allowed(ensureIsMarkedProvisioned(conds))
           /\ ReportsUnset(conds) => Allowed(conds)
           /\ ReportsUnset(ensureDataPlaneStatus(FALSE, conds))
<1>1. Allowed(ensureIsMarkedScheduled(InitReady(conds)))
  <2>1. ~IsReady(ensureIsMarkedScheduled(InitReady(conds)))
    BY DEF ensureIsMarkedScheduled, InitReady, IsReady, IsValidCondition, HasCondition,
       SetCondition, ReadyType, Provisioned, NotReady, NewCondition
  <2> QED
    BY <2>1 DEF Allowed
<1>2. Allowed(ensureIsMarkedProvisioned(conds))
  <2>1. ASSUME NEW cs
        PROVE  IsReady(SetReady(cs)) => areAllConditionsReady(SetReady(cs))
    BY DEF SetReady, SetCondition, IsReady, IsValidCondition, HasCondition,
       areAllConditionsReady, ReadyType, NotReady, NewCondition
  <2> QED
    BY <2>1 DEF Allowed, ensureIsMarkedProvisioned
<1>3. ReportsUnset(conds) => Allowed(conds)
  BY DEF ReportsUnset, Allowed
<1>4. ReportsUnset(ensureDataPlaneStatus(FALSE, conds))
  <2>1. CASE /\ HasCondition(conds, Provisioned)
             /\ conds[Provisioned].status = DataPlaneNotSet.status
             /\ conds[Provisioned].reason = DataPlaneNotSet.reason
    <3>1. PICK present \in SUBSET {Provisioned, ReadyType} :
              conds \in [present -> ConditionValues]
      BY DEF Conds, ConditionsOver
    <3>2. conds[Provisioned] \in ConditionValues
      BY <2>1, <3>1 DEF HasCondition
    <3>3. /\ NotReady.reason # DataPlaneNotSet.reason
          /\ ResourceReady.reason # DataPlaneNotSet.reason
          /\ Scheduled.reason # DataPlaneNotSet.reason
          /\ DataPlaneWasSet.reason # DataPlaneNotSet.reason
          /\ PodsReady.reason # DataPlaneNotSet.reason
      BY DEF NotReady, ResourceReady, Scheduled, DataPlaneWasSet, DataPlaneNotSet, PodsReady,
         NewCondition
    <3>4. conds[Provisioned] = DataPlaneNotSet
      BY <2>1, <3>2, <3>3, Zenon DEF ConditionValues
    <3>5. ensureDataPlaneStatus(FALSE, conds) = conds
      BY <2>1, Zenon DEF ensureDataPlaneStatus
    <3> QED
      BY <2>1, <3>4, <3>5 DEF ReportsUnset
  <2>2. CASE ~(/\ HasCondition(conds, Provisioned)
               /\ conds[Provisioned].status = DataPlaneNotSet.status
               /\ conds[Provisioned].reason = DataPlaneNotSet.reason)
    <3>1. ensureDataPlaneStatus(FALSE, conds)
             = SetCondition(conds, Provisioned, DataPlaneNotSet)
      BY <2>2 DEF ensureDataPlaneStatus
    <3> QED
      BY <3>1 DEF SetCondition, ReportsUnset, HasCondition
  <2> QED
    BY <2>1, <2>2
<1> QED
  BY <1>1, <1>2, <1>3, <1>4

\* What the copy reports once ensureDataPlaneStatus has looked at it.
LEMMA DataPlaneReported ==
    ASSUME NEW c \in ControlPlaneResource
    PROVE  LET new == WithDataPlaneStatus(c)
           IN  /\ new \in ControlPlaneResource
               /\ new.dp \/ ReportsUnset(new.conds)
<1> DEFINE conds == ensureDataPlaneStatus(c.dp, c.conds)
<1>1. c.conds \in Conds /\ c.dp \in BOOLEAN
  BY DEF ControlPlaneResource
<1>2. conds \in Conds /\ (c.dp \/ ReportsUnset(conds))
  BY <1>1, StatusTypes, StatusHelpers
<1>3. WithDataPlaneStatus(c) = [c EXCEPT !.conds = conds]
  BY DEF WithDataPlaneStatus
<1> HIDE DEF conds
<1>4. /\ WithDataPlaneStatus(c) \in ControlPlaneResource
      /\ WithDataPlaneStatus(c).dp = c.dp /\ WithDataPlaneStatus(c).conds = conds
  BY <1>2, <1>3 DEF ControlPlaneResource
<1> QED
  BY <1>2, <1>4

\* Storing the ControlPlane leaves its conditions alone.
LEMMA StoredConditions ==
    ASSUME NEW c \in ControlPlaneResource
    PROVE  Stored(c).conds = c.conds
<1> DEFINE alive == c.alive /\ ~(c.deleted /\ c.fins = {})
<1>1. Stored(c) = [c EXCEPT !.alive = alive]
  BY DEF Stored
<1> HIDE DEF alive
<1> QED
  BY <1>1 DEF ControlPlaneResource

\* The ways in which StatusInv is kept: by an idle worker, by one that holds what
\* it held, by one that is not about the status, by one that reports.
LEMMA KeepsStatus ==
    ASSUME TypeOK, StatusInv, cp'.conds = cp.conds,
           \/ w' = Idle
           \/ w'.pc = w.pc /\ w'.cp = w.cp
           \/ w.pc \in Kinds /\ w'.pc \in Kinds /\ w'.cp = w.cp
           \/ w'.pc \notin Kinds \cup {"status"}
           \/ w'.pc \in Kinds /\ (w'.cp.dp \/ ReportsUnset(w'.cp.conds))
           \/ w'.pc = "status" /\ Allowed(w'.cp.conds)
    PROVE  StatusInv'
<1>1. Idle.pc = "idle" /\ "idle" \notin Kinds \cup {"status"} /\ "status" \notin Kinds
  BY DEF Idle, Kinds
<1> QED
  BY <1>1 DEF StatusInv

\* The first steps of a pass.
LEMMA StatusTake ==
    ASSUME TypeOK, StatusInv,
           \/ GetNotFound \/ WaitForGracePeriod \/ StartCleanup
           \/ AddFinalizers \/ MarkScheduled \/ StartProvisioning
    PROVE  StatusInv'
<1>1. CASE GetNotFound \/ WaitForGracePeriod
  BY <1>1, KeepsStatus DEF GetNotFound, WaitForGracePeriod, Take, objectVars
<1>2. CASE StartCleanup
  <2>1. w'.pc = "delcrb" /\ cp' = cp
    BY <1>2, HoldMoves DEF StartCleanup, Take, objectVars, Steps, TypeOK
  <2> QED
    BY <2>1, KeepsStatus DEF Kinds
<1>3. CASE AddFinalizers
  <2>1. [cpSeen EXCEPT !.fins = Finalizers] \in ControlPlaneResource
    BY DEF TypeOK, ControlPlaneResource
  <2>2. w'.pc = "update" /\ cp' = cp
    BY <1>3, <2>1, HoldMoves DEF AddFinalizers, Take, objectVars, Steps
  <2> QED
    BY <2>2, KeepsStatus DEF Kinds
<1>4. CASE MarkScheduled
  <2> DEFINE conds == ensureIsMarkedScheduled(InitReady(cpSeen.conds))
             copy == [cpSeen EXCEPT !.conds = conds]
  <2>1. cpSeen \in ControlPlaneResource /\ cpSeen.conds \in Conds
    BY DEF TypeOK, ControlPlaneResource
  <2>2. conds \in Conds /\ Allowed(conds)
    BY <2>1, StatusTypes, StatusHelpers
  <2>3. Hold("status", copy) /\ cp' = cp
    BY <1>4 DEF MarkScheduled, Take, objectVars
  <2> HIDE DEF conds
  <2>4. copy \in ControlPlaneResource /\ copy.conds = conds
    BY <2>1, <2>2 DEF ControlPlaneResource
  <2> HIDE DEF copy
  <2>5. w'.pc = "status" /\ w'.cp = copy
    BY <2>3, <2>4, HoldMoves DEF Steps
  <2> QED
    BY <2>2, <2>3, <2>4, <2>5, KeepsStatus
<1>5. CASE StartProvisioning
  <2> DEFINE conds == InitReady(cpSeen.conds)
             copy == [cpSeen EXCEPT !.conds = conds]
  <2>1. cpSeen \in ControlPlaneResource /\ cpSeen.conds \in Conds
    BY DEF TypeOK, ControlPlaneResource
  <2>2. conds \in Conds
    BY <2>1, StatusTypes
  <2>3. Hold("dataplane", copy) /\ cp' = cp
    BY <1>5 DEF StartProvisioning, Take, objectVars
  <2> HIDE DEF conds
  <2>4. copy \in ControlPlaneResource
    BY <2>1, <2>2 DEF ControlPlaneResource
  <2> HIDE DEF copy
  <2>5. w'.pc = "dataplane"
    BY <2>3, <2>4, HoldMoves DEF Steps
  <2> QED
    BY <2>3, <2>5, KeepsStatus DEF Kinds
<1> QED
  BY <1>1, <1>2, <1>3, <1>4, <1>5

\* The writes of the ControlPlane by Reconcile, and the read of its DataPlane.
LEMMA StatusUpdate ==
    ASSUME TypeOK, StatusInv,
           \/ UpdateAndReturn \/ updateStatus \/ ReadDataPlane
           \/ ensureDataPlaneConfiguration
    PROVE  StatusInv'
<1>a. /\ cp \in ControlPlaneResource /\ w.cp \in ControlPlaneResource
      /\ w.cp.dp \in BOOLEAN /\ w.cp.env \in Env /\ w.cp.conds \in Conds
      /\ w.cp.fins \subseteq Finalizers /\ cp.conds \in Conds
  BY DEF TypeOK, Worker, ControlPlaneResource
<1>b. {"update", "config", "sa"} \subseteq Steps /\ "sa" \in Kinds
  BY DEF Steps, Kinds
<1>1. CASE UpdateAndReturn
  <2> DEFINE new == [cp EXCEPT !.fins = w.cp.fins, !.env = w.cp.env]
  <2>1. new \in ControlPlaneResource /\ new.conds = cp.conds
    BY <1>a DEF ControlPlaneResource
  <2>2. w' = Idle /\ (cp' = cp \/ cp' = Stored(new))
    BY <1>1, WorkerMoves DEF UpdateAndReturn, WriteCP
  <2> HIDE DEF new
  <2> QED
    BY <2>1, <2>2, StoredConditions, KeepsStatus
<1>2. CASE updateStatus
  <2>1. w' = Idle /\ w.pc = "status"
        /\ (cp' = cp \/ cp' = [cp EXCEPT !.conds = w.cp.conds])
    BY <1>2, WorkerMoves DEF updateStatus, WriteCP
  <2>2. cp'.conds = cp.conds \/ cp'.conds = w.cp.conds
    BY <1>a, <2>1 DEF ControlPlaneResource
  <2>3. Allowed(cp'.conds)
    BY <2>1, <2>2 DEF StatusInv
  <2>4. w'.pc \notin Kinds \cup {"status"}
    BY <2>1 DEF Idle, Kinds
  <2> QED
    BY <2>3, <2>4 DEF StatusInv
<1>3. CASE ReadDataPlane
  <2> DEFINE service == IF w.cp.dp THEN svc ELSE NoService
             defaulted == setControlPlaneDefaults(w.cp.env, service)
             changed == setControlPlaneEnvOnDataPlaneChange(w.cp.dp, w.cp.env, service)
  <2>1. service \in ServiceNames
    BY DEF TypeOK, ServiceNames
  <2>2. defaulted \in Env /\ changed \in Env
    BY <1>a, <2>1, EnvTypes
  <2>3. /\ \/ Return(TRUE)
           \/ Goto("update", [w.cp EXCEPT !.env = defaulted])
           \/ Goto("config", [w.cp EXCEPT !.env = changed])
           \/ Goto("sa", WithDataPlaneStatus(w.cp))
        /\ UNCHANGED objectVars
    BY <1>3, Zenon DEF ReadDataPlane
  <2> HIDE DEF service, defaulted, changed
  <2>4. [w.cp EXCEPT !.env = defaulted] \in ControlPlaneResource
        /\ [w.cp EXCEPT !.env = changed] \in ControlPlaneResource
    BY <1>a, <2>2 DEF ControlPlaneResource
  <2>5. /\ WithDataPlaneStatus(w.cp) \in ControlPlaneResource
        /\ WithDataPlaneStatus(w.cp).dp \/ ReportsUnset(WithDataPlaneStatus(w.cp).conds)
    BY <1>a, DataPlaneReported
  <2>6. \/ w' = Idle
        \/ w'.pc \in {"update", "config"}
        \/ w'.pc = "sa" /\ w'.cp = WithDataPlaneStatus(w.cp)
    BY <1>b, <2>3, <2>4, <2>5, WorkerMoves
  <2>7. \/ w' = Idle
        \/ w'.pc \notin Kinds \cup {"status"}
        \/ w'.pc \in Kinds /\ (w'.cp.dp \/ ReportsUnset(w'.cp.conds))
    BY <2>5, <2>6 DEF Kinds
  <2> QED
    BY <2>3, <2>7, KeepsStatus DEF objectVars
<1>4. CASE ensureDataPlaneConfiguration
  <2> DEFINE copy == [w.cp EXCEPT !.conds = cp.conds]
  <2>1. copy \in ControlPlaneResource
    BY <1>a DEF ControlPlaneResource
  <2>2. \/ Return(TRUE) /\ UNCHANGED cp
        \/ cp' = [cp EXCEPT !.env = w.cp.env] /\ Goto("sa", WithDataPlaneStatus(copy))
    BY <1>4 DEF ensureDataPlaneConfiguration, WriteCP
  <2> HIDE DEF copy
  <2>3. cp'.conds = cp.conds
    BY <1>a, <2>2 DEF ControlPlaneResource
  <2>4. /\ WithDataPlaneStatus(copy) \in ControlPlaneResource
        /\ WithDataPlaneStatus(copy).dp \/ ReportsUnset(WithDataPlaneStatus(copy).conds)
    BY <2>1, DataPlaneReported
  <2>5. w' = Idle \/ (w'.pc = "sa" /\ w'.cp = WithDataPlaneStatus(copy))
    BY <1>b, <2>2, <2>4, WorkerMoves
  <2> QED
    BY <1>b, <2>3, <2>4, <2>5, KeepsStatus
<1> QED
  BY <1>1, <1>2, <1>3, <1>4

\* The work on the owned objects.
LEMMA StatusOwned ==
    ASSUME TypeOK, StatusInv,
           \/ \E k \in Kinds : FoundSeveral(k)
           \/ CANotFound
           \/ \E k \in Kinds \ {"dep"} : CreateOwned(k) \/ RepairOwned(k) \/ HaveOwned(k)
           \/ CreateDeployment \/ UpdateDeployment \/ CheckReadiness
           \/ DeleteBindings \/ DeleteRoles
    PROVE  StatusInv'
<1> USE DEF objectVars
<1>a. w.cp \in ControlPlaneResource /\ w.cp.conds \in Conds /\ w.cp.dp \in BOOLEAN
  BY DEF TypeOK, Worker, ControlPlaneResource
<1>b. "status" \in Steps /\ "dep" \in Kinds
  BY DEF Steps, Kinds
<1>c. cp' = cp
  BY DEF FoundSeveral, CANotFound, CreateOwned, RepairOwned, HaveOwned, CreateDeployment,
     UpdateDeployment, CheckReadiness, DeleteBindings, DeleteRoles
<1>d. ASSUME DeploymentChanged, w.pc = "dep"
      PROVE  StatusInv'
  <2>1. CASE w.cp.dp
    BY <1>c, <1>d, <2>1, WorkerMoves, KeepsStatus DEF DeploymentChanged
  <2>2. CASE ~w.cp.dp
    <3>1. w'.pc = "status" /\ w'.cp = w.cp
      BY <1>a, <1>b, <1>d, <2>2, WorkerMoves DEF DeploymentChanged
    <3>2. Allowed(w.cp.conds)
      BY <1>a, <1>b, <1>d, <2>2, StatusHelpers DEF StatusInv
    <3> QED
      BY <1>c, <3>1, <3>2, KeepsStatus
  <2> QED
    BY <2>1, <2>2
<1>e. ASSUME NEW b \in BOOLEAN, Return(b)
      PROVE  StatusInv'
  BY <1>c, <1>e, WorkerMoves, KeepsStatus
<1>1. CASE \/ \E k \in Kinds : FoundSeveral(k)
           \/ CANotFound
           \/ \E k \in Kinds \ {"dep"} : CreateOwned(k) \/ RepairOwned(k)
  BY <1>1, <1>e DEF FoundSeveral, CANotFound, CreateOwned, RepairOwned
<1>2. ASSUME NEW k \in Kinds \ {"dep"}, HaveOwned(k)
      PROVE  StatusInv'
  <2>1. PICK o \in List(k) : w' = [w EXCEPT !.pc = NextStep[k], !.held[k] = o.name]
    BY <1>2 DEF HaveOwned
  <2>2. w'.pc = NextStep[k] /\ w'.cp = w.cp /\ w.pc = k
    BY <1>2, <2>1 DEF HaveOwned, TypeOK, Worker
  <2>3. NextStep[k] \in Kinds
    BY DEF NextStep, Kinds
  <2> QED
    BY <1>c, <2>2, <2>3, KeepsStatus
<1>3. CASE CreateDeployment \/ UpdateDeployment
  BY <1>3, <1>d, <1>e DEF CreateDeployment, UpdateDeployment
<1>4. CASE CheckReadiness
  <2> DEFINE conds == ensureIsMarkedProvisioned(w.cp.conds)
             copy == [w.cp EXCEPT !.conds = conds]
  <2>1. conds \in Conds /\ Allowed(conds)
    BY <1>a, StatusTypes, StatusHelpers
  <2>2. Goto("status", copy) \/ Return(FALSE)
    BY <1>4 DEF CheckReadiness
  <2> HIDE DEF conds
  <2>3. copy \in ControlPlaneResource /\ copy.conds = conds
    BY <1>a, <2>1 DEF ControlPlaneResource
  <2> HIDE DEF copy
  <2>4. Goto("status", copy) => w'.pc = "status" /\ w'.cp = copy
    BY <1>b, <2>3, WorkerMoves
  <2> QED
    BY <1>c, <1>e, <2>1, <2>2, <2>3, <2>4, KeepsStatus
<1>5. CASE DeleteBindings \/ DeleteRoles
  <2>1. \/ \E k \in Finalizers : Goto("update", WithoutFinalizer(k))
        \/ Goto("delcr", w.cp)
        \/ Return(FALSE)
    BY <1>5 DEF DeleteBindings, DeleteRoles, Finalizers
  <2>2. \A k \in Finalizers : WithoutFinalizer(k) \in ControlPlaneResource
    BY <1>a DEF ControlPlaneResource, WithoutFinalizer
  <2>3. {"update", "delcr"} \subseteq Steps
    BY DEF Steps
  <2>4. w'.pc \in {"update", "delcr"} \/ Return(FALSE)
    BY <1>a, <2>1, <2>2, <2>3, WorkerMoves
  <2> QED
    BY <1>c, <1>e, <2>4, KeepsStatus DEF Kinds
<1> QED
  BY <1>1, <1>2, <1>3, <1>4, <1>5

\* Everybody else.
LEMMA StatusOthers ==
    ASSUME TypeOK, StatusInv,
           \/ APIError \/ PartialDelete \/ Restart
           \/ DeliverControlPlane \/ (\E k \in Kinds : DeliverOwned(k))
           \/ Resync \/ GraceExpires \/ TimerFires \/ CreateCA
           \/ DeploymentController \/ GarbageCollect
           \/ EditControlPlane
           \/ LoseOwned \/ EditOwned \/ PodFails \/ ServiceChanges
    PROVE  StatusInv'
<1> USE DEF objectVars
<1>1. CASE APIError \/ PartialDelete \/ Restart
  <2>1. w' = Idle /\ cp' = cp
    BY <1>1, WorkerMoves DEF APIError, PartialDelete, Restart
  <2> QED
    BY <2>1, KeepsStatus
<1>2. CASE EditControlPlane
  <2>1. w'.pc = w.pc /\ w'.cp = w.cp
    BY <1>2, EditMoves
  <2>2. cp \in ControlPlaneResource /\ cp.env \in Env
    BY DEF TypeOK, ControlPlaneResource
  <2>3. PICK new \in ControlPlaneResource : cp' = Stored(new) /\ new.conds = cp.conds
    <3>1. CASE UserWrites([cp EXCEPT !.dp = ~@])
      <4> DEFINE dp == ~cp.dp
      <4>1. dp \in BOOLEAN /\ cp' = Stored([cp EXCEPT !.dp = dp])
        BY <3>1 DEF UserWrites, WriteCP
      <4> HIDE DEF dp
      <4> QED
        BY <2>2, <4>1 DEF ControlPlaneResource
    <3>2. ASSUME NEW s \in ServiceNames, UserWrites([cp EXCEPT !.env.service = s])
          PROVE  \E new \in ControlPlaneResource :
                    cp' = Stored(new) /\ new.conds = cp.conds
      <4> DEFINE new == [cp EXCEPT !.env.service = s]
      <4>1. new \in ControlPlaneResource /\ new.conds = cp.conds
        BY <2>2 DEF ControlPlaneResource, Env
      <4>2. cp' = Stored(new)
        BY <3>2 DEF UserWrites, WriteCP
      <4> HIDE DEF new
      <4> QED
        BY <4>1, <4>2
    <3>3. CASE UserWrites([cp EXCEPT !.deleted = TRUE])
      <4>1. [cp EXCEPT !.deleted = TRUE] \in ControlPlaneResource
            /\ [cp EXCEPT !.deleted = TRUE].conds = cp.conds
        BY <2>2 DEF ControlPlaneResource
      <4> QED
        BY <3>3, <4>1 DEF UserWrites, WriteCP
    <3> QED
      BY <1>2, <3>1, <3>2, <3>3 DEF EditControlPlane
  <2>4. cp'.conds = cp.conds
    BY <2>3, StoredConditions
  <2> QED
    BY <2>1, <2>4, KeepsStatus
<1>3. CASE \/ DeliverControlPlane \/ (\E k \in Kinds : DeliverOwned(k))
           \/ Resync \/ GraceExpires \/ TimerFires \/ CreateCA
           \/ DeploymentController \/ GarbageCollect
           \/ LoseOwned \/ EditOwned \/ PodFails \/ ServiceChanges
  <2>1. w' = w /\ cp' = cp
    BY <1>3 DEF DeliverControlPlane, DeliverOwned, Resync, GraceExpires, TimerFires, CreateCA,
       DeploymentController, GarbageCollect, LoseOwned, EditOwned, PodFails, ServiceChanges
  <2> QED
    BY <2>1, KeepsStatus
<1> QED
  BY <1>1, <1>2, <1>3

\* No stored Ready stands beside a condition that still waits for pods, although
\* the reply of an Update can bring a Ready back into the worker's copy that
\* InitReady had withdrawn: a copy with that contradiction is never stored.
THEOREM AwaitedNotReady == Spec => []AwaitedPodsNotReady
<1>1. Init => StatusInv
  <2> SUFFICES ASSUME Init PROVE StatusInv
    OBVIOUS
  <2>1. cp.conds = NoConditions /\ w = Idle
    BY DEF Init, NoControlPlane
  <2>2. ~IsReady(NoConditions)
    BY DEF NoConditions, IsReady, IsValidCondition, HasCondition
  <2>3. Idle.pc \notin Kinds \cup {"status"}
    BY DEF Idle, Kinds
  <2> QED
    BY <2>1, <2>2, <2>3 DEF StatusInv, Allowed
<1>2. TypeOK /\ StatusInv /\ [Next]_vars => StatusInv'
  <2> SUFFICES ASSUME TypeOK, StatusInv, [Next]_vars
               PROVE  StatusInv'
    OBVIOUS
  <2>1. CASE Next
    BY <2>1, StatusTake, StatusUpdate, StatusOwned, StatusOthers, Zenon DEF Next, Reconcile
  <2>2. CASE UNCHANGED vars
    BY <2>2 DEF vars, StatusInv
  <2> QED
    BY <2>1, <2>2
<1>3. TypeOK /\ StatusInv => AwaitedPodsNotReady
  <2> SUFFICES ASSUME TypeOK, StatusInv, IsReady(cp.conds),
                      HasCondition(cp.conds, Provisioned),
                      cp.conds[Provisioned].reason = "PodsNotReady"
               PROVE  FALSE
    BY DEF AwaitedPodsNotReady
  <2>1. PICK present \in SUBSET {Provisioned, ReadyType} :
            cp.conds \in [present -> ConditionValues]
    BY DEF TypeOK, ControlPlaneResource, Conds, ConditionsOver
  <2> DEFINE c == cp.conds[Provisioned]
  <2>2. c \in ConditionValues /\ c.reason = "PodsNotReady"
    BY <2>1 DEF HasCondition
  <2>3. c.status = "False"
    <3>1. /\ NotReady.status = "False" /\ Scheduled.status = "False"
          /\ DataPlaneWasSet.status = "False" /\ DataPlaneNotSet.status = "False"
          /\ ResourceReady.reason # "PodsNotReady" /\ PodsReady.reason # "PodsNotReady"
      BY DEF NotReady, ResourceReady, Scheduled, DataPlaneWasSet, DataPlaneNotSet,
         PodsReady, NewCondition
    <3> HIDE DEF c
    <3> QED
      BY <2>2, <3>1, Zenon DEF ConditionValues
  <2>4. ~areAllConditionsReady(cp.conds)
    BY <2>1, <2>3 DEF areAllConditionsReady, HasCondition, ReadyType, Provisioned
  <2>5. c = DataPlaneNotSet
    BY <2>4 DEF StatusInv, Allowed
  <2> HIDE DEF c
  <2> QED
    BY <2>2, <2>5 DEF DataPlaneNotSet, NewCondition
<1> QED
  BY <1>1, <1>2, <1>3, TypeCorrect, PTL DEF Spec
=============================================================================
