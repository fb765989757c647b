---------------------------- MODULE ControlPlane ----------------------------
(***************************************************************************)
(* The ControlPlane controller: ControlPlaneReconciler.Reconcile, run by   *)
(* its single controller-runtime worker for one ControlPlane resource,     *)
(* against the API server it writes to, the informer caches it reads from, *)
(* the users that edit what it owns and the Kubernetes controllers that    *)
(* react to it.                                                            *)
(*                                                                         *)
(* One step of the worker is one call to the API server together with the  *)
(* in-memory work around it; everybody else can act between two steps.  A  *)
(* list and the write it decides on are one step: the worker is the only   *)
(* creator of these objects, and an edit that comes between shows as a     *)
(* failed call (APIError).                                                 *)
(***************************************************************************)
EXTENDS Conditions, Integers

CONSTANTS
    Services,     \* names the DataPlane's Service can have
    NoService,    \* the empty Service name / an unset environment variable
    Names,        \* names the API server generates for owned objects
    NoName,
    CachedKinds,  \* the owned kinds that the client reads from informer caches
    MaxEdits,     \* bound: edits by users, pod failures and Service changes
    MaxFaults     \* bound: failed API calls and operator restarts

Finalizers == {"cr", "crb"}
Kinds == {"sa", "cr", "crb", "sec", "dep"}
Namespaced == {"sa", "sec", "dep"}

ASSUME ConstantsAssumption ==
    /\ NoService \notin Services
    /\ NoName \notin Names
    /\ CachedKinds \subseteq Kinds
    /\ MaxEdits \in Nat
    /\ MaxFaults \in Nat

VARIABLES
    cp,        \* the ControlPlane stored by the API server
    owned,     \* per kind, the stored objects labelled and owned by it
    cpSeen,    \* the ControlPlane in the informer cache
    cache,     \* per kind, the owned objects in the informer cache
    pending,   \* the kinds with watch events that are not delivered yet
    queued,    \* the ControlPlane's key is in the workqueue
    timer,     \* a RequeueAfter for the end of the grace period is running
    graceOver, \* the clock has passed the deletion timestamp
    w,         \* the worker: where it is in Reconcile and what it holds
    svc,       \* the name of the DataPlane's Service, NoService if not one
    ca,        \* the cluster CA Secret exists
    edits,     \* edits so far
    faults     \* faults so far

objectVars == <<cp, owned>>
cacheVars == <<cpSeen, cache>>
envVars == <<graceOver, svc, ca, edits, faults>>
vars == <<cp, owned, cpSeen, cache, pending, queued, timer, graceOver, w, svc,
          ca, edits, faults>>

-----------------------------------------------------------------------------
(* Data *)

ServiceNames == Services \cup {NoService}

\* Spec.Env: whether POD_NAMESPACE and POD_NAME come from the pod's metadata,
\* and the Service that CONTROLLER_PUBLISH_SERVICE and
\* CONTROLLER_KONG_ADMIN_URL are made from.
Env == [pod : BOOLEAN, service : ServiceNames]
NoEnv == [pod |-> FALSE, service |-> NoService]

Provisioned == "Provisioned"
Scheduled == NewCondition("False", "PodsNotReady", "scheduled for provisioning")
DataPlaneWasSet == NewCondition("False", "PodsNotReady", "DataPlane was set")
DataPlaneNotSet == NewCondition("False", "NoDataplane", "DataPlane is not set")
PodsReady == NewCondition("True", "PodsReady", "pods for all Deployments are ready")
ConditionValues ==
    {NotReady, ResourceReady, Scheduled, DataPlaneWasSet, DataPlaneNotSet, PodsReady}
Conds == ConditionsOver({Provisioned, ReadyType}, ConditionValues)

\* dp: Spec.DataPlane is set.
ControlPlaneResource ==
    [alive : BOOLEAN, deleted : BOOLEAN, fins : SUBSET Finalizers,
     dp : BOOLEAN, env : Env, conds : Conds]

\* uses: the objects named in the spec (a binding's subject and role, the
\* service account and certificate of a pod template).  drift: metadata (for a
\* Deployment also the containers or EnvFrom) that differs from the generated.
\* on, env and pods are a Deployment's replicas (0 or not), container
\* environment and status; other kinds keep the values of Plain.
PodStates == {"none", "starting", "ready"}
Object ==
    [name : Names, drift : BOOLEAN, uses : SUBSET (Kinds \X Names),
     on : BOOLEAN, env : Env, pods : PodStates]

Plain(n, uses) ==
    [name |-> n, drift |-> FALSE, uses |-> uses,
     on |-> FALSE, env |-> NoEnv, pods |-> "none"]

NamesOf(objects) == {o.name : o \in objects}
Named(objects, names) == {o \in objects : o.name \in names}
MoreThanOne(S) == \E x, y \in S : x # y

-----------------------------------------------------------------------------
(* Status management *)

ensureIsMarkedScheduled(conds) ==
    IF HasCondition(conds, Provisioned)
    THEN conds
    ELSE SetCondition(conds, Provisioned, Scheduled)

ensureIsMarkedProvisioned(conds) ==
    SetReady(SetCondition(conds, Provisioned, PodsReady))

\* Mutant: the two reports are swapped.
StatusSwapped(dp, conds) ==
    SetCondition(conds, Provisioned, IF dp THEN DataPlaneNotSet ELSE DataPlaneWasSet)

\* The message is not compared: a PodsNotReady condition keeps its own.
ensureDataPlaneStatus(dp, conds) ==
    LET new == IF dp THEN DataPlaneWasSet ELSE DataPlaneNotSet
    IN  IF /\ HasCondition(conds, Provisioned)
           /\ conds[Provisioned].status = new.status
           /\ conds[Provisioned].reason = new.reason
        THEN conds
        ELSE SetCondition(conds, Provisioned, new)

-----------------------------------------------------------------------------
(* Spec management.  The three TLS file variables that                     *)
(* setControlPlaneDefaults always rewrites are constant in the worker's    *)
(* copy from then on, and left out.                                        *)

setControlPlaneDefaults(env, service) ==
    [pod |-> TRUE,
     service |-> IF service = NoService THEN env.service ELSE service]

setControlPlaneEnvOnDataPlaneChange(dp, env, service) ==
    [env EXCEPT !.service = IF dp THEN service ELSE NoService]

-----------------------------------------------------------------------------
(* The workqueue and the worker *)

NoConditions == [t \in {} |-> NotReady]
NoControlPlane ==
    [alive |-> FALSE, deleted |-> FALSE, fins |-> {}, dp |-> FALSE,
     env |-> NoEnv, conds |-> NoConditions]

\* cp: the worker's copy of the ControlPlane.  stale: the copy's resource
\* version is not the stored one.  held: the owned objects found so far.
Steps == {"idle", "delcrb", "delcr", "update", "status", "dataplane", "config"}
             \cup Kinds
Worker ==
    [pc : Steps, cp : ControlPlaneResource, stale : BOOLEAN,
     held : [Kinds -> Names \cup {NoName}]]
Idle ==
    [pc |-> "idle", cp |-> NoControlPlane, stale |-> FALSE,
     held |-> [k \in Kinds |-> NoName]]

\* Reconcile returns; with an error, or Requeue set, the key is queued again.
\* The delay of the requeue is left out.
Return(requeue) ==
    /\ w' = Idle
    /\ queued' = (queued \/ requeue)

Goto(pc, copy) ==
    /\ w' = [w EXCEPT !.pc = pc, !.cp = copy]
    /\ UNCHANGED queued

\* What the client's List returns for an owned kind.
List(k) == IF k \in CachedKinds THEN cache[k] ELSE owned[k]

\* The server refuses the worker's Update: a conflict, or not found.
Refused == w.stale \/ ~cp.alive

\* An owned kind is written; its watch event is on the way.
Write(k, objects) ==
    /\ owned' = [owned EXCEPT ![k] = objects]
    /\ pending' = pending \cup {k}

\* The ControlPlane is written.
WriteCP(new) ==
    /\ cp' = new
    /\ pending' = pending \cup {"cp"}

\* Removing the last finalizer of a deleted resource removes the resource.
Stored(c) == [c EXCEPT !.alive = c.alive /\ ~(c.deleted /\ c.fins = {})]

-----------------------------------------------------------------------------
(* Reconcile: the first read and the branches it decides *)

\* The worker takes the key and gets the ControlPlane from the cache.
Take ==
    /\ w.pc = "idle"
    /\ queued
    /\ queued' = FALSE
    /\ UNCHANGED <<objectVars, cacheVars, pending, envVars>>

\* It goes on at step pc with copy c.
Hold(pc, c) ==
    /\ w' = [Idle EXCEPT !.pc = pc, !.cp = c, !.stale = ("cp" \in pending)]
    /\ UNCHANGED timer

GetNotFound ==
    /\ Take
    /\ ~cpSeen.alive
    /\ UNCHANGED <<w, timer>>

\* Mutant: RequeueAfter is forgotten.
WaitForever ==
    /\ Take
    /\ cpSeen.alive /\ cpSeen.deleted /\ ~graceOver
    /\ UNCHANGED <<w, timer>>

WaitForGracePeriod ==
    /\ Take
    /\ cpSeen.alive /\ cpSeen.deleted /\ ~graceOver
    /\ timer' = TRUE
    /\ UNCHANGED w

StartCleanup ==
    /\ Take
    /\ cpSeen.alive /\ cpSeen.deleted /\ graceOver
    /\ Hold("delcrb", cpSeen)

\* Mutant: the finalizers are set on the copy only.
FinalizersNotSaved ==
    /\ Take
    /\ cpSeen.alive /\ ~cpSeen.deleted /\ cpSeen.fins # Finalizers
    /\ Hold("dataplane", [cpSeen EXCEPT !.fins = Finalizers])

AddFinalizers ==
    /\ Take
    /\ cpSeen.alive /\ ~cpSeen.deleted /\ cpSeen.fins # Finalizers
    /\ Hold("update", [cpSeen EXCEPT !.fins = Finalizers])

MarkScheduled ==
    /\ Take
    /\ cpSeen.alive /\ ~cpSeen.deleted /\ cpSeen.fins = Finalizers
    /\ ~HasCondition(cpSeen.conds, Provisioned)
    /\ Hold("status", [cpSeen EXCEPT !.conds =
                          ensureIsMarkedScheduled(InitReady(@))])

\* Mutant: a deleted ControlPlane is provisioned too.
ProvisionDeleted ==
    /\ Take
    /\ cpSeen.alive /\ cpSeen.fins = Finalizers
    /\ HasCondition(cpSeen.conds, Provisioned)
    /\ Hold("dataplane", [cpSeen EXCEPT !.conds = InitReady(@)])

StartProvisioning ==
    /\ Take
    /\ cpSeen.alive /\ ~cpSeen.deleted /\ cpSeen.fins = Finalizers
    /\ HasCondition(cpSeen.conds, Provisioned)
    /\ Hold("dataplane", [cpSeen EXCEPT !.conds = InitReady(@)])

-----------------------------------------------------------------------------
(* Reconcile: writes of the ControlPlane itself *)

\* r.Client.Update and return: finalizers added or removed, defaults set.
UpdateAndReturn ==
    /\ w.pc = "update"
    /\ IF Refused
       THEN Return(TRUE) /\ UNCHANGED <<cp, pending>>
       ELSE /\ WriteCP(Stored([cp EXCEPT !.fins = w.cp.fins, !.env = w.cp.env]))
            /\ Return(FALSE)
    /\ UNCHANGED <<owned, cacheVars, timer, envVars>>

\* updateStatus and return.  The current conditions come from the cache.
updateStatus ==
    /\ w.pc = "status"
    /\ LET current == IF cpSeen.alive THEN cpSeen.conds ELSE NoConditions
       IN  IF ~NeedsUpdate(current, w.cp.conds)
           THEN Return(FALSE) /\ UNCHANGED <<cp, pending>>
           ELSE IF Refused
           THEN Return(TRUE) /\ UNCHANGED <<cp, pending>>
           ELSE WriteCP([cp EXCEPT !.conds = w.cp.conds]) /\ Return(FALSE)
    /\ UNCHANGED <<owned, cacheVars, timer, envVars>>

\* The copy once ensureDataPlaneStatus has looked at it.
WithDataPlaneStatus(c) == [c EXCEPT !.conds = ensureDataPlaneStatus(c.dp, @)]

\* GetDataPlaneForControlPlane, GetDataplaneServiceName and the defaults.
ReadDataPlane ==
    /\ w.pc = "dataplane"
    /\ LET service == IF w.cp.dp THEN svc ELSE NoService
           defaulted == setControlPlaneDefaults(w.cp.env, service)
           changed == setControlPlaneEnvOnDataPlaneChange(w.cp.dp, w.cp.env, service)
       IN  CASE w.cp.dp /\ svc = NoService ->
                  Return(TRUE)
             [] ~(w.cp.dp /\ svc = NoService) /\ defaulted # w.cp.env ->
                  Goto("update", [w.cp EXCEPT !.env = defaulted])
             [] ~(w.cp.dp /\ svc = NoService) /\ defaulted = w.cp.env
                  /\ changed # w.cp.env ->
                  Goto("config", [w.cp EXCEPT !.env = changed])
             [] OTHER ->
                  Goto("sa", WithDataPlaneStatus(w.cp))
    /\ UNCHANGED <<objectVars, cacheVars, pending, timer, envVars>>

\* ensureDataPlaneConfiguration with a change.  The reply of the Update is
\* decoded into the worker's copy, so the copy's conditions become the stored
\* ones: the Ready condition that InitReady had reset is lost.
ensureDataPlaneConfiguration ==
    /\ w.pc = "config"
    /\ IF Refused
       THEN Return(TRUE) /\ UNCHANGED <<cp, pending>>
       ELSE /\ WriteCP([cp EXCEPT !.env = w.cp.env])
            /\ Goto("sa", WithDataPlaneStatus([w.cp EXCEPT !.conds = cp.conds]))
    /\ UNCHANGED <<owned, cacheVars, timer, envVars>>

-----------------------------------------------------------------------------
(* Reconcile: owned objects *)

\* Mutant: no certificate is made for the Deployment.
NoCertificate ==
    [sa |-> "cr", cr |-> "crb", crb |-> "dep", sec |-> "dep", dep |-> "idle"]

NextStep == [sa |-> "cr", cr |-> "crb", crb |-> "sec", sec |-> "dep", dep |-> "idle"]

\* The names that the API server can generate for a new object of kind k.
Fresh(k) ==
    {n \in Names :
        /\ n \notin NamesOf(owned[k] \cup cache[k])
        /\ n # w.held[k]
        /\ \A o \in owned["crb"] \cup owned["dep"] : <<k, n>> \notin o.uses}
NewName(k) == CHOOSE n \in Fresh(k) : TRUE

\* What the generated object refers to.
Uses(k) ==
    CASE k = "crb" -> {<<"sa", w.held["sa"]>>, <<"cr", w.held["cr"]>>}
      [] k = "dep" -> {<<"sa", w.held["sa"]>>, <<"sec", w.held["sec"]>>}
      [] OTHER -> {}

\* "found %d ... currently unsupported: expected 1 or less"
FoundSeveral(k) ==
    /\ w.pc = k
    /\ MoreThanOne(List(k))
    /\ Return(TRUE)
    /\ UNCHANGED <<objectVars, cacheVars, pending, timer, envVars>>

\* Mutant: the missing CA is not reported as an error.
GiveUpWithoutCA ==
    /\ w.pc = "sec"
    /\ List("sec") = {} /\ ~ca
    /\ Return(FALSE)
    /\ UNCHANGED <<objectVars, cacheVars, pending, timer, envVars>>

\* No certificate yet, and the CA to sign one with is missing too.
CANotFound ==
    /\ w.pc = "sec"
    /\ List("sec") = {} /\ ~ca
    /\ Return(TRUE)
    /\ UNCHANGED <<objectVars, cacheVars, pending, timer, envVars>>

\* Mutant: one object of the kind does not count.
CreateAgain(k) ==
    /\ w.pc = k
    /\ ~MoreThanOne(List(k))
    /\ k = "sec" => ca
    /\ Fresh(k) # {}
    /\ Write(k, owned[k] \cup {Plain(NewName(k), Uses(k))})
    /\ Return(FALSE)
    /\ UNCHANGED <<cp, cacheVars, timer, envVars>>

CreateOwned(k) ==
    /\ w.pc = k
    /\ List(k) = {}
    /\ k = "sec" => ca
    /\ Fresh(k) # {}
    /\ Write(k, owned[k] \cup {Plain(NewName(k), Uses(k))})
    /\ Return(FALSE)
    /\ UNCHANGED <<cp, cacheVars, timer, envVars>>

\* EnsureObjectMetaIsUpdated found a difference; a cached object that has
\* changed in the meantime is a conflict.
RepairOwned(k) ==
    /\ w.pc = k
    /\ \E o \in List(k) :
          /\ List(k) = {o} /\ o.drift
          /\ IF o \in owned[k]
             THEN /\ Write(k, (owned[k] \ {o}) \cup {[o EXCEPT !.drift = FALSE]})
                  /\ Return(FALSE)
             ELSE Return(TRUE) /\ UNCHANGED <<owned, pending>>
    /\ UNCHANGED <<cp, cacheVars, timer, envVars>>

HaveOwned(k) ==
    /\ w.pc = k
    /\ \E o \in List(k) :
          /\ List(k) = {o} /\ ~o.drift
          /\ w' = [w EXCEPT !.pc = NextStep[k], !.held[k] = o.name]
    /\ UNCHANGED <<objectVars, cacheVars, pending, queued, timer, envVars>>

-----------------------------------------------------------------------------
(* Reconcile: ensureDeploymentForControlPlane and what follows it *)

\* After a create or an update: without a DataPlane the status is updated.
DeploymentChanged ==
    IF w.cp.dp THEN Return(FALSE) ELSE Goto("status", w.cp)

\* Mutant: one Deployment does not count.
CreateDeploymentAgain ==
    /\ w.pc = "dep"
    /\ ~MoreThanOne(List("dep"))
    /\ Fresh("dep") # {}
    /\ Write("dep", owned["dep"] \cup {Plain(NewName("dep"), Uses("dep"))})
    /\ DeploymentChanged
    /\ UNCHANGED <<cp, cacheVars, timer, envVars>>

CreateDeployment ==
    /\ w.pc = "dep"
    /\ List("dep") = {}
    /\ Fresh("dep") # {}
    /\ Write("dep", owned["dep"] \cup
             {[Plain(NewName("dep"), Uses("dep")) EXCEPT
                  !.on = w.cp.dp, !.env = w.cp.env]})
    /\ DeploymentChanged
    /\ UNCHANGED <<cp, cacheVars, timer, envVars>>

\* Mutant: replicas are left alone.
ReplicasKept(o) == [o EXCEPT !.drift = FALSE, !.env = w.cp.env]

\* Mutant: the environment is only set when the Deployment is scaled up.
EnvKept(o) ==
    [o EXCEPT !.drift = FALSE, !.on = w.cp.dp,
              !.env = IF w.cp.dp /\ ~o.on THEN w.cp.env ELSE @]

\* The Deployment with replicas, environment and metadata as they should be.
Corrected(o) == [o EXCEPT !.drift = FALSE, !.on = w.cp.dp, !.env = w.cp.env]

UpdateDeployment ==
    /\ w.pc = "dep"
    /\ \E o \in List("dep") :
          /\ List("dep") = {o} /\ Corrected(o) # o
          /\ IF o \in owned["dep"]
             THEN /\ Write("dep", (owned["dep"] \ {o}) \cup {Corrected(o)})
                  /\ DeploymentChanged
             ELSE Return(TRUE) /\ UNCHANGED <<owned, pending>>
    /\ UNCHANGED <<cp, cacheVars, timer, envVars>>

\* Nothing to change: mark the ControlPlane provisioned if the pods are ready,
\* return otherwise.
CheckReadiness ==
    /\ w.pc = "dep"
    /\ \E o \in List("dep") :
          /\ List("dep") = {o} /\ Corrected(o) = o
          /\ IF o.pods = "ready"
             THEN Goto("status",
                       [w.cp EXCEPT !.conds = ensureIsMarkedProvisioned(@)])
             ELSE Return(FALSE)
    /\ UNCHANGED <<objectVars, cacheVars, pending, timer, envVars>>

-----------------------------------------------------------------------------
(* Reconcile: cleanup of a deleted ControlPlane *)

\* The stored objects that the client's list names.
Listed(k) == Named(owned[k], NamesOf(List(k)))

WithoutFinalizer(k) == [w.cp EXCEPT !.fins = @ \ {k}]

\* A delete that finds nothing is no error, and leaves no event.
Delete(k, objects) ==
    IF objects = {} THEN UNCHANGED <<owned, pending>>
                    ELSE Write(k, owned[k] \ objects)

\* Mutant: one pass deletes both, before a finalizer is removed.
DeleteBothAtOnce ==
    /\ w.pc = "delcrb"
    /\ Delete("crb", Listed("crb"))
    /\ Goto("delcr", w.cp)
    /\ UNCHANGED <<cp, cacheVars, timer, envVars>>

DeleteBindings ==
    /\ w.pc = "delcrb"
    /\ Delete("crb", Listed("crb"))
    /\ IF "crb" \in w.cp.fins
       THEN Goto("update", WithoutFinalizer("crb"))
       ELSE Goto("delcr", w.cp)
    /\ UNCHANGED <<cp, cacheVars, timer, envVars>>

\* Mutant: the finalizer is removed, the roles are not.
RolesForgotten ==
    /\ w.pc = "delcr"
    /\ IF "cr" \in w.cp.fins
       THEN Goto("update", WithoutFinalizer("cr"))
       ELSE Return(FALSE)
    /\ UNCHANGED <<objectVars, cacheVars, pending, timer, envVars>>

DeleteRoles ==
    /\ w.pc = "delcr"
    /\ Delete("cr", Listed("cr"))
    /\ IF "cr" \in w.cp.fins
       THEN Goto("update", WithoutFinalizer("cr"))
       ELSE Return(FALSE)
    /\ UNCHANGED <<cp, cacheVars, timer, envVars>>

Reconcile ==
    \/ GetNotFound
    \/ WaitForGracePeriod
    \/ StartCleanup
    \/ AddFinalizers
    \/ MarkScheduled
    \/ StartProvisioning
    \/ UpdateAndReturn
    \/ updateStatus
    \/ ReadDataPlane
    \/ ensureDataPlaneConfiguration
    \/ \E k \in Kinds : FoundSeveral(k)
    \/ CANotFound
    \/ \E k \in Kinds \ {"dep"} : CreateOwned(k) \/ RepairOwned(k) \/ HaveOwned(k)
    \/ CreateDeployment
    \/ UpdateDeployment
    \/ CheckReadiness
    \/ DeleteBindings
    \/ DeleteRoles

-----------------------------------------------------------------------------
(* Failures of the API server's calls and of the operator *)

Fault ==
    /\ faults < MaxFaults
    /\ faults' = faults + 1
    /\ UNCHANGED <<graceOver, svc, ca, edits>>

\* A call of the current step fails and changes nothing: Reconcile returns the
\* error.
APIError ==
    /\ Fault
    /\ w.pc # "idle"
    /\ Return(TRUE)
    /\ UNCHANGED <<objectVars, cacheVars, pending, timer>>

\* Some of the deletions of a cleanup succeed and another one fails.
PartialDelete ==
    /\ Fault
    /\ \E k \in {"crb", "cr"} :
          /\ w.pc = (IF k = "crb" THEN "delcrb" ELSE "delcr")
          /\ \E done \in SUBSET Listed(k) :
                done # {} /\ Write(k, owned[k] \ done)
    /\ Return(TRUE)
    /\ UNCHANGED <<cp, cacheVars, timer>>

\* The operator crashes and starts again: what it held is lost, the caches are
\* filled from the API server and every resource is queued.
Restart ==
    /\ Fault
    /\ w' = Idle
    /\ queued' = TRUE
    /\ timer' = FALSE
    /\ cpSeen' = cp
    /\ cache' = [k \in Kinds |-> IF k \in CachedKinds THEN owned[k] ELSE {}]
    /\ pending' = {}
    /\ UNCHANGED objectVars

-----------------------------------------------------------------------------
(* Informers, timers, and the periodic resync *)

DeliverControlPlane ==
    /\ "cp" \in pending
    /\ cpSeen' = cp
    /\ queued' = TRUE
    /\ pending' = pending \ {"cp"}
    /\ UNCHANGED <<objectVars, cache, timer, w, envVars>>

\* Events of cluster-scoped objects are mapped to their owner by its UID, among
\* the ControlPlanes in the cache.
DeliverOwned(k) ==
    /\ k \in pending
    /\ cache' = IF k \in CachedKinds THEN [cache EXCEPT ![k] = owned[k]] ELSE cache
    /\ queued' = (queued \/ (k \in Namespaced \/ cpSeen.alive))
    /\ pending' = pending \ {k}
    /\ UNCHANGED <<objectVars, cpSeen, timer, w, envVars>>

\* The resync period is far longer than the delivery of an event.
Resync ==
    /\ cpSeen.alive
    /\ pending = {} /\ ~queued /\ w.pc = "idle"
    /\ queued' = TRUE
    /\ UNCHANGED <<objectVars, cacheVars, pending, timer, w, envVars>>

GraceExpires ==
    /\ cp.deleted
    /\ graceOver' = TRUE
    /\ UNCHANGED <<objectVars, cacheVars, pending, queued, timer, w,
                   svc, ca, edits, faults>>

TimerFires ==
    /\ timer /\ graceOver
    /\ timer' = FALSE
    /\ queued' = TRUE
    /\ UNCHANGED <<objectVars, cacheVars, pending, w, envVars>>

-----------------------------------------------------------------------------
(* The CA manager and the controllers of Kubernetes *)

\* caManager.maybeCreateCACertificate at the start of the operator.
CreateCA ==
    /\ ~ca
    /\ ca' = TRUE
    /\ UNCHANGED <<objectVars, cacheVars, pending, queued, timer, w,
                   graceOver, svc, edits, faults>>

Exists(use) == use[2] \in NamesOf(owned[use[1]])

\* Pods come up when the service account and certificate they name exist.
NextPods(o) ==
    CASE o.on /\ o.pods = "none" -> "starting"
      [] o.on /\ o.pods = "starting" /\ (\A use \in o.uses : Exists(use)) -> "ready"
      [] ~o.on -> "none"
      [] OTHER -> o.pods

DeploymentController ==
    /\ \E o \in owned["dep"] :
          /\ NextPods(o) # o.pods
          /\ Write("dep", (owned["dep"] \ {o}) \cup {[o EXCEPT !.pods = NextPods(o)]})
    /\ UNCHANGED <<cp, cacheVars, queued, timer, w, envVars>>

\* Mutant: the Secret has no owner reference.
SecretNotCollected ==
    /\ ~cp.alive
    /\ \E k \in Namespaced \ {"sec"} : owned[k] # {} /\ Write(k, {})
    /\ UNCHANGED <<cp, cacheVars, queued, timer, w, envVars>>

\* Dependents in the namespace of a removed owner are collected; the
\* cluster-scoped ones cannot refer to a namespaced owner and are not.
GarbageCollect ==
    /\ ~cp.alive
    /\ \E k \in Namespaced : owned[k] # {} /\ Write(k, {})
    /\ UNCHANGED <<cp, cacheVars, queued, timer, w, envVars>>

-----------------------------------------------------------------------------
(* Users and the DataPlane *)

Edit ==
    /\ edits < MaxEdits
    /\ edits' = edits + 1
    /\ UNCHANGED <<cacheVars, queued, timer, graceOver, ca, faults>>

\* A write of the ControlPlane by someone other than the worker: the resource
\* version of the worker's copy is no longer the stored one.
UserWrites(new) ==
    /\ cp.alive
    /\ new # cp
    /\ WriteCP(Stored(new))
    /\ w' = [w EXCEPT !.stale = (w.pc # "idle")]

EditControlPlane ==
    /\ Edit
    /\ \/ UserWrites([cp EXCEPT !.dp = ~@])
       \/ \E s \in ServiceNames : UserWrites([cp EXCEPT !.env.service = s])
       \/ UserWrites([cp EXCEPT !.deleted = TRUE])
    /\ UNCHANGED <<owned, svc>>

\* Deleted, or no longer labelled or owned: a list does not find it any more.
LoseOwned ==
    /\ Edit
    /\ \E k \in Kinds : \E o \in owned[k] : Write(k, owned[k] \ {o})
    /\ UNCHANGED <<cp, w, svc>>

EditOwned ==
    /\ Edit
    /\ \E k \in Kinds : \E o \in owned[k] : \E new \in
          {[o EXCEPT !.drift = TRUE]} \cup
          (IF k = "dep" THEN {[o EXCEPT !.on = ~@], [o EXCEPT !.env = NoEnv]} ELSE {}) :
          new # o /\ Write(k, (owned[k] \ {o}) \cup {new})
    /\ UNCHANGED <<cp, w, svc>>

PodFails ==
    /\ Edit
    /\ \E o \in owned["dep"] :
          /\ o.pods = "ready"
          /\ Write("dep", (owned["dep"] \ {o}) \cup {[o EXCEPT !.pods = "starting"]})
    /\ UNCHANGED <<cp, w, svc>>

\* The DataPlane controller's Service appears, goes or is replaced; no watch
\* of this controller reports it.
ServiceChanges ==
    /\ Edit
    /\ svc' \in ServiceNames \ {svc}
    /\ UNCHANGED <<objectVars, pending, w>>

-----------------------------------------------------------------------------

Init ==
    /\ \E dp \in BOOLEAN : cp = [NoControlPlane EXCEPT !.alive = TRUE, !.dp = dp]
    /\ owned = [k \in Kinds |-> {}]
    /\ cpSeen = NoControlPlane
    /\ cache = [k \in Kinds |-> {}]
    /\ pending = {"cp"}
    /\ queued = FALSE
    /\ timer = FALSE
    /\ graceOver = FALSE
    /\ w = Idle
    /\ svc \in ServiceNames
    /\ ca = FALSE
    /\ edits = 0
    /\ faults = 0

Next ==
    \/ Reconcile
    \/ APIError
    \/ PartialDelete
    \/ Restart
    \/ DeliverControlPlane
    \/ \E k \in Kinds : DeliverOwned(k)
    \/ Resync
    \/ GraceExpires
    \/ TimerFires
    \/ CreateCA
    \/ DeploymentController
    \/ GarbageCollect
    \/ EditControlPlane
    \/ LoseOwned
    \/ EditOwned
    \/ PodFails
    \/ ServiceChanges

Spec == Init /\ [][Next]_vars

\* The worker and the informers keep running, time passes, and the controllers
\* of Kubernetes do their work.  Nothing is promised of users and failures.
Fairness ==
    /\ WF_vars(Reconcile)
    /\ WF_vars(DeliverControlPlane)
    /\ \A k \in Kinds : WF_vars(DeliverOwned(k))
    /\ WF_vars(GraceExpires)
    /\ WF_vars(TimerFires)
    /\ WF_vars(CreateCA)
    /\ WF_vars(DeploymentController)
    /\ WF_vars(GarbageCollect)

FairSpec == Spec /\ Fairness

\* When a cleanup starts, no creation of a role or binding is on its way to a
\* cache that it lists; events of changes and deletions may be.  The code does not
\* wait for creations; kinds listed from the API server need not be waited for.
KeepsUp ==
    StartCleanup => \A k \in pending \cap Finalizers \cap CachedKinds :
                        NamesOf(owned[k]) \subseteq NamesOf(cache[k])

\* The controller with informers that keep up with creations until a deletion.
TimelySpec == Init /\ [][Next /\ KeepsUp]_vars

-----------------------------------------------------------------------------
(* Properties *)

\* Every variable keeps its type: the stored and cached objects, the worker.
TypeOK ==
    /\ cp \in ControlPlaneResource
    /\ owned \in [Kinds -> SUBSET Object]
    /\ cpSeen \in ControlPlaneResource
    /\ cache \in [Kinds -> SUBSET Object]
    /\ pending \subseteq Kinds \cup {"cp"}
    /\ queued \in BOOLEAN
    /\ timer \in BOOLEAN
    /\ graceOver \in BOOLEAN
    /\ w \in Worker
    /\ svc \in ServiceNames
    /\ ca \in BOOLEAN
    /\ edits \in 0..MaxEdits
    /\ faults \in 0..MaxFaults

\* At most one stored object of each kind that the client lists from the API
\* server: the "expected 1 or less" error is never met for them.
AtMostOneLive == \A k \in Kinds \ CachedKinds : ~MoreThanOne(owned[k])

\* A ClusterRole or ClusterRoleBinding exists only while the ControlPlane does
\* and carries the finalizer that cleans it up: none is left behind.
RolesGuarded ==
    \A k \in Finalizers : owned[k] # {} => cp.alive /\ k \in cp.fins

\* A stored Ready means what IsReady's comment says of it: every other condition
\* is True as well.
ReadyMeansAllReady == IsReady(cp.conds) => areAllConditionsReady(cp.conds)

\* Pods that are awaited are never reported Ready: whichever copies of the
\* conditions the reply of an Update, a conflict or an old cache brings back, no
\* stored Ready stands beside a condition with the reason PodsNotReady.
AwaitedPodsNotReady ==
    IsReady(cp.conds) /\ HasCondition(cp.conds, Provisioned)
        => cp.conds[Provisioned].reason # "PodsNotReady"

\* A second object of a kind is only ever created while the first has not yet
\* reached the cache that the reconciler lists.
DuplicatesOnlyFromStaleCache ==
    [][\A k \in Kinds :
          owned[k] # {} /\ ~(NamesOf(owned'[k]) \subseteq NamesOf(owned[k]))
             => k \in pending /\ k \in CachedKinds]_vars

\* The cleanup of a deleted ControlPlane never removes roles while the finalizer
\* for the bindings is still on it.
BindingsFirst ==
    [][\A o \in owned["cr"] :
          DeleteRoles /\ o \notin owned'["cr"] => "crb" \notin cp.fins]_vars

\* No ClusterRole or ClusterRoleBinding is created, however old the worker's
\* copy of the ControlPlane, once the stored one has lost a finalizer or is gone.
CreatedUnderFinalizers ==
    [][\A k \in Finalizers :
          ~(NamesOf(owned'[k]) \subseteq NamesOf(owned[k]))
             => cp.alive /\ cp.fins = Finalizers]_vars

\* Why it is so.  The cache and the worker's copy only ever learn of a deletion
\* after it happened; a finalizer is only removed by a worker whose copy is
\* deleted; so whoever still sees a ControlPlane with both finalizers and no
\* deletion can rely on the stored one having them.
Provisioning == {"dataplane", "config"} \cup Kinds
FinalizersHold ==
    /\ "cp" \notin pending => cpSeen = cp
    /\ cpSeen.deleted => cp.deleted
    /\ w.cp.deleted => cpSeen.deleted
    /\ cpSeen.alive /\ ~cpSeen.deleted /\ cpSeen.fins = Finalizers
          => cp.alive /\ cp.fins = Finalizers
    /\ w.pc # "idle" /\ ~w.stale => w.cp.deleted = cp.deleted
    /\ w.pc \in {"delcrb", "delcr"} => w.cp.deleted
    /\ w.pc = "update" /\ ~w.cp.deleted => w.cp.fins = Finalizers
    /\ w.pc \in Provisioning => ~w.cp.deleted /\ cp.alive /\ cp.fins = Finalizers
                                /\ w.cp.fins = Finalizers

\* What RolesGuarded needs besides, when the informers keep up: the copy that the
\* cleanup works on has every finalizer that is still stored, and the finalizers
\* it lacks have nothing left to clean up.
CleanupComplete ==
    /\ cpSeen.deleted => cp.fins \subseteq cpSeen.fins
    /\ w.pc \in {"delcrb", "delcr"} => cp.fins \subseteq w.cp.fins
    /\ w.pc \in {"delcrb", "delcr", "update"} /\ ~w.stale /\ w.cp.deleted
          => w.cp.fins \subseteq cp.fins
    /\ w.pc = "update"
          => \A k \in Finalizers : k \notin w.cp.fins => owned[k] = {}

\* Two owned objects of a kind: Reconcile stops with an error at that kind.
Wedged == \E k \in Kinds : MoreThanOne(owned[k])

\* A Deployment that names an object which does not exist.
Dangling == \E o \in owned["dep"] : \E use \in o.uses : ~Exists(use)

\* A deleted ControlPlane goes away.
DeletionCompletes == cp.deleted ~> ~cp.alive

\* What a removed ControlPlane owned in its namespace goes for good: no late
\* reconciliation brings it back.
NothingComesBack ==
    <>[]~cp.alive => <>[](\A k \in Namespaced : owned[k] = {})

\* Once no DataPlane is set for good, the Deployment runs no pods any more.
ScalesDown ==
    <>[](cp.alive /\ ~cp.deleted /\ ~cp.dp) =>
        <>[](Wedged \/ \A o \in owned["dep"] : ~o.on /\ o.pods = "none")

\* Once a DataPlane with a Service is set for good, the ControlPlane is
\* reported ready, unless its pods wait for an object that was replaced.
BecomesReady ==
    <>[](cp.alive /\ ~cp.deleted /\ cp.dp /\ svc # NoService) =>
        <>[](Wedged \/ Dangling \/ IsReady(cp.conds))

\* Then the pods also get the address of the DataPlane's Service, a replaced one
\* included, at the latest after a resync.
EnvFollowsService ==
    WF_vars(Resync) /\ <>[](cp.alive /\ ~cp.deleted /\ cp.dp /\ svc # NoService) =>
        <>[](Wedged \/ \A o \in owned["dep"] : o.on /\ o.env.service = svc)

=============================================================================
