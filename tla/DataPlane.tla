----------------------------- MODULE DataPlane -----------------------------
(***************************************************************************)
(* The DataPlane controller: DataPlaneReconciler.Reconcile, run by its     *)
(* single controller-runtime worker for one DataPlane resource.  The       *)
(* world around it and the size of a step are those of ControlPlane: one   *)
(* step is one call to the API server with the in-memory work around it,   *)
(* and a list and the write it decides on are one step.  The DataPlane has *)
(* no finalizers, so a deleted one is gone at once.                        *)
(***************************************************************************)
EXTENDS Conditions, Integers

CONSTANTS
    Names,        \* names the API server generates for owned objects
    NoName,       \* no object; the empty Status.Service
    CachedKinds,  \* the owned kinds that the client reads from informer caches
    UserEnvs,     \* the environments that users write into the spec
    UserConfigs,  \* the contents that the ConfigMap or Secret gets from them
    Hooks,        \* whether the admission webhook is installed: {TRUE}, {FALSE} or both
    MaxEdits,     \* bound: edits by users and pod failures
    MaxFaults     \* bound: failed API calls and operator restarts

Kinds == {"svc", "sec", "dep"}

\* Spec.Env and Spec.EnvFrom: both empty; the operator's defaults; literal
\* values, with a database or without; or taken from the ConfigMap or Secret.
Envs == {"none", "defaults", "custom", "postgres", "ref"}
Configs == {"absent", "off", "postgres"}

ASSUME ConstantsAssumption ==
    /\ NoName \notin Names
    /\ CachedKinds \subseteq Kinds
    /\ UserEnvs \subseteq Envs
    /\ UserConfigs \subseteq Configs
    /\ Hooks \subseteq BOOLEAN
    /\ MaxEdits \in Nat
    /\ MaxFaults \in Nat

VARIABLES
    dp,        \* the DataPlane stored by the API server
    owned,     \* per kind, the stored objects labelled and owned by it
    dpSeen,    \* the DataPlane in the informer cache
    cache,     \* per kind, the owned objects in the informer cache
    pending,   \* the kinds with watch events that are not delivered yet
    queued,    \* the DataPlane's key is in the workqueue
    w,         \* the worker: where it is in Reconcile and what it holds
    config,    \* the ConfigMap or Secret that the environment may refer to
    ca,        \* the cluster CA Secret exists
    hook,      \* the admission webhook is installed
    edits,     \* edits so far
    faults     \* faults so far

objectVars == <<dp, owned>>
cacheVars == <<dpSeen, cache>>
envVars == <<config, ca, hook, edits, faults>>
vars == <<dp, owned, dpSeen, cache, pending, queued, w, config, ca, hook, edits,
          faults>>

-----------------------------------------------------------------------------
(* Data *)

\* The message of the first validation error, if there is one.
Messages == {"unsupported database", "not found", "no answer"}
Valid == "valid"

Provisioned == "Provisioned"
Scheduled == NewCondition("False", "PodsNotReady", "scheduled for provisioning")
PodsReady == NewCondition("True", "PodsReady", "pods for all Deployments are ready")
ValidationFailed(message) == NewCondition("False", "ValidationFailed", message)
ConditionValues ==
    {NotReady, ResourceReady, Scheduled, PodsReady}
        \cup {ValidationFailed(message) : message \in Messages}
Conds == ConditionsOver({Provisioned, ReadyType}, ConditionValues)

\* service: Status.Service.
DataPlaneResource ==
    [alive : BOOLEAN, env : Envs, conds : Conds, service : Names \cup {NoName}]

\* of: the Service a certificate is for, or the Secret a Deployment mounts.
\* drift: metadata (for a Deployment also the containers) that differs from the
\* generated.  ip: a Service's ClusterIP is set.  env and pods belong to a
\* Deployment.
PodStates == {"none", "starting", "ready"}
Object(k) ==
    [name : Names, drift : BOOLEAN, of : IF k = "svc" THEN {NoName} ELSE Names,
     ip : BOOLEAN, env : Envs, pods : PodStates]

NamesOf(objects) == {o.name : o \in objects}
MoreThanOne(S) == \E x, y \in S : x # y

-----------------------------------------------------------------------------
(* Status management *)

ensureIsMarkedScheduled(conds) ==
    IF HasCondition(conds, Provisioned)
    THEN conds
    ELSE SetCondition(conds, Provisioned, Scheduled)

ensureIsMarkedProvisioned(conds) ==
    SetReady(SetCondition(conds, Provisioned, PodsReady))

\* Mutant: only the status is compared.
SameStatus(c1, c2) == c1.status = c2.status

isSameDataPlaneCondition(c1, c2) == c1 = c2

-----------------------------------------------------------------------------
(* The workqueue and the worker *)

NoConditions == [t \in {} |-> NotReady]
NoDataPlane ==
    [alive |-> FALSE, env |-> "none", conds |-> NoConditions, service |-> NoName]

\* dp: the worker's copy of the DataPlane.  stale: the copy's resource version
\* is not the stored one.  held: the owned objects found so far.
Steps == {"idle", "status", "report", "update", "validate"} \cup Kinds
Worker ==
    [pc : Steps, dp : DataPlaneResource, stale : BOOLEAN,
     held : [Kinds -> Names \cup {NoName}]]
Idle ==
    [pc |-> "idle", dp |-> NoDataPlane, stale |-> FALSE,
     held |-> [k \in Kinds |-> NoName]]

\* Reconcile returns; with an error, or Requeue set, the key is queued again.
\* The delay of the requeue is left out.
Return(requeue) ==
    /\ w' = Idle
    /\ queued' = (queued \/ requeue)

Goto(pc, copy) ==
    /\ w' = [w EXCEPT !.pc = pc, !.dp = copy]
    /\ UNCHANGED queued

\* What the client's List returns for an owned kind.
List(k) == IF k \in CachedKinds THEN cache[k] ELSE owned[k]

\* The server refuses the worker's Update: a conflict, or not found.
Refused == w.stale \/ ~dp.alive

\* An owned kind is written; its watch event is on the way.
Write(k, objects) ==
    /\ owned' = [owned EXCEPT ![k] = objects]
    /\ pending' = pending \cup {k}

WriteDP(new) ==
    /\ dp' = new
    /\ pending' = pending \cup {"dp"}

\* r.Status().Update with the worker's copy, and return.
WriteStatusAndReturn ==
    IF Refused
    THEN Return(TRUE) /\ UNCHANGED <<dp, pending>>
    ELSE /\ WriteDP([dp EXCEPT !.conds = w.dp.conds, !.service = w.dp.service])
         /\ Return(FALSE)

-----------------------------------------------------------------------------
(* Reconcile: the first read and the branches it decides *)

Take ==
    /\ w.pc = "idle"
    /\ queued
    /\ queued' = FALSE
    /\ UNCHANGED <<objectVars, cacheVars, pending, envVars>>

Hold(pc, copy) ==
    w' = [Idle EXCEPT !.pc = pc, !.dp = copy, !.stale = ("dp" \in pending)]

GetNotFound ==
    /\ Take
    /\ ~dpSeen.alive
    /\ UNCHANGED w

MarkScheduled ==
    /\ Take
    /\ dpSeen.alive /\ ~HasCondition(dpSeen.conds, Provisioned)
    /\ Hold("status", [dpSeen EXCEPT !.conds =
                          ensureIsMarkedScheduled(InitReady(@))])

\* Mutant: the Ready condition is not reset.
StartWithoutInit ==
    /\ Take
    /\ dpSeen.alive /\ HasCondition(dpSeen.conds, Provisioned)
    /\ Hold("svc", dpSeen)

StartProvisioning ==
    /\ Take
    /\ dpSeen.alive /\ HasCondition(dpSeen.conds, Provisioned)
    /\ Hold("svc", [dpSeen EXCEPT !.conds = InitReady(@)])

-----------------------------------------------------------------------------
(* Reconcile: writes of the DataPlane itself *)

\* Mutant: the status is patched, whatever the resource version.
PatchStatus ==
    /\ w.pc = "status"
    /\ WriteDP([dp EXCEPT !.conds = w.dp.conds])
    /\ Return(FALSE)
    /\ UNCHANGED <<owned, cacheVars, envVars>>

\* updateStatus and return.  The current conditions come from the cache.
updateStatus ==
    /\ w.pc = "status"
    /\ LET current == IF dpSeen.alive THEN dpSeen.conds ELSE NoConditions
       IN  IF NeedsUpdate(current, w.dp.conds)
           THEN WriteStatusAndReturn
           ELSE Return(FALSE) /\ UNCHANGED <<dp, pending>>
    /\ UNCHANGED <<owned, cacheVars, envVars>>

\* The status updates of ensureDataPlaneServiceStatus and of
\* ensureDataPlaneIsMarkedNotProvisioned.
ReportStatus ==
    /\ w.pc = "report"
    /\ WriteStatusAndReturn
    /\ UNCHANGED <<owned, cacheVars, envVars>>

\* SetDataPlaneDefaults, then r.Client.Update and return.
SetDataPlaneDefaults ==
    /\ w.pc = "update"
    /\ IF Refused
       THEN Return(TRUE) /\ UNCHANGED <<dp, pending>>
       ELSE WriteDP([dp EXCEPT !.env = "defaults"]) /\ Return(FALSE)
    /\ UNCHANGED <<owned, cacheVars, envVars>>

-----------------------------------------------------------------------------
(* Reconcile: validation.  How the database mode is found in the           *)
(* environment is the subject of DBModeValidation.                         *)

\* Mutant: the literal values are not looked at.
ValidateReferenceOnly(env) ==
    CASE env = "ref" /\ config = "absent" -> "not found"
      [] env = "ref" /\ config = "postgres" -> "unsupported database"
      [] OTHER -> Valid

Validate(env) ==
    CASE env = "postgres" -> "unsupported database"
      [] env = "ref" /\ config = "absent" -> "not found"
      [] env = "ref" /\ config = "postgres" -> "unsupported database"
      [] OTHER -> Valid

\* Mutant: updates are let through.
CreatesOnly(operation, env) ==
    hook /\ operation = "CREATE" => Validate(env) = Valid

\* The admission webhook runs the same validation before a DataPlane is stored.
\* The reconciler's own Update of the spec, to the defaults, always passes it.
handleValidation(operation, env) ==
    hook /\ operation \in {"CREATE", "UPDATE"} => Validate(env) = Valid

\* Nothing is stored, and nobody retries, when the message is already there.
ensureDataPlaneIsMarkedNotProvisioned(message) ==
    LET conds == w.dp.conds
        new == ValidationFailed(message)
    IN  IF /\ HasCondition(conds, Provisioned)
           /\ isSameDataPlaneCondition(new, conds[Provisioned])
        THEN Return(FALSE)
        ELSE Goto("report", [w.dp EXCEPT !.conds = SetCondition(@, Provisioned, new)])

ValidationFails ==
    /\ w.pc = "validate"
    /\ Validate(w.dp.env) # Valid
    /\ ensureDataPlaneIsMarkedNotProvisioned(Validate(w.dp.env))
    /\ UNCHANGED <<objectVars, cacheVars, pending, envVars>>

\* Mutant: what failed once is not tried again.
FailedForGood ==
    /\ w.pc = "validate"
    /\ Validate(w.dp.env) = Valid
    /\ IF w.dp.conds[Provisioned].reason = "ValidationFailed"
       THEN Return(FALSE)
       ELSE Goto("sec", w.dp)
    /\ UNCHANGED <<objectVars, cacheVars, pending, envVars>>

ValidationSucceeds ==
    /\ w.pc = "validate"
    /\ Validate(w.dp.env) = Valid
    /\ Goto("sec", w.dp)
    /\ UNCHANGED <<objectVars, cacheVars, pending, envVars>>

-----------------------------------------------------------------------------
(* Reconcile: owned objects *)

\* The names that the API server can generate for a new object of kind k.
Fresh(k) ==
    {n \in Names :
        /\ n \notin NamesOf(owned[k] \cup cache[k])
        /\ n # w.held[k]
        /\ k = "svc" => n \notin {dp.service, dpSeen.service, w.dp.service}
        /\ \A user \in Kinds : \A o \in owned[user] : n # o.of}
NewName(k) == CHOOSE n \in Fresh(k) : TRUE

New(k, of) ==
    [name |-> NewName(k), drift |-> FALSE, of |-> of, ip |-> (k = "svc"),
     env |-> IF k = "dep" THEN w.dp.env ELSE "none", pods |-> "none"]

\* What the generated object refers to.
Of(k) ==
    CASE k = "svc" -> NoName
      [] k = "sec" -> w.held["svc"]
      [] k = "dep" -> w.held["sec"]

\* "found %d ... currently unsupported: expected 1 or less"
FoundSeveral(k) ==
    /\ w.pc = k
    /\ MoreThanOne(List(k))
    /\ Return(TRUE)
    /\ UNCHANGED <<objectVars, cacheVars, pending, envVars>>

\* Mutant: the missing CA is not reported as an error.
GiveUpWithoutCA ==
    /\ w.pc = "sec"
    /\ List("sec") = {} /\ ~ca
    /\ Return(FALSE)
    /\ UNCHANGED <<objectVars, cacheVars, pending, envVars>>

CANotFound ==
    /\ w.pc = "sec"
    /\ List("sec") = {} /\ ~ca
    /\ Return(TRUE)
    /\ UNCHANGED <<objectVars, cacheVars, pending, envVars>>

\* After a create or an update of the Service, its name is reported.
Changed(k, name) ==
    IF k = "svc" THEN Goto("report", [w.dp EXCEPT !.service = name])
                 ELSE Return(FALSE)

\* Mutant: one object of the kind does not count.
CreateAgain(k) ==
    /\ w.pc = k
    /\ ~MoreThanOne(List(k))
    /\ k = "sec" => ca
    /\ Fresh(k) # {}
    /\ Write(k, owned[k] \cup {New(k, Of(k))})
    /\ Changed(k, NewName(k))
    /\ UNCHANGED <<dp, cacheVars, envVars>>

\* Mutant: the name of the certificate's Secret is lost.
CreateUnnamed(k) ==
    /\ w.pc = k
    /\ List(k) = {}
    /\ k = "sec" => ca
    /\ Fresh(k) # {}
    /\ Write(k, owned[k] \cup {New(k, NoName)})
    /\ Changed(k, NewName(k))
    /\ UNCHANGED <<dp, cacheVars, envVars>>

CreateOwned(k) ==
    /\ w.pc = k
    /\ List(k) = {}
    /\ k = "sec" => ca
    /\ Fresh(k) # {}
    /\ Write(k, owned[k] \cup {New(k, Of(k))})
    /\ Changed(k, NewName(k))
    /\ UNCHANGED <<dp, cacheVars, envVars>>

\* Mutant: an existing Deployment keeps its environment.
MetadataOnly(k, o) == [o EXCEPT !.drift = FALSE]

\* The object as the reconciler wants it.  What a Deployment mounts, and whom a
\* certificate is for, is not compared.
Corrected(k, o) ==
    [o EXCEPT !.drift = FALSE, !.env = IF k = "dep" THEN w.dp.env ELSE @]

\* An object in the cache that has changed in the meantime is a conflict.
UpdateOwned(k) ==
    /\ w.pc = k
    /\ \E o \in List(k) :
          /\ List(k) = {o} /\ Corrected(k, o) # o
          /\ IF o \in owned[k]
             THEN /\ Write(k, (owned[k] \ {o}) \cup {Corrected(k, o)})
                  /\ Changed(k, o.name)
             ELSE Return(TRUE) /\ UNCHANGED <<owned, pending>>
    /\ UNCHANGED <<dp, cacheVars, envVars>>

\* The object is there, as it should be, and Reconcile goes on with it.
Have(k, o) ==
    /\ w.pc = k
    /\ List(k) = {o} /\ Corrected(k, o) = o
    /\ UNCHANGED <<objectVars, cacheVars, pending, envVars>>

\* An empty environment gets the defaults; a Service without an address stops
\* the reconciliation.
HaveService ==
    \E o \in List("svc") :
        /\ Have("svc", o)
        /\ IF ~o.ip
           THEN Return(FALSE)
           ELSE /\ w' = [w EXCEPT !.pc = IF w.dp.env = "none" THEN "update" ELSE "validate",
                                  !.held["svc"] = o.name]
                /\ UNCHANGED queued

HaveCertificate ==
    \E o \in List("sec") :
        /\ Have("sec", o)
        /\ w' = [w EXCEPT !.pc = "dep", !.held["sec"] = o.name]
        /\ UNCHANGED queued

\* Pods that are not all available: nothing is done, Ready is not withdrawn.
HaveDeployment ==
    \E o \in List("dep") :
        /\ Have("dep", o)
        /\ IF o.pods = "ready"
           THEN Goto("status", [w.dp EXCEPT !.conds = ensureIsMarkedProvisioned(@)])
           ELSE Return(FALSE)

Reconcile ==
    \/ GetNotFound
    \/ MarkScheduled
    \/ StartProvisioning
    \/ updateStatus
    \/ ReportStatus
    \/ SetDataPlaneDefaults
    \/ ValidationFails
    \/ ValidationSucceeds
    \/ \E k \in Kinds : FoundSeveral(k) \/ CreateOwned(k) \/ UpdateOwned(k)
    \/ CANotFound
    \/ HaveService
    \/ HaveCertificate
    \/ HaveDeployment

-----------------------------------------------------------------------------
(* Failures of the API server's calls and of the operator *)

Fault ==
    /\ faults < MaxFaults
    /\ faults' = faults + 1
    /\ UNCHANGED <<config, ca, hook, edits>>

\* A call fails and changes nothing: Reconcile returns the error.
APIError ==
    /\ Fault
    /\ w.pc \notin {"idle", "validate"}
    /\ Return(TRUE)
    /\ UNCHANGED <<objectVars, cacheVars, pending>>

\* A failed read of the ConfigMap or Secret is a validation error like another.
ReferenceUnreadable ==
    /\ Fault
    /\ w.pc = "validate" /\ w.dp.env = "ref"
    /\ ensureDataPlaneIsMarkedNotProvisioned("no answer")
    /\ UNCHANGED <<objectVars, cacheVars, pending>>

\* The operator crashes and starts again: what it held is lost, the caches are
\* filled from the API server and every resource is queued.
Restart ==
    /\ Fault
    /\ w' = Idle
    /\ queued' = TRUE
    /\ dpSeen' = dp
    /\ cache' = [k \in Kinds |-> IF k \in CachedKinds THEN owned[k] ELSE {}]
    /\ pending' = {}
    /\ UNCHANGED objectVars

-----------------------------------------------------------------------------
(* Informers and the periodic resync *)

DeliverDataPlane ==
    /\ "dp" \in pending
    /\ dpSeen' = dp
    /\ queued' = TRUE
    /\ pending' = pending \ {"dp"}
    /\ UNCHANGED <<objectVars, cache, w, envVars>>

DeliverOwned(k) ==
    /\ k \in pending
    /\ cache' = IF k \in CachedKinds THEN [cache EXCEPT ![k] = owned[k]] ELSE cache
    /\ queued' = TRUE
    /\ pending' = pending \ {k}
    /\ UNCHANGED <<objectVars, dpSeen, w, envVars>>

\* The resync period is far longer than the delivery of an event.
Resync ==
    /\ dpSeen.alive
    /\ pending = {} /\ ~queued /\ w.pc = "idle"
    /\ queued' = TRUE
    /\ UNCHANGED <<objectVars, cacheVars, pending, w, envVars>>

-----------------------------------------------------------------------------
(* The CA manager and the controllers of Kubernetes *)

\* caManager.maybeCreateCACertificate at the start of the operator.
CreateCA ==
    /\ ~ca
    /\ ca' = TRUE
    /\ UNCHANGED <<objectVars, cacheVars, pending, queued, w, config, hook, edits,
                   faults>>

\* Pods start when the Secret they mount and the references of their
\* environment exist, and do not get ready without a database they ask for.
NextPods(o) ==
    CASE o.pods = "none" -> "starting"
      [] /\ o.pods = "starting"
         /\ o.of \in NamesOf(owned["sec"])
         /\ Validate(o.env) = Valid -> "ready"
      [] OTHER -> o.pods

DeploymentController ==
    /\ \E o \in owned["dep"] :
          /\ NextPods(o) # o.pods
          /\ Write("dep", (owned["dep"] \ {o}) \cup {[o EXCEPT !.pods = NextPods(o)]})
    /\ UNCHANGED <<dp, cacheVars, queued, w, envVars>>

\* Everything owned is in the DataPlane's namespace, and collected with it.
GarbageCollect ==
    /\ ~dp.alive
    /\ \E k \in Kinds : owned[k] # {} /\ Write(k, {})
    /\ UNCHANGED <<dp, cacheVars, queued, w, envVars>>

-----------------------------------------------------------------------------
(* Users, and the Gateway controller, which writes DataPlanes like a user *)

Edit ==
    /\ edits < MaxEdits
    /\ edits' = edits + 1
    /\ UNCHANGED <<cacheVars, queued, ca, hook, faults>>

\* The resource version of the worker's copy is no longer the stored one.
EditDataPlane ==
    /\ Edit
    /\ dp.alive
    /\ \/ \E e \in UserEnvs \ {dp.env} :
             handleValidation("UPDATE", e) /\ WriteDP([dp EXCEPT !.env = e])
       \/ handleValidation("DELETE", dp.env) /\ WriteDP([dp EXCEPT !.alive = FALSE])
    /\ w' = [w EXCEPT !.stale = (w.pc # "idle")]
    /\ UNCHANGED <<owned, config>>

\* The ConfigMap or Secret: no watch of this controller reports it.
EditConfig ==
    /\ Edit
    /\ config' \in UserConfigs \ {config}
    /\ UNCHANGED <<objectVars, pending, w>>

\* Deleted, or no longer labelled or owned: a list does not find it any more.
LoseOwned ==
    /\ Edit
    /\ \E k \in Kinds : \E o \in owned[k] : Write(k, owned[k] \ {o})
    /\ UNCHANGED <<dp, w, config>>

\* A Service loses its ClusterIP when its type is changed to ExternalName.
EditOwned ==
    /\ Edit
    /\ \E k \in Kinds : \E o \in owned[k] : \E new \in
          {[o EXCEPT !.drift = TRUE], [o EXCEPT !.ip = FALSE], [o EXCEPT !.env = "none"]} :
          new # o /\ Write(k, (owned[k] \ {o}) \cup {new})
    /\ UNCHANGED <<dp, w, config>>

PodFails ==
    /\ Edit
    /\ \E o \in owned["dep"] :
          /\ o.pods = "ready"
          /\ Write("dep", (owned["dep"] \ {o}) \cup {[o EXCEPT !.pods = "starting"]})
    /\ UNCHANGED <<dp, w, config>>

-----------------------------------------------------------------------------

Init ==
    /\ owned = [k \in Kinds |-> {}]
    /\ dpSeen = NoDataPlane
    /\ cache = [k \in Kinds |-> {}]
    /\ pending = {"dp"}
    /\ queued = FALSE
    /\ w = Idle
    /\ config \in UserConfigs
    /\ hook \in Hooks
    /\ \E e \in UserEnvs :
          /\ handleValidation("CREATE", e)
          /\ dp = [NoDataPlane EXCEPT !.alive = TRUE, !.env = e]
    /\ ca = FALSE
    /\ edits = 0
    /\ faults = 0

Next ==
    \/ Reconcile
    \/ APIError
    \/ ReferenceUnreadable
    \/ Restart
    \/ DeliverDataPlane
    \/ \E k \in Kinds : DeliverOwned(k)
    \/ Resync
    \/ CreateCA
    \/ DeploymentController
    \/ GarbageCollect
    \/ EditDataPlane
    \/ EditConfig
    \/ LoseOwned
    \/ EditOwned
    \/ PodFails

Spec == Init /\ [][Next]_vars

\* The worker, the informers and the controllers of Kubernetes keep running.
\* Nothing is promised of users and failures.
Fairness ==
    /\ WF_vars(Reconcile)
    /\ WF_vars(DeliverDataPlane)
    /\ \A k \in Kinds : WF_vars(DeliverOwned(k))
    /\ WF_vars(CreateCA)
    /\ WF_vars(DeploymentController)
    /\ WF_vars(GarbageCollect)

FairSpec == Spec /\ Fairness

\* With the informers' periodic resync (every ten hours) as well.
FairResyncSpec == FairSpec /\ WF_vars(Resync)

-----------------------------------------------------------------------------
(* Properties *)

\* Every variable keeps its type; with it, that every certificate is made for a
\* Service and every Deployment mounts a Secret that the worker had found.
TypeOK ==
    /\ dp \in DataPlaneResource
    /\ dpSeen \in DataPlaneResource
    /\ DOMAIN owned = Kinds /\ DOMAIN cache = Kinds
    /\ \A k \in Kinds : owned[k] \subseteq Object(k) /\ cache[k] \subseteq Object(k)
    /\ pending \subseteq Kinds \cup {"dp"}
    /\ queued \in BOOLEAN
    /\ w \in Worker
    /\ config \in Configs
    /\ ca \in BOOLEAN
    /\ hook \in Hooks
    /\ edits \in 0..MaxEdits
    /\ faults \in 0..MaxFaults

\* At most one stored object of each kind that the client lists from the API
\* server: the "expected 1 or less" error is never met for them.
AtMostOneLive == \A k \in Kinds \ CachedKinds : ~MoreThanOne(owned[k])

\* No Deployment is ever given an environment with an unsupported database or
\* with none of the defaults, whichever copy of the DataPlane the worker holds;
\* only a user's own edit of the Deployment empties its environment.
ValidatedBeforeDeployed ==
    [][\A o \in owned'["dep"] :
          o.env \in {"none", "postgres"} =>
             EditOwned \/ \E old \in owned["dep"] : old.name = o.name /\ old.env = o.env]_vars

\* The stored Ready condition is True only if every other condition is.
ReadyMeansAllReady == IsReady(dp.conds) => areAllConditionsReady(dp.conds)

\* Ready becomes True only while the stored spec, not merely the worker's copy
\* of it, has an environment that passed validation.
ReadyForStoredSpec ==
    [][~IsReady(dp.conds) /\ IsReady(dp'.conds) => dp.env \notin {"none", "postgres"}]_vars

\* With the webhook installed, Reconcile never gets to report a database in the
\* spec itself, neither after a create nor after any update: what it still finds
\* invalid is a reference whose target changed after the DataPlane was admitted.
RejectedBeforeStored ==
    hook /\ "postgres" \notin UserConfigs =>
        \A t \in DOMAIN dp.conds : dp.conds[t] # ValidationFailed("unsupported database")

\* Two owned objects of a kind: Reconcile stops with an error at that kind.
Wedged == \E k \in Kinds : MoreThanOne(owned[k])

\* A Service whose ClusterIP is gone stops Reconcile before validation.
Unaddressed == \E o \in owned["svc"] : ~o.ip

\* A Deployment that mounts a Secret which does not exist.
Dangling == \E o \in owned["dep"] : o.of \notin NamesOf(owned["sec"])

\* A DataPlane whose environment is, for good, empty or supported is reported
\* ready without the help of a resync, unless its pods wait for a Secret that
\* was replaced.
BecomesReady ==
    <>[](dp.alive /\ dp.env \in {"none", "defaults", "custom"}) =>
        <>[](Wedged \/ Unaddressed \/ Dangling \/ IsReady(dp.conds))

\* The status says that the spec does not validate, and Ready is withdrawn.
ReportedInvalid ==
    /\ HasCondition(dp.conds, Provisioned)
    /\ dp.conds[Provisioned].reason = "ValidationFailed"
    /\ ~IsReady(dp.conds)

\* An unsupported database is reported in the status, and Ready is withdrawn.
InvalidReported ==
    <>[](dp.alive /\ dp.env = "postgres") =>
        <>[](Wedged \/ Unaddressed \/ ReportedInvalid)

\* The Deployment's environment follows the DataPlane's spec, and a user's edit
\* of the Deployment's environment is undone.
EnvFollowsSpec ==
    \A e \in {"defaults", "custom"} :
        <>[](dp.alive /\ dp.env = e) =>
            <>[](Wedged \/ Unaddressed \/ \A o \in owned["dep"] : o.env = e)

\* A validation that failed on a ConfigMap put right later, or on a read that the
\* API server did not answer, is repeated at the latest at a resync, although the
\* failure returned no error and no watch reports the ConfigMap.
RecoversFromConfig ==
    WF_vars(Resync) /\ <>[](dp.alive /\ dp.env = "ref" /\ config = "off") =>
        <>[](Wedged \/ Unaddressed \/ Dangling \/ IsReady(dp.conds))

\* A reference that goes bad after the DataPlane was stored, because its ConfigMap
\* is deleted, is reported at the latest at a resync, and Ready is withdrawn.
BadReferenceReported ==
    WF_vars(Resync) /\ <>[](dp.alive /\ dp.env = "ref" /\ config = "absent") =>
        <>[](Wedged \/ Unaddressed \/ ReportedInvalid)

=============================================================================
