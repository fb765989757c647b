------------------------------- MODULE Gateway -------------------------------
(***************************************************************************)
(* The Gateway controller: GatewayReconciler.Reconcile, run by its single  *)
(* controller-runtime worker for one Gateway, the GatewayClass it names    *)
(* and the GatewayConfiguration that the class may refer to.  The world    *)
(* around it and the size of a step are those of ControlPlane; reads from  *)
(* the cache up to the next call of the API server belong to its step.     *)
(*                                                                         *)
(* The DataPlane and ControlPlane controllers, whose passes are the        *)
(* subject of DataPlane and ControlPlane, appear here by what they do to   *)
(* the objects that the Gateway controller reads and writes.               *)
(***************************************************************************)
EXTENDS Conditions, Integers

CONSTANTS
    Names,        \* names the API server generates for objects of each kind
    NoName,
    UserService,  \* the Service that an overriding GatewayConfiguration names
    CachedKinds,  \* the kinds that the client reads from informer caches
    Hooks,        \* whether the admission webhook is installed: {TRUE}, {FALSE} or both
    UserClasses,  \* the states that users give the GatewayClass
    UserConfigs,  \* the contents that they give the GatewayConfiguration
    MaxEdits,     \* bound: edits by users and changes of load balancers
    MaxFaults,    \* bound: failed API calls and operator restarts
    Mixed         \* bound: whether edits and faults come in the same behaviour

Planes == {"dp", "cp"}
Kinds == Planes \cup {"np"}

\* The GatewayClass: of this controller without parametersRef, with one to the
\* GatewayConfiguration or with an unsupported one; of another controller; gone.
Ours == {"plain", "ref", "badref"}
Classes == Ours \cup {"foreign", "absent"}

\* The GatewayConfiguration: gone; without options; with other options for both
\* planes; with options that no DataPlane may have; with the environment
\* variables of the ControlPlane that name the DataPlane's Service.
Configs == {"absent", "empty", "custom", "invalid", "override"}

ASSUME ConstantsAssumption ==
    /\ NoName \notin Names
    /\ UserService \notin Names \cup {NoName}
    /\ CachedKinds \subseteq Kinds \cup {"svc"}
    /\ Hooks \subseteq BOOLEAN
    /\ UserClasses \subseteq Classes
    /\ UserConfigs \subseteq Configs
    /\ MaxEdits \in Nat
    /\ MaxFaults \in Nat
    /\ Mixed \in BOOLEAN

VARIABLES
    gw,        \* the Gateway stored by the API server
    class,     \* the GatewayClass it names
    config,    \* the GatewayConfiguration
    owned,     \* per kind, the stored objects labelled and owned by the Gateway
    svcs,      \* the stored Services of DataPlanes
    seen,      \* the Gateway, class, configuration and Services in the caches
    cache,     \* per kind, the owned objects in the informer cache
    pending,   \* the kinds with watch events that are not delivered yet
    queued,    \* the Gateway's key is in the workqueue
    w,         \* the worker: where it is in Reconcile and what it holds
    hook,      \* the admission webhook is installed
    edits,     \* edits so far
    faults     \* faults so far

objectVars == <<gw, class, config, owned, svcs>>
cacheVars == <<seen, cache>>
boundVars == <<hook, edits, faults>>
vars == <<gw, class, config, owned, svcs, seen, cache, pending, queued, w, hook,
          edits, faults>>

-----------------------------------------------------------------------------
(* Data *)

Scheduled == "Scheduled"
DataPlaneReady == "DataPlaneReady"
ControlPlaneReady == "ControlPlaneReady"
GatewayService == "GatewayService"
ReadyTypeOf(k) == IF k = "dp" THEN DataPlaneReady ELSE ControlPlaneReady

PickedUp == NewCondition("True", "Scheduled", "picked up")
Created == NewCondition("False", "ResourceCreatedOrUpdated", "created")
Waiting == NewCondition("False", "WaitingToBecomeReady", "waiting")
UnableToProvision(message) == NewCondition("False", "UnableToProvision", message)
GatewayServiceError(message) == NewCondition("False", "GatewayServiceError", message)
ProvisionErrors == {"several", "conflict", "rejected", "no answer"}
ServiceErrors == {"no service", "no address", "not written"}

ConditionTypes == {ReadyType, Scheduled, DataPlaneReady, ControlPlaneReady, GatewayService}
ConditionValues ==
    {NotReady, ResourceReady, PickedUp, Created, Waiting}
        \cup {UnableToProvision(m) : m \in ProvisionErrors}
        \cup {GatewayServiceError(m) : m \in ServiceErrors}

\* Status.Addresses: the ClusterIP of a Service, and whether the address of its
\* load balancer comes before it.
Addresses == [svc : Names \cup {NoName}, lb : BOOLEAN]
NoAddresses == [svc |-> NoName, lb |-> FALSE]

NoConditions == [t \in {} |-> NotReady]
NoGateway == [alive |-> FALSE, conds |-> NoConditions, addrs |-> NoAddresses]
IsGateway(g) ==
    /\ DOMAIN g = DOMAIN NoGateway
    /\ g.alive \in BOOLEAN
    /\ DOMAIN g.conds \subseteq ConditionTypes
    /\ \A t \in DOMAIN g.conds : g.conds[t] \in ConditionValues
    /\ g.addrs \in Addresses

\* The deployment options of a plane: those that follow from a configuration
\* without any, other ones, ones that fail validation, or a user's own edit.
Options == {"defaults", "custom", "invalid", "edited"}

\* Mutant: the defaults are not filled in.
WithoutDefaults(k, c) == c

OptionsOf(k, c) ==
    IF c = "custom" \/ (c = "invalid" /\ k = "dp") THEN c ELSE "defaults"

\* An owned object.  dp: the DataPlane that a ControlPlane names, or whose pods
\* a NetworkPolicy restricts; cp: the ControlPlane it admits.  svc: the Service
\* in a ControlPlane's environment.  ready: the plane's Ready condition.  drift:
\* metadata of a NetworkPolicy that differs from the generated.
Object ==
    [name : Names, opts : Options, dp : Names \cup {NoName}, cp : Names \cup {NoName},
     svc : Names \cup {NoName, UserService}, ready : BOOLEAN, drift : BOOLEAN]
Plain(n) ==
    [name |-> n, opts |-> "defaults", dp |-> NoName, cp |-> NoName, svc |-> NoName,
     ready |-> FALSE, drift |-> FALSE]

\* A Service: the DataPlane it is of and what addresses it gives: its ClusterIP,
\* also that of a load balancer, or none to use (no ClusterIP, or a load balancer
\* whose first ingress has no IP).
Reaches == {"cluster", "lb", "none"}
Service == [name : Names, of : Names, reach : Reaches]

NamesOf(objects) == {o.name : o \in objects}
MoreThanOne(S) == \E x, y \in S : x # y
ServicesOf(services, n) == {s \in services : s.of = n}

-----------------------------------------------------------------------------
(* The workqueue and the worker *)

\* gw: the worker's copy of the Gateway.  stale: its resource version is not the
\* stored one.  config: the configuration it works with.  held: the names of the
\* planes found so far.
Steps == {"idle", "dp", "cp", "np", "mark", "status"}
Idle ==
    [pc |-> "idle", gw |-> NoGateway, stale |-> FALSE, config |-> "empty",
     held |-> [k \in Planes |-> NoName]]

\* Reconcile returns; with an error, the key is queued again.
Return(requeue) ==
    /\ w' = Idle
    /\ queued' = (queued \/ requeue)

Goto(pc, conds) ==
    /\ w' = [w EXCEPT !.pc = pc, !.gw.conds = conds]
    /\ UNCHANGED queued

\* What the client's List returns for an owned kind, and for the Services.
List(k) == IF k \in CachedKinds THEN cache[k] ELSE owned[k]
ListServicesForOwner(n) ==
    ServicesOf(IF "svc" \in CachedKinds THEN seen.svcs ELSE svcs, n)

\* The server refuses the worker's status update: a conflict, or not found.
Refused == w.stale \/ ~gw.alive

Write(k, objects) ==
    /\ owned' = [owned EXCEPT ![k] = objects]
    /\ pending' = pending \cup {k}

Replace(k, o, new) == Write(k, (owned[k] \ {o}) \cup {new})

-----------------------------------------------------------------------------
(* Reconcile: the Gateway, its class and its configuration *)

\* The worker takes the key and reads the Gateway from the cache; the pass ends,
\* or goes on.
Take ==
    /\ w.pc = "idle"
    /\ queued
    /\ UNCHANGED <<objectVars, cacheVars, pending, boundVars>>

TakeAndReturn(requeue) ==
    /\ Take
    /\ queued' = requeue
    /\ UNCHANGED w

GetNotFound ==
    /\ ~seen.gw.alive
    /\ TakeAndReturn(FALSE)

\* verifyGatewayClassSupport: another controller's Gateway is left alone; a
\* class that is not there is an error.
UnsupportedGateway ==
    /\ seen.gw.alive
    /\ seen.class = "foreign"
    /\ TakeAndReturn(FALSE)

ClassNotFound ==
    /\ seen.gw.alive
    /\ seen.class = "absent"
    /\ TakeAndReturn(TRUE)

\* The configuration that a class leads to; "absent" if that is an error.
getOrCreateGatewayConfiguration(cl, c) ==
    CASE cl = "plain" -> "empty"
      [] cl = "badref" -> "absent"
      [] OTHER -> c

ConfigurationNotFound ==
    /\ seen.gw.alive
    /\ seen.class \in Ours
    /\ getOrCreateGatewayConfiguration(seen.class, seen.config) = "absent"
    /\ TakeAndReturn(TRUE)

\* Mutant: a plane that could not be provisioned is not tried again.
StartOnce ==
    /\ Take
    /\ seen.gw.alive
    /\ seen.class \in Ours
    /\ queued' = FALSE
    /\ LET c == getOrCreateGatewayConfiguration(seen.class, seen.config)
       IN  /\ c # "absent"
           /\ w' = IF /\ HasCondition(seen.gw.conds, DataPlaneReady)
                      /\ seen.gw.conds[DataPlaneReady].reason = "UnableToProvision"
                   THEN Idle
                   ELSE [Idle EXCEPT !.pc = "dp", !.config = c, !.stale = ("gw" \in pending),
                                     !.gw = [seen.gw EXCEPT !.conds =
                                          SetCondition(InitReady(@), Scheduled, PickedUp)]]

\* Mutant: Ready is not reset.
StartWithoutInit ==
    /\ Take
    /\ seen.gw.alive
    /\ seen.class \in Ours
    /\ queued' = FALSE
    /\ LET c == getOrCreateGatewayConfiguration(seen.class, seen.config)
       IN  /\ c # "absent"
           /\ w' = [Idle EXCEPT !.pc = "dp", !.config = c, !.stale = ("gw" \in pending),
                                !.gw = [seen.gw EXCEPT !.conds =
                                          SetCondition(@, Scheduled, PickedUp)]]

\* Ready is reset in the copy.  The Scheduled condition is looked for under
\* another type than it is set with, so it is set in every pass.
StartProvisioning ==
    /\ Take
    /\ seen.gw.alive
    /\ seen.class \in Ours
    /\ queued' = FALSE
    /\ LET c == getOrCreateGatewayConfiguration(seen.class, seen.config)
       IN  /\ c # "absent"
           /\ w' = [Idle EXCEPT !.pc = "dp", !.config = c, !.stale = ("gw" \in pending),
                                !.gw = [seen.gw EXCEPT !.conds =
                                          SetCondition(InitReady(@), Scheduled, PickedUp)]]

-----------------------------------------------------------------------------
(* Reconcile: provisionDataPlane and provisionControlPlane *)

\* The plane's condition is set and Reconcile goes on to updateStatus.
ReportPlane(k, condition) ==
    Goto("status", SetCondition(w.gw.conds, ReadyTypeOf(k), condition))

\* setControlplaneGatewayConfigDefaults keeps the variables that the
\* configuration sets, and takes the others from the DataPlane's Service.
ServiceFor(c, services) ==
    IF c = "override" THEN UserService ELSE (CHOOSE s \in services : TRUE).name

\* Mutant: the ControlPlane keeps the DataPlane that it was created with.
KeepDataPlane(k, o) ==
    IF k = "dp"
    THEN [o EXCEPT !.opts = OptionsOf(k, w.config)]
    ELSE [o EXCEPT !.opts = OptionsOf(k, w.config),
                   !.svc = ServiceFor(w.config, ListServicesForOwner(w.held["dp"])),
                   !.dp = IF @ = NoName THEN w.held["dp"] ELSE @]

\* The plane with the options that the configuration and the defaults give.
Configured(k, o) ==
    IF k = "dp"
    THEN [o EXCEPT !.opts = OptionsOf(k, w.config)]
    ELSE [o EXCEPT !.opts = OptionsOf(k, w.config),
                   !.svc = ServiceFor(w.config, ListServicesForOwner(w.held["dp"])),
                   !.dp = w.held["dp"]]

\* The names that the API server can generate for a new object of kind k, or
\* for a Service: nothing that is there, or is referred to, has them.
Fresh(k) ==
    LET everything == UNION {owned[j] \cup cache[j] : j \in Kinds}
    IN  {n \in Names :
           CASE k = "svc" -> /\ n \notin NamesOf(svcs \cup seen.svcs)
                             /\ \A o \in everything : n # o.svc
                             /\ n \notin {gw.addrs.svc, seen.gw.addrs.svc, w.gw.addrs.svc}
             [] OTHER -> /\ n \notin NamesOf(owned[k] \cup cache[k])
                         /\ k \in Planes => n # w.held[k]
                         /\ k = "dp" => /\ \A o \in everything : n # o.dp
                                        /\ \A s \in svcs \cup seen.svcs : n # s.of
                         /\ k = "cp" => \A o \in everything : n # o.cp}
NewName(k) == CHOOSE n \in Fresh(k) : TRUE

\* The admission webhook looks at every DataPlane that is created or updated.
Admitted(k, o) == ~(hook /\ k = "dp" /\ o.opts = "invalid")

AtPlane(k) ==
    /\ w.pc = k
    /\ k = "cp" => \E s \in ListServicesForOwner(w.held["dp"]) :
                      ListServicesForOwner(w.held["dp"]) = {s}
    /\ UNCHANGED <<gw, class, config, svcs, cacheVars, boundVars>>

\* The list of the DataPlane's Services, before the ControlPlane is looked for.
NotOneService ==
    /\ w.pc = "cp"
    /\ ~\E s \in ListServicesForOwner(w.held["dp"]) :
           ListServicesForOwner(w.held["dp"]) = {s}
    /\ Return(TRUE)
    /\ UNCHANGED <<objectVars, cacheVars, pending, boundVars>>

\* Mutant: the pass ends without a word.
IgnoreSeveral(k) ==
    /\ AtPlane(k)
    /\ MoreThanOne(List(k))
    /\ Return(FALSE)
    /\ UNCHANGED <<owned, pending>>

FoundSeveral(k) ==
    /\ AtPlane(k)
    /\ MoreThanOne(List(k))
    /\ ReportPlane(k, UnableToProvision("several"))
    /\ UNCHANGED <<owned, pending>>

\* Mutant: one plane does not count.
CreateAgain(k) ==
    /\ AtPlane(k)
    /\ ~MoreThanOne(List(k))
    /\ Fresh(k) # {}
    /\ Write(k, owned[k] \cup {Configured(k, Plain(NewName(k)))})
    /\ ReportPlane(k, Created)

CreatePlane(k) ==
    /\ AtPlane(k)
    /\ List(k) = {}
    /\ Fresh(k) # {}
    /\ LET new == Configured(k, Plain(NewName(k)))
       IN  IF Admitted(k, new)
           THEN /\ Write(k, owned[k] \cup {new})
                /\ ReportPlane(k, Created)
           ELSE /\ ReportPlane(k, UnableToProvision("rejected"))
                /\ UNCHANGED <<owned, pending>>

\* Reconcile goes on with a plane that is ready.
UsePlane(k, o) ==
    IF o.ready
    THEN /\ w' = [w EXCEPT !.pc = IF k = "dp" THEN "cp" ELSE "np", !.held[k] = o.name,
                           !.gw.conds = SetCondition(@, ReadyTypeOf(k), ResourceReady)]
         /\ UNCHANGED queued
    ELSE ReportPlane(k, Waiting)

\* The resource version of a listed object can be an old one: the object has
\* changed, or an event on its way may be of a change that does not show in it.
Outdated(k, o) == o \notin owned[k] \/ (k \in CachedKinds /\ k \in pending)

\* Options that differ are updated, and the plane is used with the status that
\* it has for the old ones.
UpdatePlane(k) ==
    /\ AtPlane(k)
    /\ \E o \in List(k) :
          /\ List(k) = {o} /\ Configured(k, o) # o
          /\ \/ /\ o \in owned[k] /\ Admitted(k, Configured(k, o))
                /\ Replace(k, o, Configured(k, o))
                /\ UsePlane(k, o)
             \/ /\ o \in owned[k] /\ ~Admitted(k, Configured(k, o))
                /\ ReportPlane(k, UnableToProvision("rejected"))
                /\ UNCHANGED <<owned, pending>>
             \/ /\ Outdated(k, o)
                /\ ReportPlane(k, UnableToProvision("conflict"))
                /\ UNCHANGED <<owned, pending>>

HavePlane(k) ==
    /\ AtPlane(k)
    /\ \E o \in List(k) :
          /\ List(k) = {o} /\ Configured(k, o) = o
          /\ UsePlane(k, o)
    /\ UNCHANGED <<owned, pending>>

-----------------------------------------------------------------------------
(* Reconcile: ensureDataPlaneHasNetworkPolicy *)

generateDataPlaneNetworkPolicy(n) ==
    [Plain(n) EXCEPT !.dp = w.held["dp"], !.cp = w.held["cp"]]

AtPolicy ==
    /\ w.pc = "np"
    /\ UNCHANGED <<gw, class, config, svcs, cacheVars, boundVars>>

TooManyPolicies ==
    /\ AtPolicy
    /\ MoreThanOne(List("np"))
    /\ Return(TRUE)
    /\ UNCHANGED <<owned, pending>>

CreatePolicy ==
    /\ AtPolicy
    /\ List("np") = {}
    /\ Fresh("np") # {}
    /\ Write("np", owned["np"] \cup {generateDataPlaneNetworkPolicy(NewName("np"))})
    /\ Return(FALSE)

\* Only the metadata of an existing policy is compared with the generated.
RepairPolicy ==
    /\ AtPolicy
    /\ \E o \in List("np") :
          /\ List("np") = {o} /\ o.drift
          /\ \/ o \in owned["np"] /\ Replace("np", o, [o EXCEPT !.drift = FALSE]) /\ Return(FALSE)
             \/ Outdated("np", o) /\ Return(TRUE) /\ UNCHANGED <<owned, pending>>

HavePolicy ==
    /\ AtPolicy
    /\ \E o \in List("np") : List("np") = {o} /\ ~o.drift
    /\ Goto("mark", w.gw.conds)
    /\ UNCHANGED <<owned, pending>>

-----------------------------------------------------------------------------
(* Reconcile: ensureGatewayMarkedReady and the end of the pass *)

\* The last lines of Reconcile, on the copy that ensureGatewayMarkedReady left.
Conclude(conds, service) ==
    LET marked == SetCondition(conds, GatewayService, service)
    IN  IF IsReady(marked) THEN marked ELSE SetReady(marked)

\* Mutant: a DataPlane without a Service is no reason not to be ready.
AddressErrorsOnly(services) ==
    IF \E s \in services : s.reach = "none" THEN "no address" ELSE "none"

\* What is wrong with the DataPlane's Services, "none" if nothing is.
ServiceError(services) ==
    CASE services = {} \/ MoreThanOne(services) -> "no service"
      [] \E s \in services : s.reach = "none" -> "no address"
      [] OTHER -> "none"

AddressesOf(services) ==
    LET s == CHOOSE s \in services : TRUE
    IN  IF services = {} THEN NoAddresses ELSE [svc |-> s.name, lb |-> (s.reach = "lb")]

AtMark ==
    /\ w.pc = "mark"
    /\ UNCHANGED <<class, config, owned, svcs, cacheVars, queued, boundVars>>

ServiceNotReady ==
    /\ AtMark
    /\ LET e == ServiceError(ListServicesForOwner(w.held["dp"]))
       IN  /\ e # "none"
           /\ Goto("status", Conclude(w.gw.conds, GatewayServiceError(e)))
    /\ UNCHANGED <<gw, pending>>

\* Mutant: addresses that are set are not set again.
MarkedOnce ==
    [w.gw EXCEPT !.addrs = IF @ = NoAddresses
                           THEN AddressesOf(ListServicesForOwner(w.held["dp"])) ELSE @,
                 !.conds = SetReady(@)]

\* The copy with the addresses and Ready, as it is sent to the API server.
Marked ==
    [w.gw EXCEPT !.addrs = AddressesOf(ListServicesForOwner(w.held["dp"])),
                 !.conds = SetReady(@)]

\* The status is written whether it has changed or not.  A write that changes
\* nothing but the times of the conditions still gives an event, if a second
\* has passed since the last.
MarkReady ==
    /\ AtMark
    /\ ServiceError(ListServicesForOwner(w.held["dp"])) = "none"
    /\ ~Refused
    /\ gw' = Marked
    /\ \/ pending' = pending \cup {"gw"}
       \/ Marked = gw /\ UNCHANGED pending
    /\ w' = [w EXCEPT !.pc = "status", !.stale = FALSE,
                      !.gw = [Marked EXCEPT !.conds = Conclude(@, ResourceReady)]]

\* A copy that says Ready keeps saying so when the write fails.
NotMarked ==
    w' = [w EXCEPT !.pc = "status",
                   !.gw = [Marked EXCEPT !.conds =
                              Conclude(@, GatewayServiceError("not written"))]]

MarkRefused ==
    /\ AtMark
    /\ ServiceError(ListServicesForOwner(w.held["dp"])) = "none"
    /\ Refused
    /\ NotMarked
    /\ UNCHANGED <<gw, pending>>

\* updateStatus and return.  The current conditions come from the cache.
updateStatus ==
    /\ w.pc = "status"
    /\ LET current == IF seen.gw.alive THEN seen.gw.conds ELSE NoConditions
       IN  IF NeedsUpdate(current, w.gw.conds)
           THEN \/ ~Refused /\ gw' = w.gw /\ pending' = pending \cup {"gw"} /\ Return(FALSE)
                \/ Refused /\ Return(TRUE) /\ UNCHANGED <<gw, pending>>
           ELSE Return(FALSE) /\ UNCHANGED <<gw, pending>>
    /\ UNCHANGED <<class, config, owned, svcs, cacheVars, boundVars>>

Reconcile ==
    \/ GetNotFound
    \/ UnsupportedGateway
    \/ ClassNotFound
    \/ ConfigurationNotFound
    \/ StartProvisioning
    \/ \E k \in Planes : FoundSeveral(k) \/ CreatePlane(k) \/ UpdatePlane(k) \/ HavePlane(k)
    \/ NotOneService
    \/ TooManyPolicies
    \/ CreatePolicy
    \/ RepairPolicy
    \/ HavePolicy
    \/ ServiceNotReady
    \/ MarkReady
    \/ MarkRefused
    \/ updateStatus

-----------------------------------------------------------------------------
(* Failures of the API server's calls and of the operator *)

Fault ==
    /\ faults < MaxFaults /\ (Mixed \/ edits = 0)
    /\ faults' = faults + 1
    /\ UNCHANGED <<objectVars, hook, edits>>

\* A failed list, create or update of a plane is a condition, not an error.
PlaneCallFails ==
    /\ Fault
    /\ w.pc \in Planes
    /\ ReportPlane(w.pc, UnableToProvision("no answer"))
    /\ UNCHANGED <<cacheVars, pending>>

\* So is a failed write of the status in ensureGatewayMarkedReady.
MarkFails ==
    /\ Fault
    /\ w.pc = "mark"
    /\ ServiceError(ListServicesForOwner(w.held["dp"])) = "none"
    /\ NotMarked
    /\ UNCHANGED <<cacheVars, pending, queued>>

\* Any other failed call is the error that Reconcile returns.
APIError ==
    /\ Fault
    /\ w.pc \in {"np", "status"}
    /\ Return(TRUE)
    /\ UNCHANGED <<cacheVars, pending>>

\* The operator crashes and starts again: what it held is lost, the caches are
\* filled from the API server and every Gateway is queued.
Restart ==
    /\ Fault
    /\ w' = Idle
    /\ queued' = TRUE
    /\ seen' = [gw |-> gw, class |-> class, config |-> config,
                svcs |-> IF "svc" \in CachedKinds THEN svcs ELSE {}]
    /\ cache' = [k \in Kinds |-> IF k \in CachedKinds THEN owned[k] ELSE {}]
    /\ pending' = {}

-----------------------------------------------------------------------------
(* Informers, predicates and map functions, and the periodic resync *)

Delivered(k) ==
    /\ k \in pending
    /\ pending' = pending \ {k}
    /\ UNCHANGED <<objectVars, w, boundVars>>

\* Only a class that is known to be another controller's stops an event.
gatewayHasMatchingGatewayClass(cl) == cl # "foreign"

DeliverGateway ==
    /\ Delivered("gw")
    /\ seen' = [seen EXCEPT !.gw = gw]
    /\ queued' = (queued \/ gatewayHasMatchingGatewayClass(seen.class))
    /\ UNCHANGED cache

\* Mutant: a class that is this controller's only now is not noticed.
WasOurs(old, new) == old \in Ours

\* The predicate looks at the new object, or at the last known one of a deletion.
gatewayClassMatchesController(old, new) ==
    IF new = "absent" THEN old \in Ours ELSE new \in Ours

DeliverClass ==
    /\ Delivered("class")
    /\ seen' = [seen EXCEPT !.class = class]
    /\ queued' = (queued \/ ( /\ gatewayClassMatchesController(seen.class, class)
                              /\ seen.gw.alive))
    /\ UNCHANGED cache

\* Mutant: no Gateway is found for a configuration.
NoGateways(cl) == FALSE

\* gatewayConfigurationMatchesController and listGatewaysForGatewayConfig: the
\* Gateways of the classes that refer to the configuration.
listGatewaysForGatewayConfig(cl) == cl = "ref"

DeliverConfig ==
    /\ Delivered("config")
    /\ seen' = [seen EXCEPT !.config = config]
    /\ queued' = (queued \/ (listGatewaysForGatewayConfig(seen.class) /\ seen.gw.alive))
    /\ UNCHANGED cache

DeliverOwned(k) ==
    /\ Delivered(k)
    /\ cache' = IF k \in CachedKinds THEN [cache EXCEPT ![k] = owned[k]] ELSE cache
    /\ queued' = TRUE
    /\ UNCHANGED seen

\* Services are read from the cache and not watched.
DeliverServices ==
    /\ Delivered("svc")
    /\ seen' = [seen EXCEPT !.svcs = IF "svc" \in CachedKinds THEN svcs ELSE {}]
    /\ UNCHANGED <<cache, queued>>

\* The resync period is far longer than the delivery of an event.
Resync ==
    /\ seen.gw.alive
    /\ pending = {} /\ ~queued /\ w.pc = "idle"
    /\ queued' = gatewayHasMatchingGatewayClass(seen.class)
    /\ UNCHANGED <<objectVars, cacheVars, pending, w, boundVars>>

-----------------------------------------------------------------------------
(* The controllers of the planes, and garbage collection *)

Others == UNCHANGED <<gw, class, config, cacheVars, queued, w, boundVars>>

\* The objects of a removed Gateway are left to the garbage collector: what the
\* two controllers still do to them is collected as well.

\* The DataPlane controller makes a Service and names it in the status; then it
\* reports whether the options are valid.  A ready DataPlane with valid options
\* that change stays ready.
DataPlaneController ==
    /\ gw.alive
    /\ \E o \in owned["dp"] :
          \/ /\ ServicesOf(svcs, o.name) = {} /\ Fresh("svc") # {}
             /\ svcs' = svcs \cup {[name |-> NewName("svc"), of |-> o.name,
                                    reach |-> "cluster"]}
             /\ pending' = pending \cup {"svc", "dp"}
             /\ UNCHANGED owned
          \/ /\ ServicesOf(svcs, o.name) # {}
             /\ o.ready # (o.opts # "invalid")
             /\ Replace("dp", o, [o EXCEPT !.ready = ~@])
             /\ UNCHANGED svcs
    /\ Others

\* The ControlPlane controller sets the variables for the DataPlane's Service,
\* whatever they were, and then reports its own pods.
ControlPlaneController ==
    /\ gw.alive
    /\ \E o \in owned["cp"] : \E s \in svcs :
          /\ o.dp \in NamesOf(owned["dp"])
          /\ ServicesOf(svcs, o.dp) = {s}
          /\ \/ o.svc # s.name /\ Replace("cp", o, [o EXCEPT !.svc = s.name])
             \/ o.svc = s.name /\ ~o.ready /\ Replace("cp", o, [o EXCEPT !.ready = TRUE])
    /\ UNCHANGED svcs
    /\ Others

\* Mutant: the NetworkPolicy has no owner reference.
PolicyNotCollected ==
    /\ \/ ~gw.alive /\ UNCHANGED svcs /\ \E k \in Planes : owned[k] # {} /\ Write(k, {})
       \/ \E s \in svcs : /\ s.of \notin NamesOf(owned["dp"])
                          /\ svcs' = svcs \ {s}
                          /\ pending' = pending \cup {"svc"}
                          /\ UNCHANGED owned
    /\ Others

\* What a Gateway or a DataPlane owned goes after it.
GarbageCollect ==
    /\ \/ ~gw.alive /\ UNCHANGED svcs /\ \E k \in Kinds : owned[k] # {} /\ Write(k, {})
       \/ \E s \in svcs : /\ s.of \notin NamesOf(owned["dp"])
                          /\ svcs' = svcs \ {s}
                          /\ pending' = pending \cup {"svc"}
                          /\ UNCHANGED owned
    /\ Others

-----------------------------------------------------------------------------
(* Users *)

Edit ==
    /\ edits < MaxEdits /\ (Mixed \/ faults = 0)
    /\ edits' = edits + 1
    /\ UNCHANGED <<cacheVars, queued, hook, faults>>

\* The Gateway is deleted, or its metadata changed: the resource version of the
\* worker's copy is no longer the stored one.
EditGateway ==
    /\ Edit
    /\ gw.alive
    /\ gw' \in {gw, NoGateway}
    /\ pending' = pending \cup {"gw"}
    /\ w' = [w EXCEPT !.stale = (w.pc # "idle")]
    /\ UNCHANGED <<class, config, owned, svcs>>

EditClass ==
    /\ Edit
    /\ class' \in UserClasses \ {class}
    /\ pending' = pending \cup {"class"}
    /\ UNCHANGED <<gw, config, owned, svcs, w>>

EditConfig ==
    /\ Edit
    /\ config' \in UserConfigs \ {config}
    /\ pending' = pending \cup {"config"}
    /\ UNCHANGED <<gw, class, owned, svcs, w>>

\* Deleted, or no longer labelled or owned; changed options; changed metadata.
EditOwned ==
    /\ Edit
    /\ \E k \in Kinds : \E o \in owned[k] :
          \/ Write(k, owned[k] \ {o})
          \/ k \in Planes /\ o.opts # "edited" /\ Replace(k, o, [o EXCEPT !.opts = "edited"])
          \/ k = "np" /\ ~o.drift /\ Replace(k, o, [o EXCEPT !.drift = TRUE])
    /\ UNCHANGED <<gw, class, config, svcs, w>>

\* A Service is deleted, gets a load balancer or loses its address.
EditService ==
    /\ Edit
    /\ \E s \in svcs : svcs' \in
          {svcs \ {s}} \cup
          {(svcs \ {s}) \cup {[s EXCEPT !.reach = r]} : r \in Reaches \ {s.reach}}
    /\ pending' = pending \cup {"svc"}
    /\ UNCHANGED <<gw, class, config, owned, w>>

-----------------------------------------------------------------------------

Init ==
    /\ gw = [NoGateway EXCEPT !.alive = TRUE]
    /\ class \in UserClasses
    /\ config \in UserConfigs
    /\ owned = [k \in Kinds |-> {}]
    /\ svcs = {}
    /\ seen = [gw |-> NoGateway, class |-> class, config |-> config, svcs |-> {}]
    /\ cache = [k \in Kinds |-> {}]
    /\ pending = {"gw"}
    /\ queued = FALSE
    /\ w = Idle
    /\ hook \in Hooks
    /\ edits = 0
    /\ faults = 0

Next ==
    \/ Reconcile
    \/ PlaneCallFails
    \/ MarkFails
    \/ APIError
    \/ Restart
    \/ DeliverGateway
    \/ DeliverClass
    \/ DeliverConfig
    \/ \E k \in Kinds : DeliverOwned(k)
    \/ DeliverServices
    \/ Resync
    \/ DataPlaneController
    \/ ControlPlaneController
    \/ GarbageCollect
    \/ EditGateway
    \/ EditClass
    \/ EditConfig
    \/ EditOwned
    \/ EditService

Spec == Init /\ [][Next]_vars

\* The worker, the informers, the other controllers and the garbage collector
\* keep running.  Nothing is promised of users and failures.
Fairness ==
    /\ WF_vars(Reconcile)
    /\ WF_vars(DeliverGateway)
    /\ WF_vars(DeliverClass)
    /\ WF_vars(DeliverConfig)
    /\ \A k \in Kinds : WF_vars(DeliverOwned(k))
    /\ WF_vars(DeliverServices)
    /\ WF_vars(DataPlaneController)
    /\ WF_vars(ControlPlaneController)
    /\ WF_vars(GarbageCollect)

FairSpec == Spec /\ Fairness

\* With the informers' periodic resync (every ten hours) as well.
FairResyncSpec == FairSpec /\ WF_vars(Resync)

-----------------------------------------------------------------------------
(* Properties *)

\* Every variable keeps its type: the stored and cached objects, the worker.
TypeOK ==
    /\ IsGateway(gw) /\ IsGateway(seen.gw) /\ IsGateway(w.gw)
    /\ {class, seen.class} \subseteq Classes
    /\ {config, seen.config, w.config} \subseteq Configs
    /\ \A k \in Kinds : owned[k] \subseteq Object /\ cache[k] \subseteq Object
    /\ svcs \cup seen.svcs \subseteq Service
    /\ pending \subseteq Kinds \cup {"gw", "class", "config", "svc"}
    /\ queued \in BOOLEAN
    /\ w.pc \in Steps /\ w.stale \in BOOLEAN
    /\ w.held \in [Planes -> Names \cup {NoName}]
    /\ hook \in Hooks
    /\ edits \in 0..MaxEdits
    /\ faults \in 0..MaxFaults

\* A Gateway that is stored as ready has an address, through failed writes,
\* lost Services and the second status update of the pass.
ReadyHasAddress == IsReady(gw.conds) => gw.addrs # NoAddresses

\* A stored Ready that another condition contradicts (which the two status
\* updates of a pass can leave behind when the first fails) is not left
\* standing: a pass is under way, queued or announced by an event.
ContradictionInFlight ==
    gw.alive /\ IsReady(gw.conds) /\ ~areAllConditionsReady(gw.conds) =>
        \/ w.pc # "idle" \/ queued \/ pending \cap (Kinds \cup {"gw"}) # {}
        \/ seen.class \notin Ours

\* A second plane or policy is only ever created while the first has not yet
\* reached the cache that the controller lists.
DuplicatesOnlyFromStaleCache ==
    [][\A k \in Kinds :
          owned[k] # {} /\ ~(NamesOf(owned'[k]) \subseteq NamesOf(owned[k]))
             => k \in pending /\ k \in CachedKinds]_vars

\* The configuration that the stored class leads to.
Wanted == getOrCreateGatewayConfiguration(class, config)

\* A Gateway that is this controller's to provision, with a configuration.
Supported == gw.alive /\ class \in Ours /\ Wanted # "absent"

\* Two planes or policies: Reconcile does not get past them.
Wedged == \E k \in Kinds : MoreThanOne(owned[k])

\* A failure of the API server is the last word on a plane.  The same failure
\* twice changes no condition, so that no event brings the Gateway back.
GivenUp ==
    \E k \in Planes : /\ HasCondition(gw.conds, ReadyTypeOf(k))
                      /\ gw.conds[ReadyTypeOf(k)] = UnableToProvision("no answer")

\* A Service that gives no address.
Unaddressed == \E s \in svcs : s.reach = "none"

\* Without the help of a resync, a Gateway whose configuration is, for good,
\* one that DataPlanes may have, is reported ready, whatever was edited, lost or
\* delivered late before.
BecomesReady ==
    <>[](Supported /\ Wanted \in {"empty", "custom"}) =>
        <>[](Wedged \/ GivenUp \/ Unaddressed \/ IsReady(gw.conds))

\* With a resync, also after any failures.
RecoversFromFailures ==
    WF_vars(Resync) /\ <>[](Supported /\ Wanted \in {"empty", "custom"}) =>
        <>[](Wedged \/ Unaddressed \/ IsReady(gw.conds))

\* Options that no DataPlane may have, and that only the DataPlane controller finds
\* out about, end in a Gateway that is not ready, though this controller uses the
\* old status of a DataPlane that it has just updated.
InvalidNotReady ==
    <>[](Supported /\ Wanted = "invalid") => <>[](Wedged \/ GivenUp \/ ~IsReady(gw.conds))

\* Both planes end up with the options of the configuration, the ControlPlane
\* with the DataPlane that there is, also if it was replaced, and edits of users
\* are undone.
PlanesFollow ==
    \A c \in {"empty", "custom"} :
        <>[](Supported /\ Wanted = c) =>
            <>[](Wedged \/ GivenUp \/
                 ( /\ \A k \in Planes : \A o \in owned[k] : o.opts = OptionsOf(k, c)
                   /\ \A o \in owned["cp"] : o.dp \in NamesOf(owned["dp"])))

\* The addresses in the status end up being those of the Service, which no watch
\* of this controller reports.
AddressesFollow ==
    WF_vars(Resync) /\ <>[](Supported /\ Wanted \in {"empty", "custom"}) =>
        <>[](Wedged \/ Unaddressed \/ gw.addrs = AddressesOf(svcs))

\* Two DataPlanes, which the controller cannot choose between, are reported.
DuplicatesReported ==
    <>[](Supported /\ MoreThanOne(owned["dp"])) =>
        <>[]( /\ ~IsReady(gw.conds)
              /\ HasCondition(gw.conds, DataPlaneReady)
              /\ gw.conds[DataPlaneReady].reason = "UnableToProvision")

\* What a removed Gateway owned goes for good: no late pass brings it back.
NothingComesBack ==
    <>[]~gw.alive => <>[](svcs = {} /\ \A k \in Kinds : owned[k] = {})

\* The NetworkPolicy ends up being about the planes that there are.
PolicyFollows ==
    <>[](Supported /\ Wanted = "empty") =>
        <>[](Wedged \/ \A o \in owned["np"] :
                          o.dp \in NamesOf(owned["dp"]) /\ o.cp \in NamesOf(owned["cp"]))

\* The overrides of a GatewayConfiguration hold for the ControlPlane.
OverridesHold ==
    <>[](Supported /\ Wanted = "override") =>
        <>[](Wedged \/ \A o \in owned["cp"] : o.svc = UserService)

=============================================================================
