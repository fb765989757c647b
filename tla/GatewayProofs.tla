---------------------------- MODULE GatewayProofs ----------------------------
(***************************************************************************)
(* Theorems about Gateway, for every number of names, edits and faults and *)
(* every choice of what the client reads from its caches.                  *)
(***************************************************************************)
EXTENDS Gateway, TLAPS

-----------------------------------------------------------------------------
(* Types *)

\* The slices of conditions, the Gateways, what the caches show and the worker.
Conds == ConditionsOver(ConditionTypes, ConditionValues)
Gateways == [alive : BOOLEAN, conds : Conds, addrs : Addresses]
Views == [gw : Gateways, class : Classes, config : Configs, svcs : SUBSET Service]
Holdings == [Planes -> Names \cup {NoName}]
Workers ==
    [pc : Steps, gw : Gateways, stale : BOOLEAN, config : Configs, held : Holdings]

\* TypeOK, and that the records and functions have no other fields.
TypeInv ==
    /\ gw \in Gateways
    /\ class \in Classes /\ config \in Configs
    /\ owned \in [Kinds -> SUBSET Object] /\ cache \in [Kinds -> SUBSET Object]
    /\ svcs \subseteq Service
    /\ seen \in Views
    /\ w \in Workers
    /\ pending \subseteq Kinds \cup {"gw", "class", "config", "svc"}
    /\ queued \in BOOLEAN
    /\ hook \in Hooks
    /\ edits \in 0..MaxEdits
    /\ faults \in 0..MaxFaults

\* A Gateway has the fields of one, and its conditions are of the known types.
LEMMA GatewayFields ==
    ASSUME NEW g \in Gateways
    PROVE  /\ g.alive \in BOOLEAN /\ g.conds \in Conds /\ g.addrs \in Addresses
           /\ IsGateway(g)
<1>1. g.alive \in BOOLEAN /\ g.conds \in Conds /\ g.addrs \in Addresses
  BY DEF Gateways
<1>2. PICK present \in SUBSET ConditionTypes : g.conds \in [present -> ConditionValues]
  BY <1>1 DEF Conds, ConditionsOver
<1>3. /\ DOMAIN g.conds \subseteq ConditionTypes
      /\ \A t \in DOMAIN g.conds : g.conds[t] \in ConditionValues
  BY <1>2
<1>4. DOMAIN g = DOMAIN NoGateway
  BY DEF Gateways, NoGateway
<1> QED
  BY <1>1, <1>3, <1>4 DEF IsGateway

\* The type invariant is the stronger one.
LEMMA TypeInvSuffices == TypeInv => TypeOK
<1> SUFFICES ASSUME TypeInv PROVE TypeOK
  OBVIOUS
<1>1. IsGateway(gw) /\ IsGateway(seen.gw) /\ IsGateway(w.gw)
  BY GatewayFields DEF TypeInv, Views, Workers
<1>2. /\ {class, seen.class} \subseteq Classes
      /\ {config, seen.config, w.config} \subseteq Configs
      /\ svcs \cup seen.svcs \subseteq Service
      /\ w.pc \in Steps /\ w.stale \in BOOLEAN /\ w.held \in Holdings
  BY DEF TypeInv, Views, Workers
<1>3. \A k \in Kinds : owned[k] \subseteq Object /\ cache[k] \subseteq Object
  BY DEF TypeInv
<1> QED
  BY <1>1, <1>2, <1>3 DEF TypeInv, TypeOK, Holdings

\* SetCondition yields conditions again.
LEMMA SetConditionType ==
    ASSUME NEW conds \in Conds, NEW t \in ConditionTypes, NEW c \in ConditionValues
    PROVE  SetCondition(conds, t, c) \in Conds
<1>1. PICK present \in SUBSET ConditionTypes : conds \in [present -> ConditionValues]
  BY DEF Conds, ConditionsOver
<1>2. present \cup {t} \in SUBSET ConditionTypes
  OBVIOUS
<1>3. SetCondition(conds, t, c) \in [present \cup {t} -> ConditionValues]
  BY <1>1 DEF SetCondition
<1> QED
  BY <1>2, <1>3 DEF Conds, ConditionsOver

\* The conditions that the controller sets are conditions of the Gateway.
LEMMA KnownConditions ==
    /\ {NotReady, ResourceReady, PickedUp, Created, Waiting} \subseteq ConditionValues
    /\ \A m \in ProvisionErrors : UnableToProvision(m) \in ConditionValues
    /\ \A m \in ServiceErrors : GatewayServiceError(m) \in ConditionValues
    /\ {ReadyType, Scheduled, GatewayService} \subseteq ConditionTypes
    /\ \A k \in Planes : ReadyTypeOf(k) \in ConditionTypes
BY DEF ConditionValues, ConditionTypes, ReadyTypeOf

\* The status helpers map conditions to conditions.
LEMMA StatusTypes ==
    ASSUME NEW conds \in Conds
    PROVE  /\ InitReady(conds) \in Conds
           /\ SetReady(conds) \in Conds
           /\ SetCondition(InitReady(conds), Scheduled, PickedUp) \in Conds
           /\ \A c \in ConditionValues : Conclude(conds, c) \in Conds
<1>1. ASSUME NEW cs \in Conds
      PROVE  InitReady(cs) \in Conds /\ SetReady(cs) \in Conds
  BY <1>1, SetConditionType, KnownConditions DEF InitReady, SetReady
<1>2. SetCondition(InitReady(conds), Scheduled, PickedUp) \in Conds
  BY <1>1, SetConditionType, KnownConditions
<1>3. ASSUME NEW c \in ConditionValues
      PROVE  Conclude(conds, c) \in Conds
  <2>1. SetCondition(conds, GatewayService, c) \in Conds
    BY SetConditionType, KnownConditions
  <2> QED
    BY <1>1, <2>1 DEF Conclude
<1> QED
  BY <1>1, <1>2, <1>3

\* The empty slice, the absent Gateway and the idle worker are well typed.
LEMMA ConstantTypes ==
    /\ NoAddresses \in Addresses
    /\ NoGateway \in Gateways
    /\ [NoGateway EXCEPT !.alive = TRUE] \in Gateways
    /\ Idle \in Workers
<1>1. NoConditions \in Conds
  <2>1. NoConditions \in [{} -> ConditionValues]
    BY DEF NoConditions
  <2> QED
    BY <2>1 DEF Conds, ConditionsOver
<1>2. NoAddresses \in Addresses
  BY DEF NoAddresses, Addresses
<1>3. NoGateway \in Gateways /\ [NoGateway EXCEPT !.alive = TRUE] \in Gateways
  BY <1>1, <1>2 DEF NoGateway, Gateways
<1>4. Idle \in Workers
  BY <1>3 DEF Idle, Workers, Steps, Configs, Holdings
<1> QED
  BY <1>2, <1>3, <1>4

\* The initial states are well typed.
LEMMA InitType == Init => TypeInv
<1> SUFFICES ASSUME Init PROVE TypeInv
  OBVIOUS
<1>1. gw \in Gateways /\ w \in Workers
  BY ConstantTypes DEF Init
<1>2. class \in Classes /\ config \in Configs
  BY ConstantsAssumption DEF Init
<1>3. seen \in Views
  BY <1>2, ConstantTypes DEF Init, Views
<1>4. /\ owned \in [Kinds -> SUBSET Object] /\ cache \in [Kinds -> SUBSET Object]
      /\ svcs \subseteq Service
  BY DEF Init
<1>5. edits \in 0..MaxEdits /\ faults \in 0..MaxFaults
  BY ConstantsAssumption DEF Init
<1> QED
  BY <1>1, <1>2, <1>3, <1>4, <1>5 DEF Init, TypeInv

-----------------------------------------------------------------------------
(* What the helpers of a step return *)

\* What the worker holds is well typed, and what it reads.
LEMMA HeldTypes ==
    ASSUME TypeInv
    PROVE  /\ w.gw \in Gateways /\ w.gw.conds \in Conds /\ w.gw.alive \in BOOLEAN
           /\ w.config \in Configs /\ w.stale \in BOOLEAN /\ w.pc \in Steps
           /\ w.held \in Holdings /\ w.held["dp"] \in Names \cup {NoName}
           /\ w.held["cp"] \in Names \cup {NoName}
           /\ seen.gw \in Gateways /\ seen.gw.conds \in Conds
           /\ seen.class \in Classes /\ seen.config \in Configs
           /\ seen.svcs \subseteq Service
<1>1. /\ w.gw \in Gateways /\ w.config \in Configs /\ w.stale \in BOOLEAN
      /\ w.pc \in Steps /\ w.held \in Holdings
      /\ seen.gw \in Gateways /\ seen.class \in Classes /\ seen.config \in Configs
      /\ seen.svcs \subseteq Service
  BY DEF TypeInv, Workers, Views
<1>2. w.held["dp"] \in Names \cup {NoName} /\ w.held["cp"] \in Names \cup {NoName}
  BY <1>1 DEF Holdings, Planes
<1> QED
  BY <1>1, <1>2, GatewayFields

\* Reconcile returns.
LEMMA ReturnType ==
    ASSUME TypeInv, NEW b \in BOOLEAN, Return(b)
    PROVE  w' \in Workers /\ queued' \in BOOLEAN
<1>1. (queued \/ b) \in BOOLEAN
  OBVIOUS
<1> QED
  BY <1>1, ConstantTypes, Zenon DEF Return

\* Reconcile goes on with other conditions in its copy.
LEMMA GotoType ==
    ASSUME TypeInv, NEW pc \in Steps, NEW conds \in Conds, Goto(pc, conds)
    PROVE  /\ w' \in Workers /\ queued' = queued
           /\ w'.pc = pc /\ w'.stale = w.stale /\ w'.held = w.held
           /\ w'.gw = [w.gw EXCEPT !.conds = conds]
           /\ w'.gw.conds = conds /\ w'.gw.addrs = w.gw.addrs
<1>1. w' = [w EXCEPT !.pc = pc, !.gw = [w.gw EXCEPT !.conds = conds]] /\ queued' = queued
  BY DEF Goto
<1> DEFINE g == [w.gw EXCEPT !.conds = conds]
<1>2. g \in Gateways /\ g.conds = conds /\ g.addrs = w.gw.addrs
  BY HeldTypes DEF Gateways
<1> HIDE DEF g
<1>3. w' = [w EXCEPT !.pc = pc, !.gw = g]
  BY <1>1 DEF g
<1>4. /\ w' \in Workers /\ w'.pc = pc /\ w'.stale = w.stale /\ w'.held = w.held
      /\ w'.gw = g
  BY <1>2, <1>3 DEF TypeInv, Workers
<1> QED
  BY <1>1, <1>2, <1>4 DEF g

\* A plane's condition is set.
LEMMA ReportType ==
    ASSUME TypeInv, NEW k \in Planes, NEW c \in ConditionValues, ReportPlane(k, c)
    PROVE  /\ w' \in Workers /\ queued' = queued
           /\ w'.pc = "status" /\ w'.stale = w.stale
           /\ w'.gw.conds = SetCondition(w.gw.conds, ReadyTypeOf(k), c)
           /\ w'.gw.addrs = w.gw.addrs
<1>1. SetCondition(w.gw.conds, ReadyTypeOf(k), c) \in Conds
  BY HeldTypes, SetConditionType, KnownConditions
<1>2. Goto("status", SetCondition(w.gw.conds, ReadyTypeOf(k), c))
  BY DEF ReportPlane
<1>3. "status" \in Steps
  BY DEF Steps
<1> QED
  BY <1>1, <1>2, <1>3, GotoType

\* Reconcile uses a plane.
LEMMA UseType ==
    ASSUME TypeInv, NEW k \in Planes, NEW o \in Object, UsePlane(k, o)
    PROVE  /\ w' \in Workers /\ queued' = queued
           /\ w'.pc \in {"cp", "np", "status"} /\ w'.stale = w.stale
           /\ \E c \in {ResourceReady, Waiting} :
                 w'.gw.conds = SetCondition(w.gw.conds, ReadyTypeOf(k), c)
           /\ w'.gw.addrs = w.gw.addrs
<1>1. CASE o.ready
  <2> DEFINE conds == SetCondition(w.gw.conds, ReadyTypeOf(k), ResourceReady)
             g == [w.gw EXCEPT !.conds = conds]
             pc == IF k = "dp" THEN "cp" ELSE "np"
             held == [w.held EXCEPT ![k] = o.name]
  <2>1. conds \in Conds
    BY HeldTypes, SetConditionType, KnownConditions
  <2>2. pc \in {"cp", "np"} /\ pc \in Steps
    BY DEF Steps
  <2>3. held \in Holdings
    BY HeldTypes DEF Holdings, Object
  <2>4. w' = [w EXCEPT !.pc = pc, !.held = held, !.gw = g] /\ queued' = queued
    BY <1>1, Zenon DEF UsePlane
  <2> HIDE DEF conds, pc, held
  <2>5. g \in Gateways /\ g.conds = conds /\ g.addrs = w.gw.addrs
    BY <2>1, HeldTypes DEF Gateways
  <2> HIDE DEF g
  <2>6. w' \in Workers /\ w'.pc = pc /\ w'.stale = w.stale /\ w'.gw = g
    BY <2>2, <2>3, <2>4, <2>5 DEF TypeInv, Workers
  <2> QED
    BY <2>2, <2>4, <2>5, <2>6 DEF conds
<1>2. CASE ~o.ready
  BY <1>2, ReportType, KnownConditions DEF UsePlane
<1> QED
  BY <1>1, <1>2

\* A list returns objects, and the list of Services Services.
LEMMA ListType ==
    ASSUME TypeInv
    PROVE  /\ \A k \in Kinds : List(k) \subseteq Object
           /\ \A n : ListServicesForOwner(n) \subseteq Service
BY HeldTypes DEF TypeInv, List, ListServicesForOwner, ServicesOf

\* A write of an owned kind keeps the types of what it changes.
LEMMA WriteType ==
    ASSUME TypeInv, NEW k \in Kinds, NEW objects \in SUBSET Object, Write(k, objects)
    PROVE  /\ owned' \in [Kinds -> SUBSET Object]
           /\ pending' \subseteq Kinds \cup {"gw", "class", "config", "svc"}
BY DEF TypeInv, Write

\* A plane with configured options is a plane, and keeps its name.
LEMMA ConfiguredType ==
    ASSUME TypeInv, NEW k \in Planes, AtPlane(k), NEW o \in Object
    PROVE  Configured(k, o) \in Object /\ Configured(k, o).name = o.name
<1>1. OptionsOf(k, w.config) \in Options
  BY DEF OptionsOf, Options
<1>2. CASE k = "dp"
  BY <1>1, <1>2 DEF Configured, Object
<1>3. CASE k # "dp"
  <2> DEFINE service == ServiceFor(w.config, ListServicesForOwner(w.held["dp"]))
  <2>1. service \in Names \cup {UserService}
    <3>1. PICK s \in ListServicesForOwner(w.held["dp"]) :
              ListServicesForOwner(w.held["dp"]) = {s}
      BY <1>3 DEF AtPlane, Planes
    <3>2. s.name \in Names
      BY <3>1, ListType DEF Service
    <3>3. (CHOOSE x \in ListServicesForOwner(w.held["dp"]) : TRUE) = s
      BY <3>1
    <3> QED
      BY <3>2, <3>3 DEF ServiceFor
  <2>2. Configured(k, o) = [o EXCEPT !.opts = OptionsOf(k, w.config), !.svc = service,
                                     !.dp = w.held["dp"]]
    BY <1>3 DEF Configured
  <2> HIDE DEF service
  <2> QED
    BY <1>1, <2>1, <2>2, HeldTypes DEF Object
<1> QED
  BY <1>2, <1>3

\* A generated name is one of the free ones, and a generated object an object.
LEMMA GeneratedType ==
    ASSUME NEW k, Fresh(k) # {}
    PROVE  /\ NewName(k) \in Names
           /\ Plain(NewName(k)) \in Object
<1>1. NewName(k) \in Fresh(k)
  BY DEF NewName
<1>2. NewName(k) \in Names
  BY <1>1 DEF Fresh
<1> QED
  BY <1>2 DEF Plain, Object, Options

\* Without a ServiceError there is one Service, and it gives an address.
LEMMA AddressesGiven ==
    ASSUME NEW services \in SUBSET Service, ServiceError(services) = "none"
    PROVE  AddressesOf(services) \in Addresses /\ AddressesOf(services) # NoAddresses
<1>1. services # {} /\ ~MoreThanOne(services)
  BY DEF ServiceError
<1> DEFINE s == CHOOSE s \in services : TRUE
           lb == (s.reach = "lb")
<1>2. s \in services /\ s.name \in Names
  BY <1>1 DEF Service
<1>3. AddressesOf(services) = [svc |-> s.name, lb |-> lb]
  BY <1>1 DEF AddressesOf
<1>4. lb \in BOOLEAN
  OBVIOUS
<1> HIDE DEF s, lb
<1>5. AddressesOf(services) \in Addresses
  BY <1>2, <1>3, <1>4 DEF Addresses
<1>6. AddressesOf(services).svc # NoName
  BY <1>2, <1>3, ConstantsAssumption
<1> QED
  BY <1>5, <1>6 DEF NoAddresses

\* What is wrong with the Services, if anything is, is a ServiceError.
LEMMA ServiceErrorType ==
    ASSUME NEW services, ServiceError(services) # "none"
    PROVE  ServiceError(services) \in ServiceErrors
BY DEF ServiceError, ServiceErrors

\* The copy with the addresses and Ready.
LEMMA MarkedType ==
    ASSUME TypeInv, ServiceError(ListServicesForOwner(w.held["dp"])) = "none"
    PROVE  /\ Marked \in Gateways
           /\ Marked.alive = w.gw.alive
           /\ Marked.conds = SetReady(w.gw.conds)
           /\ Marked.addrs # NoAddresses
<1> DEFINE addrs == AddressesOf(ListServicesForOwner(w.held["dp"]))
           conds == SetReady(w.gw.conds)
<1>1. addrs \in Addresses /\ addrs # NoAddresses
  BY AddressesGiven, ListType
<1>2. conds \in Conds
  BY HeldTypes, StatusTypes
<1>3. Marked = [w.gw EXCEPT !.addrs = addrs, !.conds = conds]
  BY DEF Marked
<1> HIDE DEF addrs, conds
<1>4. /\ Marked \in Gateways /\ Marked.alive = w.gw.alive
      /\ Marked.conds = conds /\ Marked.addrs = addrs
  BY <1>1, <1>2, <1>3, HeldTypes DEF Gateways
<1> QED
  BY <1>1, <1>4 DEF conds

\* The copy that ensureGatewayMarkedReady leaves, with its last condition.
LEMMA ConcludedType ==
    ASSUME TypeInv, ServiceError(ListServicesForOwner(w.held["dp"])) = "none",
           NEW c \in ConditionValues
    PROVE  LET new == [Marked EXCEPT !.conds = Conclude(@, c)]
           IN  /\ new \in Gateways
               /\ new.conds = Conclude(SetReady(w.gw.conds), c)
               /\ new.addrs = Marked.addrs
<1> DEFINE conds == Conclude(Marked.conds, c)
<1>1. Marked \in Gateways /\ Marked.conds = SetReady(w.gw.conds)
  BY MarkedType
<1>2. conds \in Conds
  BY <1>1, StatusTypes DEF Gateways
<1> HIDE DEF conds
<1>3. LET new == [Marked EXCEPT !.conds = conds]
      IN  new \in Gateways /\ new.conds = conds /\ new.addrs = Marked.addrs
  BY <1>1, <1>2 DEF Gateways
<1> QED
  BY <1>1, <1>3 DEF conds

-----------------------------------------------------------------------------
(* Every step keeps the types *)

\* The pass that begins with the copy in the cache.
LEMMA StartType ==
    ASSUME TypeInv, StartProvisioning
    PROVE  /\ w' \in Workers /\ w'.pc = "dp"
           /\ w'.gw.conds = SetCondition(InitReady(seen.gw.conds), Scheduled, PickedUp)
           /\ w'.stale = ("gw" \in pending)
<1> DEFINE c == getOrCreateGatewayConfiguration(seen.class, seen.config)
           conds == SetCondition(InitReady(seen.gw.conds), Scheduled, PickedUp)
           g == [seen.gw EXCEPT !.conds = conds]
           stale == "gw" \in pending
<1>1. c \in Configs
  BY HeldTypes DEF getOrCreateGatewayConfiguration, Configs
<1>2. conds \in Conds
  BY HeldTypes, StatusTypes
<1>3. stale \in BOOLEAN
  OBVIOUS
<1>4. w' = [Idle EXCEPT !.pc = "dp", !.config = c, !.stale = stale, !.gw = g]
  BY Zenon DEF StartProvisioning
<1> HIDE DEF c, conds, stale
<1>5. g \in Gateways /\ g.conds = conds
  BY <1>2, HeldTypes DEF Gateways
<1> HIDE DEF g
<1>6. w' \in Workers /\ w'.pc = "dp" /\ w'.gw = g /\ w'.stale = stale
  BY <1>1, <1>3, <1>4, <1>5, ConstantTypes DEF Workers, Steps
<1> QED
  BY <1>5, <1>6 DEF conds, stale

\* Steps that begin a pass.
LEMMA TakeType ==
    ASSUME TypeInv,
           \/ GetNotFound \/ UnsupportedGateway \/ ClassNotFound
           \/ ConfigurationNotFound \/ StartProvisioning
    PROVE  TypeInv'
<1>1. w' \in Workers /\ queued' \in BOOLEAN
  BY StartType DEF GetNotFound, UnsupportedGateway, ClassNotFound, ConfigurationNotFound,
     StartProvisioning, TakeAndReturn, TypeInv
<1>2. UNCHANGED <<objectVars, cacheVars, pending, boundVars>>
  BY DEF GetNotFound, UnsupportedGateway, ClassNotFound, ConfigurationNotFound,
     StartProvisioning, TakeAndReturn, Take
<1> QED
  BY <1>1, <1>2 DEF TypeInv, objectVars, cacheVars, boundVars

\* Steps about a plane.
LEMMA PlaneType ==
    ASSUME TypeInv, NEW k \in Planes,
           FoundSeveral(k) \/ CreatePlane(k) \/ UpdatePlane(k) \/ HavePlane(k)
    PROVE  TypeInv'
<1>a. AtPlane(k) /\ k \in Kinds
  BY DEF FoundSeveral, CreatePlane, UpdatePlane, HavePlane, Kinds
<1>b. \A m \in {"several", "rejected", "conflict"} : UnableToProvision(m) \in ConditionValues
  BY KnownConditions DEF ProvisionErrors
<1> DEFINE Typed == /\ w' \in Workers /\ queued' \in BOOLEAN
                    /\ owned' \in [Kinds -> SUBSET Object]
                    /\ pending' \subseteq Kinds \cup {"gw", "class", "config", "svc"}
<1>0. SUFFICES Typed
  BY <1>a DEF AtPlane, TypeInv, cacheVars, boundVars
<1>c. ASSUME UNCHANGED <<owned, pending>>, w' \in Workers, queued' = queued
      PROVE  Typed
  BY <1>c DEF TypeInv
<1>d. ASSUME NEW S \in SUBSET Object, Write(k, S), w' \in Workers, queued' = queued
      PROVE  Typed
  BY <1>a, <1>d, WriteType DEF TypeInv
<1>1. CASE FoundSeveral(k)
  BY <1>1, <1>b, <1>c, ReportType DEF FoundSeveral
<1>2. CASE CreatePlane(k)
  <2> DEFINE new == Configured(k, Plain(NewName(k)))
  <2>1. new \in Object
    BY <1>2, <1>a, GeneratedType, ConfiguredType DEF CreatePlane
  <2>2. owned[k] \cup {new} \subseteq Object
    BY <1>a, <2>1 DEF TypeInv
  <2>3. \/ Write(k, owned[k] \cup {new}) /\ ReportPlane(k, Created)
        \/ ReportPlane(k, UnableToProvision("rejected")) /\ UNCHANGED <<owned, pending>>
    BY <1>2, Zenon DEF CreatePlane
  <2> QED
    BY <2>2, <2>3, <1>b, <1>c, <1>d, ReportType, KnownConditions
<1>3. CASE UpdatePlane(k)
  <2>1. PICK o \in List(k) :
           \/ Replace(k, o, Configured(k, o)) /\ UsePlane(k, o)
           \/ /\ \/ ReportPlane(k, UnableToProvision("rejected"))
                 \/ ReportPlane(k, UnableToProvision("conflict"))
              /\ UNCHANGED <<owned, pending>>
    BY <1>3 DEF UpdatePlane
  <2>2. o \in Object
    BY <1>a, ListType
  <2>3. (owned[k] \ {o}) \cup {Configured(k, o)} \subseteq Object
    BY <1>a, <2>2, ConfiguredType DEF TypeInv
  <2> QED
    BY <2>1, <2>2, <2>3, <1>b, <1>c, <1>d, ReportType, UseType DEF Replace
<1>4. CASE HavePlane(k)
  <2>1. PICK o \in List(k) : UsePlane(k, o)
    BY <1>4 DEF HavePlane
  <2>2. o \in Object
    BY <1>a, ListType
  <2> QED
    BY <1>4, <2>1, <2>2, <1>c, UseType DEF HavePlane
<1> QED
  BY <1>1, <1>2, <1>3, <1>4

\* Steps about the NetworkPolicy, and the pass that has not one Service to use.
LEMMA PolicyType ==
    ASSUME TypeInv,
           \/ NotOneService \/ TooManyPolicies \/ CreatePolicy \/ RepairPolicy
           \/ HavePolicy
    PROVE  TypeInv'
<1> USE DEF objectVars, cacheVars, boundVars
<1>a. "np" \in Kinds
  BY DEF Kinds
<1>1. CASE NotOneService
  BY <1>1, ReturnType DEF NotOneService, TypeInv
<1>2. CASE TooManyPolicies
  BY <1>2, ReturnType DEF TooManyPolicies, AtPolicy, TypeInv
<1>3. CASE CreatePolicy
  <2> DEFINE new == generateDataPlaneNetworkPolicy(NewName("np"))
  <2>1. new \in Object
    BY <1>3, GeneratedType, HeldTypes DEF CreatePolicy, generateDataPlaneNetworkPolicy, Object
  <2>2. owned["np"] \cup {new} \subseteq Object
    BY <1>a, <2>1 DEF TypeInv
  <2> HIDE DEF new
  <2>3. Write("np", owned["np"] \cup {new}) /\ Return(FALSE) /\ AtPolicy
    BY <1>3 DEF CreatePolicy, new
  <2> QED
    BY <1>a, <2>2, <2>3, WriteType, ReturnType DEF AtPolicy, TypeInv
<1>4. CASE RepairPolicy
  <2>1. PICK o \in List("np") :
           \/ /\ Write("np", (owned["np"] \ {o}) \cup {[o EXCEPT !.drift = FALSE]})
              /\ Return(FALSE)
           \/ Return(TRUE) /\ UNCHANGED <<owned, pending>>
    BY <1>4 DEF RepairPolicy, Replace
  <2>2. o \in Object
    BY <1>a, ListType
  <2>3. [o EXCEPT !.drift = FALSE] \in Object
    BY <2>2 DEF Object
  <2>4. (owned["np"] \ {o}) \cup {[o EXCEPT !.drift = FALSE]} \subseteq Object
    BY <1>a, <2>3 DEF TypeInv
  <2>5. /\ owned' \in [Kinds -> SUBSET Object]
        /\ pending' \subseteq Kinds \cup {"gw", "class", "config", "svc"}
        /\ w' \in Workers /\ queued' \in BOOLEAN
    BY <1>a, <2>1, <2>4, WriteType, ReturnType DEF TypeInv
  <2> QED
    BY <1>4, <2>5 DEF RepairPolicy, AtPolicy, TypeInv
<1>5. CASE HavePolicy
  <2>1. Goto("mark", w.gw.conds) /\ "mark" \in Steps
    BY <1>5 DEF HavePolicy, Steps
  <2>2. w' \in Workers /\ queued' = queued
    BY <2>1, HeldTypes, GotoType
  <2> QED
    BY <1>5, <2>2 DEF HavePolicy, AtPolicy, TypeInv
<1> QED
  BY <1>1, <1>2, <1>3, <1>4, <1>5

\* The copy when the status could not be written.
LEMMA NotMarkedType ==
    ASSUME TypeInv, NotMarked,
           ServiceError(ListServicesForOwner(w.held["dp"])) = "none"
    PROVE  /\ w' \in Workers /\ w'.pc = "status" /\ w'.stale = w.stale
           /\ w'.gw.conds = Conclude(SetReady(w.gw.conds), GatewayServiceError("not written"))
           /\ w'.gw.addrs # NoAddresses
<1> DEFINE c == GatewayServiceError("not written")
           new == [Marked EXCEPT !.conds = Conclude(@, c)]
<1>1. c \in ConditionValues
  BY KnownConditions DEF ServiceErrors
<1>2. /\ new \in Gateways /\ new.addrs # NoAddresses
      /\ new.conds = Conclude(SetReady(w.gw.conds), c)
  BY <1>1, ConcludedType, MarkedType
<1>3. w' = [w EXCEPT !.pc = "status", !.gw = new]
  BY DEF NotMarked
<1> HIDE DEF new
<1>4. w' \in Workers /\ w'.pc = "status" /\ w'.stale = w.stale /\ w'.gw = new
  BY <1>2, <1>3 DEF TypeInv, Workers, Steps
<1> QED
  BY <1>2, <1>4

\* The copy when the status was written.
LEMMA MarkReadyType ==
    ASSUME TypeInv, MarkReady
    PROVE  /\ w' \in Workers /\ w'.pc = "status"
           /\ w'.gw.conds = Conclude(SetReady(w.gw.conds), ResourceReady)
           /\ w'.gw.addrs # NoAddresses
           /\ gw' \in Gateways /\ gw'.conds = SetReady(w.gw.conds)
           /\ gw'.addrs # NoAddresses
<1> DEFINE new == [Marked EXCEPT !.conds = Conclude(@, ResourceReady)]
<1>a. ServiceError(ListServicesForOwner(w.held["dp"])) = "none" /\ gw' = Marked
  BY DEF MarkReady
<1>1. /\ new \in Gateways /\ new.addrs # NoAddresses
      /\ new.conds = Conclude(SetReady(w.gw.conds), ResourceReady)
  BY <1>a, KnownConditions, ConcludedType, MarkedType
<1>2. w' = [w EXCEPT !.pc = "status", !.stale = FALSE, !.gw = new]
  BY Zenon DEF MarkReady
<1> HIDE DEF new
<1>3. w' \in Workers /\ w'.pc = "status" /\ w'.gw = new
  BY <1>1, <1>2 DEF TypeInv, Workers, Steps
<1> QED
  BY <1>1, <1>3, <1>a, MarkedType

\* The conditions when the Services are not as they should be.
LEMMA NotReadyType ==
    ASSUME TypeInv, ServiceNotReady
    PROVE  /\ w' \in Workers /\ queued' = queued
           /\ w'.pc = "status" /\ w'.stale = w.stale
           /\ \E e \in ServiceErrors :
                 w'.gw.conds = Conclude(w.gw.conds, GatewayServiceError(e))
           /\ w'.gw.addrs = w.gw.addrs
<1> DEFINE e == ServiceError(ListServicesForOwner(w.held["dp"]))
           conds == Conclude(w.gw.conds, GatewayServiceError(e))
<1>1. e # "none" /\ Goto("status", conds)
  BY DEF ServiceNotReady
<1>2. e \in ServiceErrors
  BY <1>1, ServiceErrorType
<1>3. conds \in Conds
  BY <1>2, HeldTypes, StatusTypes, KnownConditions
<1>4. "status" \in Steps
  BY DEF Steps
<1> QED
  BY <1>1, <1>2, <1>3, <1>4, GotoType

\* Steps that write the status.
LEMMA StatusType ==
    ASSUME TypeInv, ServiceNotReady \/ MarkReady \/ MarkRefused \/ updateStatus
    PROVE  TypeInv'
<1> USE DEF cacheVars, boundVars
<1>1. CASE ServiceNotReady
  <2>1. w' \in Workers /\ queued' = queued
    BY <1>1, NotReadyType
  <2> QED
    BY <1>1, <2>1, Zenon DEF ServiceNotReady, AtMark, TypeInv
<1>2. CASE MarkReady
  <2>1. w' \in Workers /\ gw' \in Gateways
    BY <1>2, MarkReadyType
  <2>2. pending' = pending \cup {"gw"} \/ pending' = pending
    BY <1>2 DEF MarkReady
  <2> QED
    BY <1>2, <2>1, <2>2 DEF MarkReady, AtMark, TypeInv
<1>3. CASE MarkRefused
  <2>1. w' \in Workers
    BY <1>3, NotMarkedType DEF MarkRefused
  <2> QED
    BY <1>3, <2>1 DEF MarkRefused, AtMark, TypeInv
<1>4. CASE updateStatus
  <2>1. \/ gw' = w.gw /\ pending' = pending \cup {"gw"} /\ Return(FALSE)
        \/ (Return(TRUE) \/ Return(FALSE)) /\ UNCHANGED <<gw, pending>>
    BY <1>4, Zenon DEF updateStatus
  <2>2. /\ w' \in Workers /\ queued' \in BOOLEAN /\ gw' \in Gateways
        /\ pending' \subseteq Kinds \cup {"gw", "class", "config", "svc"}
    BY <2>1, ReturnType, HeldTypes DEF TypeInv
  <2> QED
    BY <1>4, <2>2 DEF updateStatus, TypeInv
<1> QED
  BY <1>1, <1>2, <1>3, <1>4

\* Failed calls and restarts.
LEMMA FaultType ==
    ASSUME TypeInv, PlaneCallFails \/ MarkFails \/ APIError \/ Restart
    PROVE  TypeInv'
<1> USE DEF objectVars, cacheVars
<1>a. faults' \in 0..MaxFaults /\ UNCHANGED <<objectVars, hook, edits>>
  <2>1. Fault
    BY DEF PlaneCallFails, MarkFails, APIError, Restart
  <2> QED
    BY <2>1, ConstantsAssumption DEF Fault, TypeInv
<1>1. CASE PlaneCallFails
  <2>1. UnableToProvision("no answer") \in ConditionValues
    BY KnownConditions DEF ProvisionErrors
  <2>2. w' \in Workers /\ queued' = queued
    BY <1>1, <2>1, ReportType DEF PlaneCallFails
  <2> QED
    BY <1>1, <1>a, <2>2 DEF PlaneCallFails, TypeInv
<1>2. CASE MarkFails
  <2>1. w' \in Workers
    BY <1>2, NotMarkedType DEF MarkFails
  <2> QED
    BY <1>2, <1>a, <2>1 DEF MarkFails, TypeInv
<1>3. CASE APIError
  BY <1>3, <1>a, ReturnType DEF APIError, TypeInv
<1>4. CASE Restart
  <2>1. seen' \in Views
    BY <1>4 DEF Restart, TypeInv, Views
  <2>2. cache' \in [Kinds -> SUBSET Object]
    BY <1>4 DEF Restart, TypeInv
  <2>3. w' \in Workers /\ queued' \in BOOLEAN /\ pending' = {}
    BY <1>4, ConstantTypes DEF Restart
  <2> QED
    BY <1>a, <2>1, <2>2, <2>3 DEF TypeInv
<1> QED
  BY <1>1, <1>2, <1>3, <1>4

\* Events and the resync.
LEMMA EventType ==
    ASSUME TypeInv,
           \/ DeliverGateway \/ DeliverClass \/ DeliverConfig
           \/ \E k \in Kinds : DeliverOwned(k)
           \/ DeliverServices \/ Resync
    PROVE  TypeInv'
<1> USE DEF objectVars, cacheVars, boundVars
<1>a. ASSUME NEW b \in BOOLEAN
      PROVE  (queued \/ b) \in BOOLEAN
  OBVIOUS
<1>b. \A c : gatewayHasMatchingGatewayClass(c) \in BOOLEAN
  BY DEF gatewayHasMatchingGatewayClass
<1>1. CASE DeliverGateway
  <2>1. seen' \in Views
    BY <1>1 DEF DeliverGateway, TypeInv, Views
  <2>2. queued' \in BOOLEAN
    BY <1>1 DEF DeliverGateway
  <2> QED
    BY <1>1, <2>1, <2>2 DEF DeliverGateway, Delivered, TypeInv
<1>2. CASE DeliverClass
  <2>1. seen' \in Views
    BY <1>2 DEF DeliverClass, TypeInv, Views
  <2>2. queued' \in BOOLEAN
    BY <1>2 DEF DeliverClass
  <2> QED
    BY <1>2, <2>1, <2>2 DEF DeliverClass, Delivered, TypeInv
<1>3. CASE DeliverConfig
  <2>1. seen' \in Views
    BY <1>3 DEF DeliverConfig, TypeInv, Views
  <2>2. queued' \in BOOLEAN
    BY <1>3 DEF DeliverConfig
  <2> QED
    BY <1>3, <2>1, <2>2 DEF DeliverConfig, Delivered, TypeInv
<1>4. ASSUME NEW k \in Kinds, DeliverOwned(k)
      PROVE  TypeInv'
  <2>1. cache' \in [Kinds -> SUBSET Object]
    BY <1>4 DEF DeliverOwned, TypeInv
  <2> QED
    BY <1>4, <2>1 DEF DeliverOwned, Delivered, TypeInv
<1>5. CASE DeliverServices
  <2>1. seen' \in Views
    BY <1>5 DEF DeliverServices, TypeInv, Views
  <2> QED
    BY <1>5, <2>1 DEF DeliverServices, Delivered, TypeInv
<1>6. CASE Resync
  BY <1>6, <1>b DEF Resync, TypeInv
<1> QED
  BY <1>1, <1>2, <1>3, <1>4, <1>5, <1>6

\* The controllers of the planes and the garbage collector.
LEMMA OthersType ==
    ASSUME TypeInv, DataPlaneController \/ ControlPlaneController \/ GarbageCollect
    PROVE  TypeInv'
<1>a. Others /\ {"dp", "cp", "np"} \subseteq Kinds
  BY DEF DataPlaneController, ControlPlaneController, GarbageCollect, Kinds, Planes
<1> DEFINE Events == Kinds \cup {"gw", "class", "config", "svc"}
           Typed == /\ owned' \in [Kinds -> SUBSET Object]
                    /\ svcs' \subseteq Service /\ pending' \subseteq Events
<1>0. SUFFICES Typed
  BY <1>a DEF Others, TypeInv, cacheVars, boundVars
<1>b. ASSUME NEW k \in Kinds, NEW S \in SUBSET Object, Write(k, S), svcs' = svcs
      PROVE  Typed
  BY <1>b, WriteType DEF TypeInv
<1>c. ASSUME NEW S \in SUBSET Service, NEW P \in SUBSET Events, svcs' = S,
             pending' = pending \cup P, owned' = owned
      PROVE  Typed
  BY <1>c DEF TypeInv
<1>d. \A k \in Kinds : owned[k] \subseteq Object
  BY DEF TypeInv
<1>1. CASE DataPlaneController
  <2>1. PICK o \in owned["dp"] :
          \/ /\ Fresh("svc") # {}
             /\ svcs' = svcs \cup {[name |-> NewName("svc"), of |-> o.name,
                                    reach |-> "cluster"]}
             /\ pending' = pending \cup {"svc", "dp"}
             /\ UNCHANGED owned
          \/ /\ Replace("dp", o, [o EXCEPT !.ready = ~@])
             /\ UNCHANGED svcs
    BY <1>1, Zenon DEF DataPlaneController
  <2>2. o \in Object /\ o.name \in Names
    BY <1>a, <1>d DEF Object
  <2>3. CASE /\ Fresh("svc") # {}
             /\ svcs' = svcs \cup {[name |-> NewName("svc"), of |-> o.name,
                                    reach |-> "cluster"]}
             /\ pending' = pending \cup {"svc", "dp"}
             /\ UNCHANGED owned
    <3>1. [name |-> NewName("svc"), of |-> o.name, reach |-> "cluster"] \in Service
      BY <2>2, <2>3, GeneratedType DEF Service, Reaches
    <3>2. svcs' \in SUBSET Service
      BY <2>3, <3>1 DEF TypeInv
    <3> QED
      BY <2>3, <3>2, <1>a, <1>c
  <2>4. CASE Replace("dp", o, [o EXCEPT !.ready = ~@]) /\ UNCHANGED svcs
    <3> DEFINE ready == ~o.ready
               new == [o EXCEPT !.ready = ready]
    <3>1. ready \in BOOLEAN
      OBVIOUS
    <3>2. Write("dp", (owned["dp"] \ {o}) \cup {new})
      BY <2>4, Zenon DEF Replace
    <3> HIDE DEF ready
    <3>3. new \in Object
      BY <2>2, <3>1 DEF Object
    <3> HIDE DEF new
    <3> QED
      BY <2>4, <3>2, <3>3, <1>a, <1>b, <1>d
  <2> QED
    BY <2>1, <2>3, <2>4
<1>2. CASE ControlPlaneController
  <2>1. PICK o \in owned["cp"] : \E s \in svcs :
           \/ Replace("cp", o, [o EXCEPT !.svc = s.name])
           \/ Replace("cp", o, [o EXCEPT !.ready = TRUE])
    BY <1>2 DEF ControlPlaneController
  <2>2. PICK s \in svcs :
           \/ Replace("cp", o, [o EXCEPT !.svc = s.name])
           \/ Replace("cp", o, [o EXCEPT !.ready = TRUE])
    BY <2>1
  <2>3. o \in Object /\ s.name \in Names
    BY <1>a, <1>d DEF TypeInv, Service
  <2>4. [o EXCEPT !.svc = s.name] \in Object /\ [o EXCEPT !.ready = TRUE] \in Object
    BY <2>3 DEF Object
  <2>5. svcs' = svcs
    BY <1>2 DEF ControlPlaneController
  <2> QED
    BY <2>2, <2>4, <2>5, <1>a, <1>b, <1>d DEF Replace
<1>3. CASE GarbageCollect
  <2>1. \/ UNCHANGED svcs /\ \E k \in Kinds : Write(k, {})
        \/ \E s \in svcs : /\ svcs' = svcs \ {s}
                           /\ pending' = pending \cup {"svc"}
                           /\ UNCHANGED owned
    BY <1>3 DEF GarbageCollect
  <2>2. \A s : svcs \ {s} \in SUBSET Service
    BY DEF TypeInv
  <2> QED
    BY <2>1, <2>2, <1>b, <1>c
<1> QED
  BY <1>1, <1>2, <1>3

\* What users do.
LEMMA UserType ==
    ASSUME TypeInv,
           EditGateway \/ EditClass \/ EditConfig \/ EditOwned \/ EditService
    PROVE  TypeInv'
<1>a. Edit
  BY DEF EditGateway, EditClass, EditConfig, EditOwned, EditService
<1>b. edits' \in 0..MaxEdits /\ UNCHANGED <<cacheVars, queued, hook, faults>>
  BY <1>a, ConstantsAssumption DEF Edit, TypeInv
<1> DEFINE Events == Kinds \cup {"gw", "class", "config", "svc"}
           Typed == /\ gw' \in Gateways /\ class' \in Classes /\ config' \in Configs
                    /\ owned' \in [Kinds -> SUBSET Object]
                    /\ svcs' \subseteq Service /\ pending' \subseteq Events
                    /\ w' \in Workers
<1>0. SUFFICES Typed
  BY <1>b DEF TypeInv, cacheVars
<1>1. CASE EditGateway
  <2> DEFINE stale == w.pc # "idle"
  <2>1. gw' \in Gateways
    BY <1>1, ConstantTypes DEF EditGateway, TypeInv
  <2>2. w' = [w EXCEPT !.stale = stale] /\ stale \in BOOLEAN
    BY <1>1 DEF EditGateway
  <2> HIDE DEF stale
  <2>3. w' \in Workers
    BY <2>2 DEF TypeInv, Workers
  <2> QED
    BY <1>1, <2>1, <2>3 DEF EditGateway, TypeInv
<1>2. CASE EditClass
  BY <1>2, ConstantsAssumption DEF EditClass, TypeInv
<1>3. CASE EditConfig
  BY <1>3, ConstantsAssumption DEF EditConfig, TypeInv
<1>4. CASE EditOwned
  <2>1. PICK k \in Kinds : \E o \in owned[k] :
          \/ Write(k, owned[k] \ {o})
          \/ Replace(k, o, [o EXCEPT !.opts = "edited"])
          \/ Replace(k, o, [o EXCEPT !.drift = TRUE])
    BY <1>4, Zenon DEF EditOwned
  <2>2. PICK o \in owned[k] :
          \/ Write(k, owned[k] \ {o})
          \/ Replace(k, o, [o EXCEPT !.opts = "edited"])
          \/ Replace(k, o, [o EXCEPT !.drift = TRUE])
    BY <2>1
  <2>3. o \in Object /\ owned[k] \subseteq Object
    BY DEF TypeInv
  <2>4. [o EXCEPT !.opts = "edited"] \in Object /\ [o EXCEPT !.drift = TRUE] \in Object
    BY <2>3 DEF Object, Options
  <2>5. \E S \in SUBSET Object : Write(k, S)
    <3>1. /\ owned[k] \ {o} \in SUBSET Object
          /\ (owned[k] \ {o}) \cup {[o EXCEPT !.opts = "edited"]} \in SUBSET Object
          /\ (owned[k] \ {o}) \cup {[o EXCEPT !.drift = TRUE]} \in SUBSET Object
      BY <2>3, <2>4
    <3> QED
      BY <2>2, <3>1, Zenon DEF Replace
  <2>6. /\ owned' \in [Kinds -> SUBSET Object]
        /\ pending' \subseteq Events
    BY <2>5, WriteType
  <2> QED
    BY <1>4, <2>6 DEF EditOwned, TypeInv
<1>5. CASE EditService
  <2>1. PICK s \in svcs : svcs' \in
          {svcs \ {s}} \cup
          {(svcs \ {s}) \cup {[s EXCEPT !.reach = r]} : r \in Reaches \ {s.reach}}
    BY <1>5 DEF EditService
  <2>2. \A r \in Reaches : [s EXCEPT !.reach = r] \in Service
    BY DEF TypeInv, Service
  <2>3. svcs' \subseteq Service
    BY <2>1, <2>2 DEF TypeInv
  <2> QED
    BY <1>5, <2>3 DEF EditService, TypeInv
<1> QED
  BY <1>1, <1>2, <1>3, <1>4, <1>5

\* Every step keeps the types.
LEMMA TypeStep ==
    ASSUME TypeInv, Next
    PROVE  TypeInv'
BY TakeType, PlaneType, PolicyType, StatusType, FaultType, EventType, OthersType,
   UserType, Zenon DEF Next, Reconcile

\* TypeInv is an invariant.
LEMMA Typed == Spec => []TypeInv
<1>1. TypeInv /\ [Next]_vars => TypeInv'
  <2>1. ASSUME TypeInv, UNCHANGED vars
        PROVE  TypeInv'
    BY <2>1 DEF vars, TypeInv
  <2> QED
    BY <2>1, TypeStep
<1> QED
  BY <1>1, InitType, PTL DEF Spec

\* Type correctness of the Gateway reconciler and its environment.
THEOREM TypeCorrect == Spec => []TypeOK
BY Typed, TypeInvSuffices, PTL

-----------------------------------------------------------------------------
(* A second plane or policy comes from a stale cache *)

\* A write of one kind leaves the others alone.
LEMMA WriteOwned ==
    ASSUME TypeInv, NEW j \in Kinds, NEW objects, Write(j, objects), NEW k \in Kinds
    PROVE  /\ owned'[k] = IF k = j THEN objects ELSE owned[k]
           /\ pending' = pending \cup {j}
BY DEF TypeInv, Write

\* What a step can do to the objects that a Gateway owns: remove some, change
\* one, or add one where the controller has listed none.
Removes(k) == \E S : S \subseteq owned[k] /\ Write(k, S)
Changes(k) ==
    \E o \in owned[k] : \E new : new.name = o.name /\ Write(k, (owned[k] \ {o}) \cup {new})
Adds(k) == w.pc = k /\ List(k) = {} /\ \E new : Write(k, owned[k] \cup {new})

\* Apart from deliveries and restarts a step leaves the cache alone, and it
\* leaves the objects alone too or writes one kind of them.
LEMMA OwnedStep ==
    ASSUME TypeInv, Next
    PROVE  \/ owned' = owned /\ cache' = cache /\ pending \subseteq pending'
           \/ cache' = cache /\ \E k \in Kinds : Removes(k) \/ Changes(k) \/ Adds(k)
           \/ owned' = owned /\ DeliverGateway
           \/ owned' = owned /\ DeliverClass
           \/ owned' = owned /\ DeliverConfig
           \/ owned' = owned /\ \E k \in Kinds : DeliverOwned(k)
           \/ owned' = owned /\ DeliverServices
           \/ owned' = owned /\ Restart
<1> USE DEF objectVars, cacheVars
<1>a. {"dp", "cp", "np"} \subseteq Kinds /\ Planes \subseteq Kinds
  BY DEF Kinds, Planes
<1>b. \A k \in Kinds : List(k) \subseteq Object /\ owned[k] \subseteq Object
  BY ListType DEF TypeInv
<1> DEFINE Goal == \/ owned' = owned /\ cache' = cache /\ pending \subseteq pending'
                   \/ /\ cache' = cache
                      /\ \E k \in Kinds : Removes(k) \/ Changes(k) \/ Adds(k)
<1>c. ASSUME NEW k \in Kinds, NEW o \in owned[k], NEW new, new.name = o.name,
             Replace(k, o, new)
      PROVE  Changes(k)
  BY <1>c DEF Changes, Replace
<1>1. ASSUME NEW k \in Planes, FoundSeveral(k) \/ HavePlane(k)
      PROVE  Goal
  BY <1>1 DEF FoundSeveral, HavePlane, AtPlane
<1>2. ASSUME NEW k \in Planes, CreatePlane(k)
      PROVE  Goal
  <2>1. cache' = cache /\ w.pc = k /\ List(k) = {}
    BY <1>2 DEF CreatePlane, AtPlane
  <2>2. \/ \E new : Write(k, owned[k] \cup {new})
        \/ UNCHANGED <<owned, pending>>
    BY <1>2, Zenon DEF CreatePlane
  <2> QED
    BY <2>1, <2>2, <1>a DEF Adds
<1>3. ASSUME NEW k \in Planes, UpdatePlane(k)
      PROVE  Goal
  <2>1. PICK o \in List(k) :
           \/ o \in owned[k] /\ Replace(k, o, Configured(k, o))
           \/ UNCHANGED <<owned, pending>>
    BY <1>3 DEF UpdatePlane
  <2>2. AtPlane(k) /\ cache' = cache
    BY <1>3 DEF UpdatePlane, AtPlane
  <2>3. Configured(k, o).name = o.name
    BY <2>1, <2>2, <1>a, <1>b, ConfiguredType
  <2> QED
    BY <2>1, <2>2, <2>3, <1>a, <1>c
<1>4. CASE CreatePolicy
  <2>1. /\ cache' = cache /\ w.pc = "np" /\ List("np") = {}
        /\ \E new : Write("np", owned["np"] \cup {new})
    BY <1>4 DEF CreatePolicy, AtPolicy
  <2> QED
    BY <2>1, <1>a DEF Adds
<1>5. CASE RepairPolicy
  <2>1. PICK o \in List("np") :
           \/ o \in owned["np"] /\ Replace("np", o, [o EXCEPT !.drift = FALSE])
           \/ UNCHANGED <<owned, pending>>
    BY <1>5 DEF RepairPolicy
  <2>2. [o EXCEPT !.drift = FALSE].name = o.name
    BY <1>a, <1>b DEF Object
  <2>3. cache' = cache
    BY <1>5 DEF RepairPolicy, AtPolicy
  <2> QED
    BY <2>1, <2>2, <2>3, <1>a, <1>c
<1>6. CASE DataPlaneController
  <2>1. PICK o \in owned["dp"] :
          \/ pending' = pending \cup {"svc", "dp"} /\ UNCHANGED owned
          \/ Replace("dp", o, [o EXCEPT !.ready = ~@])
    BY <1>6, Zenon DEF DataPlaneController
  <2>2. [o EXCEPT !.ready = ~@].name = o.name
    <3> DEFINE ready == ~o.ready
    <3>1. [o EXCEPT !.ready = ~@] = [o EXCEPT !.ready = ready]
      OBVIOUS
    <3> HIDE DEF ready
    <3>2. o \in Object
      BY <1>a, <1>b
    <3> QED
      BY <3>1, <3>2 DEF Object
  <2>3. cache' = cache
    BY <1>6 DEF DataPlaneController, Others
  <2> QED
    BY <2>1, <2>2, <2>3, <1>a, <1>c
<1>7. CASE ControlPlaneController
  <2>1. PICK o \in owned["cp"] : \E s \in svcs :
           \/ Replace("cp", o, [o EXCEPT !.svc = s.name])
           \/ Replace("cp", o, [o EXCEPT !.ready = TRUE])
    BY <1>7 DEF ControlPlaneController
  <2>2. \E new : new.name = o.name /\ Replace("cp", o, new)
    <3>1. /\ \A n : [o EXCEPT !.svc = n].name = o.name
          /\ [o EXCEPT !.ready = TRUE].name = o.name
      BY <1>a, <1>b DEF Object
    <3> QED
      BY <2>1, <3>1, Zenon
  <2>3. cache' = cache
    BY <1>7 DEF ControlPlaneController, Others
  <2> QED
    BY <2>2, <2>3, <1>a, <1>c
<1>8. CASE GarbageCollect
  <2>1. cache' = cache
    BY <1>8 DEF GarbageCollect, Others
  <2>2. \/ \E k \in Kinds : Write(k, {})
        \/ pending' = pending \cup {"svc"} /\ UNCHANGED owned
    BY <1>8 DEF GarbageCollect
  <2> QED
    BY <2>1, <2>2 DEF Removes
<1>9. CASE EditOwned
  <2>1. PICK k \in Kinds : \E o \in owned[k] :
          \/ Write(k, owned[k] \ {o})
          \/ Replace(k, o, [o EXCEPT !.opts = "edited"])
          \/ Replace(k, o, [o EXCEPT !.drift = TRUE])
    BY <1>9, Zenon DEF EditOwned
  <2>2. PICK o \in owned[k] :
          \/ Write(k, owned[k] \ {o})
          \/ Replace(k, o, [o EXCEPT !.opts = "edited"])
          \/ Replace(k, o, [o EXCEPT !.drift = TRUE])
    BY <2>1
  <2>3. [o EXCEPT !.opts = "edited"].name = o.name /\ [o EXCEPT !.drift = TRUE].name = o.name
    BY <1>b DEF Object
  <2>4. cache' = cache
    BY <1>9 DEF EditOwned, Edit
  <2> QED
    BY <2>2, <2>3, <2>4, <1>c DEF Removes
<1>10. CASE MarkReady \/ updateStatus \/ EditGateway \/ EditClass \/ EditConfig \/ EditService
  BY <1>10 DEF MarkReady, AtMark, updateStatus, EditGateway, EditClass, EditConfig,
               EditService, Edit
<1>11. \/ UNCHANGED <<owned, cache, pending>>
       \/ \E k \in Planes : FoundSeveral(k) \/ CreatePlane(k) \/ UpdatePlane(k) \/ HavePlane(k)
       \/ CreatePolicy \/ RepairPolicy
       \/ DataPlaneController \/ ControlPlaneController \/ GarbageCollect \/ EditOwned
       \/ MarkReady \/ updateStatus \/ EditGateway \/ EditClass \/ EditConfig \/ EditService
       \/ owned' = owned /\ DeliverGateway
       \/ owned' = owned /\ DeliverClass
       \/ owned' = owned /\ DeliverConfig
       \/ owned' = owned /\ \E k \in Kinds : DeliverOwned(k)
       \/ owned' = owned /\ DeliverServices
       \/ owned' = owned /\ Restart
  <2>1. CASE \/ GetNotFound \/ UnsupportedGateway \/ ClassNotFound
             \/ ConfigurationNotFound \/ StartProvisioning \/ NotOneService
             \/ TooManyPolicies \/ HavePolicy \/ ServiceNotReady \/ MarkRefused
    BY <2>1 DEF Take, TakeAndReturn, GetNotFound, UnsupportedGateway, ClassNotFound,
         ConfigurationNotFound, StartProvisioning, NotOneService, TooManyPolicies,
         HavePolicy, AtPolicy, ServiceNotReady, MarkRefused, AtMark
  <2>2. CASE PlaneCallFails \/ MarkFails \/ APIError \/ Resync
    BY <2>2 DEF PlaneCallFails, MarkFails, APIError, Fault, Resync
  <2>3. CASE Restart \/ DeliverGateway \/ DeliverClass \/ DeliverConfig \/ DeliverServices
    BY <2>3 DEF Restart, Fault, DeliverGateway, DeliverClass, DeliverConfig,
         DeliverServices, Delivered
  <2>4. CASE \E k \in Kinds : DeliverOwned(k)
    BY <2>4 DEF DeliverOwned, Delivered
  <2> QED
    BY <2>1, <2>2, <2>3, <2>4, Zenon DEF Next, Reconcile
<1> QED
  BY <1>1, <1>2, <1>3, <1>4, <1>5, <1>6, <1>7, <1>8, <1>9, <1>10, <1>11, Zenon

\* Where no event is on its way, the cache is what is stored.
CacheCurrent == \A k \in CachedKinds \cap Kinds : k \notin pending => cache[k] = owned[k]

\* Every step keeps CacheCurrent.
LEMMA CacheStep ==
    ASSUME TypeInv, CacheCurrent, Next
    PROVE  CacheCurrent'
<1> SUFFICES ASSUME NEW k \in CachedKinds, k \in Kinds, k \notin pending'
             PROVE  cache'[k] = owned'[k]
  BY DEF CacheCurrent
<1>a. k \notin {"gw", "class", "config", "svc"}
  BY DEF Kinds, Planes
<1>b. k \notin pending => cache[k] = owned[k]
  BY DEF CacheCurrent
<1>1. CASE owned' = owned /\ cache' = cache /\ pending \subseteq pending'
  BY <1>1, <1>b
<1>2. ASSUME cache' = cache, NEW j \in Kinds, Removes(j) \/ Changes(j) \/ Adds(j)
      PROVE  cache'[k] = owned'[k]
  <2>1. PICK S : Write(j, S)
    BY <1>2, Zenon DEF Removes, Changes, Adds
  <2>2. pending' = pending \cup {j} /\ (k # j => owned'[k] = owned[k])
    BY <2>1, WriteOwned
  <2> QED
    BY <1>2, <1>b, <2>2
<1>3. CASE owned' = owned /\ (DeliverGateway \/ DeliverClass \/ DeliverConfig \/ DeliverServices)
  BY <1>3, <1>a, <1>b DEF DeliverGateway, DeliverClass, DeliverConfig, DeliverServices,
     Delivered
<1>4. ASSUME owned' = owned, NEW j \in Kinds, DeliverOwned(j)
      PROVE  cache'[k] = owned'[k]
  <2>1. /\ pending' = pending \ {j}
        /\ cache' = IF j \in CachedKinds THEN [cache EXCEPT ![j] = owned[j]] ELSE cache
    BY <1>4 DEF DeliverOwned, Delivered
  <2>2. cache \in [Kinds -> SUBSET Object]
    BY DEF TypeInv
  <2> QED
    BY <1>4, <1>b, <2>1, <2>2
<1>5. CASE owned' = owned /\ Restart
  BY <1>5 DEF Restart
<1> QED
  BY <1>1, <1>2, <1>3, <1>4, <1>5, OwnedStep

\* The names of a kind grow only where the controller has listed no object of it.
LEMMA NamesStep ==
    ASSUME TypeInv, Next, NEW k \in Kinds,
           ~(NamesOf(owned'[k]) \subseteq NamesOf(owned[k]))
    PROVE  List(k) = {}
<1>1. owned' # owned
  OBVIOUS
<1>2. PICK j \in Kinds : Removes(j) \/ Changes(j) \/ Adds(j)
  BY <1>1, OwnedStep
<1>3. j = k
  <2>1. PICK S : Write(j, S)
    BY <1>2, Zenon DEF Removes, Changes, Adds
  <2>2. j # k => owned'[k] = owned[k]
    BY <2>1, WriteOwned
  <2> QED
    BY <2>2
<1>4. ~Removes(k)
  BY WriteOwned DEF Removes, NamesOf
<1>5. ~Changes(k)
  <2> SUFFICES ASSUME NEW o \in owned[k], NEW new, new.name = o.name,
                      Write(k, (owned[k] \ {o}) \cup {new})
               PROVE  FALSE
    BY DEF Changes
  <2>1. owned'[k] = (owned[k] \ {o}) \cup {new}
    BY WriteOwned
  <2> QED
    BY <2>1 DEF NamesOf
<1> QED
  BY <1>2, <1>3, <1>4, <1>5 DEF Adds

\* A second plane or NetworkPolicy is created only while the first is not in the
\* cache that the controller lists; never of a kind that it lists from the API
\* server.
THEOREM DuplicatesFromStaleCache == Spec => DuplicatesOnlyFromStaleCache
<1>1. Init => CacheCurrent
  BY DEF Init, CacheCurrent
<1>2. TypeInv /\ CacheCurrent /\ [Next]_vars => CacheCurrent'
  <2>1. ASSUME CacheCurrent, UNCHANGED vars
        PROVE  CacheCurrent'
    BY <2>1 DEF CacheCurrent, vars
  <2> QED
    BY <2>1, CacheStep
<1>3. TypeInv /\ CacheCurrent /\ [Next]_vars
         => [\A k \in Kinds :
               owned[k] # {} /\ ~(NamesOf(owned'[k]) \subseteq NamesOf(owned[k]))
                  => k \in pending /\ k \in CachedKinds]_vars
  <2> SUFFICES ASSUME TypeInv, CacheCurrent, Next, NEW k \in Kinds, owned[k] # {},
                      ~(NamesOf(owned'[k]) \subseteq NamesOf(owned[k]))
               PROVE  k \in pending /\ k \in CachedKinds
    OBVIOUS
  <2>1. List(k) = {}
    BY NamesStep
  <2> QED
    BY <2>1 DEF List, CacheCurrent
<1> QED
  BY <1>1, <1>2, <1>3, Typed, PTL DEF Spec, DuplicatesOnlyFromStaleCache

-----------------------------------------------------------------------------
(* What a step does to the three copies of the Gateway *)

\* The events that bring the Gateway back, and the copies that they are about.
Watched == Kinds \cup {"gw"}
KeepsEvents == pending \cap Watched \subseteq pending' /\ (queued => queued')
SameViews == seen'.gw = seen.gw /\ seen'.class = seen.class
SameCopy == w'.pc = w.pc /\ w'.gw = w.gw

\* A step about something else.
Quiet == gw' = gw /\ SameViews /\ SameCopy /\ KeepsEvents

\* A user deletes the Gateway or changes its metadata.
Edited == gw' \in {gw, NoGateway} /\ SameViews /\ SameCopy /\ "gw" \in pending'

\* The caches learn about the Gateway, its class, or an owned object; or the
\* operator starts again.
SeesGateway ==
    /\ gw' = gw /\ SameCopy
    /\ seen'.gw = gw /\ seen'.class = seen.class
    /\ queued' \/ seen.class = "foreign"
SeesClass ==
    /\ gw' = gw /\ SameCopy /\ KeepsEvents
    /\ seen'.gw = seen.gw
    /\ seen'.class \in Ours /\ seen.gw.alive => queued'
SeesOwned ==
    /\ gw' = gw /\ SameCopy /\ SameViews
    /\ "gw" \in pending => "gw" \in pending'
    /\ queued'
Restarts == gw' = gw /\ seen'.gw = gw /\ w' = Idle /\ queued'

\* The key is taken and there is nothing to do, or a pass begins.
Skips ==
    /\ gw' = gw /\ SameViews /\ SameCopy /\ pending' = pending
    /\ ~seen.gw.alive \/ seen.class = "foreign"
Starts ==
    /\ gw' = gw /\ SameViews /\ pending' = pending
    /\ seen.class \in Ours
    /\ w'.pc = "dp"
    /\ w'.gw.conds = SetCondition(InitReady(seen.gw.conds), Scheduled, PickedUp)

\* The pass goes on, maybe with the condition of a plane; or it ends early.
GoesOn ==
    /\ gw' = gw /\ SameViews /\ KeepsEvents
    /\ w.pc \in {"dp", "cp", "np"} /\ w'.pc \in {"cp", "np", "mark", "status"}
    /\ \/ w'.gw.conds = w.gw.conds
       \/ \E k \in Planes : \E c \in ConditionValues :
             w'.gw.conds = SetCondition(w.gw.conds, ReadyTypeOf(k), c)
Breaks ==
    /\ gw' = gw /\ SameViews /\ KeepsEvents
    /\ w' = Idle
    /\ queued' \/ "np" \in pending'

\* ensureGatewayMarkedReady, which writes the status, cannot, or has no reason to.
Marks ==
    /\ SameViews /\ KeepsEvents
    /\ gw' = gw \/ "gw" \in pending'
    /\ w.pc = "mark" /\ w'.pc = "status"
    /\ gw'.conds = SetReady(w.gw.conds) /\ gw'.addrs # NoAddresses
    /\ w'.gw.conds = Conclude(SetReady(w.gw.conds), ResourceReady)
    /\ w'.gw.addrs # NoAddresses
MarksInVain ==
    /\ gw' = gw /\ SameViews /\ KeepsEvents
    /\ w.pc = "mark" /\ w'.pc = "status"
    /\ w'.gw.conds = Conclude(SetReady(w.gw.conds), GatewayServiceError("not written"))
    /\ w'.gw.addrs # NoAddresses
Reports ==
    /\ gw' = gw /\ SameViews /\ KeepsEvents
    /\ w.pc = "mark" /\ w'.pc = "status"
    /\ \E e \in ServiceErrors : w'.gw.conds = Conclude(w.gw.conds, GatewayServiceError(e))

\* updateStatus writes the conditions, or finds nothing to write.
Stores ==
    /\ gw' = w.gw /\ SameViews
    /\ w.pc = "status" /\ w' = Idle
    /\ "gw" \in pending'
Agrees ==
    /\ gw' = gw /\ SameViews /\ KeepsEvents
    /\ w.pc = "status" /\ w' = Idle
    /\ ~NeedsUpdate(IF seen.gw.alive THEN seen.gw.conds ELSE NoConditions, w.gw.conds)

\* The first steps of a pass are among these moves.
LEMMA TakeMoves ==
    ASSUME TypeInv,
           \/ GetNotFound \/ UnsupportedGateway \/ ClassNotFound
           \/ ConfigurationNotFound \/ StartProvisioning
    PROVE  Quiet \/ Skips \/ Starts
<1> USE DEF Take, TakeAndReturn, objectVars, cacheVars
<1>1. CASE GetNotFound \/ UnsupportedGateway
  BY <1>1 DEF GetNotFound, UnsupportedGateway, Skips, SameViews, SameCopy
<1>2. CASE ClassNotFound \/ ConfigurationNotFound
  BY <1>2 DEF ClassNotFound, ConfigurationNotFound, Quiet, SameViews, SameCopy,
              KeepsEvents
<1>3. CASE StartProvisioning
  BY <1>3, StartType DEF StartProvisioning, Starts, SameViews
<1> QED
  BY <1>1, <1>2, <1>3

\* So are the steps about a plane or the NetworkPolicy.
LEMMA ProvisionMoves ==
    ASSUME TypeInv,
           \/ \E k \in Planes : \/ FoundSeveral(k) \/ CreatePlane(k)
                                \/ UpdatePlane(k) \/ HavePlane(k)
           \/ NotOneService \/ TooManyPolicies \/ CreatePolicy \/ RepairPolicy
           \/ HavePolicy
    PROVE  GoesOn \/ Breaks
<1> USE DEF objectVars, cacheVars
<1>a. "np" \in Kinds /\ Planes \subseteq Kinds
  BY DEF Kinds, Planes
<1>b. \A m \in {"several", "rejected", "conflict"} : UnableToProvision(m) \in ConditionValues
  BY KnownConditions DEF ProvisionErrors
<1>1. ASSUME NEW k \in Planes,
             FoundSeveral(k) \/ CreatePlane(k) \/ UpdatePlane(k) \/ HavePlane(k)
      PROVE  GoesOn
  <2>1. /\ AtPlane(k)
        /\ \/ \E c \in ConditionValues : ReportPlane(k, c)
           \/ \E o \in Object : UsePlane(k, o)
        /\ UNCHANGED pending \/ \E S : Write(k, S)
    <3>1. CASE FoundSeveral(k)
      BY <3>1, <1>b DEF FoundSeveral
    <3>2. CASE CreatePlane(k)
      BY <3>2, <1>b, KnownConditions, Zenon DEF CreatePlane
    <3>3. CASE UpdatePlane(k)
      BY <3>3, <1>a, <1>b, ListType DEF UpdatePlane, Replace
    <3>4. CASE HavePlane(k)
      BY <3>4, <1>a, ListType DEF HavePlane
    <3> QED
      BY <1>1, <3>1, <3>2, <3>3, <3>4
  <2>2. /\ queued' = queued /\ w'.pc \in {"cp", "np", "status"}
        /\ \E c \in ConditionValues :
              w'.gw.conds = SetCondition(w.gw.conds, ReadyTypeOf(k), c)
    BY <2>1, ReportType, UseType, KnownConditions
  <2>3. pending \subseteq pending'
    BY <2>1 DEF Write
  <2>4. gw' = gw /\ seen' = seen /\ w.pc \in {"dp", "cp"}
    BY <2>1 DEF AtPlane, Planes
  <2> QED
    BY <2>2, <2>3, <2>4 DEF GoesOn, SameViews, KeepsEvents
<1>2. CASE NotOneService \/ TooManyPolicies
  BY <1>2 DEF NotOneService, TooManyPolicies, AtPolicy, Return, Breaks, SameViews,
     KeepsEvents
<1>3. CASE CreatePolicy \/ RepairPolicy
  <2>1. AtPolicy
    BY <1>3 DEF CreatePolicy, RepairPolicy
  <2>2. \/ (\E S : Write("np", S)) /\ Return(FALSE)
        \/ Return(TRUE) /\ UNCHANGED pending
    BY <1>3 DEF CreatePolicy, RepairPolicy, Replace
  <2>3. /\ w' = Idle /\ pending \subseteq pending' /\ (queued => queued')
        /\ queued' \/ "np" \in pending'
    BY <2>2 DEF Return, Write
  <2> QED
    BY <2>1, <2>3 DEF AtPolicy, Breaks, SameViews, KeepsEvents
<1>4. CASE HavePolicy
  <2>1. Goto("mark", w.gw.conds) /\ "mark" \in Steps
    BY <1>4 DEF HavePolicy, Steps
  <2>2. w'.pc = "mark" /\ w'.gw.conds = w.gw.conds /\ queued' = queued
    BY <2>1, HeldTypes, GotoType
  <2> QED
    BY <1>4, <2>2 DEF HavePolicy, AtPolicy, GoesOn, SameViews, KeepsEvents
<1> QED
  BY <1>1, <1>2, <1>3, <1>4

\* So are the steps that write the status.
LEMMA StatusMoves ==
    ASSUME TypeInv, ServiceNotReady \/ MarkReady \/ MarkRefused \/ updateStatus
    PROVE  \/ Reports \/ Marks \/ MarksInVain \/ Stores \/ Agrees
           \/ Breaks
<1> USE DEF objectVars, cacheVars
<1>1. CASE ServiceNotReady
  BY <1>1, NotReadyType DEF ServiceNotReady, AtMark, Reports, SameViews, KeepsEvents
<1>2. CASE MarkReady
  <2>1. /\ seen' = seen /\ queued' = queued /\ pending \subseteq pending'
        /\ gw' = gw \/ "gw" \in pending'
        /\ w.pc = "mark"
    BY <1>2 DEF MarkReady, AtMark
  <2> QED
    BY <1>2, <2>1, MarkReadyType DEF Marks, SameViews, KeepsEvents
<1>3. CASE MarkRefused
  BY <1>3, NotMarkedType DEF MarkRefused, AtMark, MarksInVain, SameViews, KeepsEvents
<1>4. CASE updateStatus
  <2> DEFINE current == IF seen.gw.alive THEN seen.gw.conds ELSE NoConditions
  <2>1. /\ w.pc = "status" /\ seen' = seen
        /\ \/ gw' = w.gw /\ pending' = pending \cup {"gw"} /\ Return(FALSE)
           \/ Return(TRUE) /\ UNCHANGED <<gw, pending>>
           \/ ~NeedsUpdate(current, w.gw.conds) /\ Return(FALSE) /\ UNCHANGED <<gw, pending>>
    BY <1>4, Zenon DEF updateStatus
  <2>2. CASE gw' = w.gw /\ pending' = pending \cup {"gw"} /\ Return(FALSE)
    BY <2>1, <2>2 DEF Return, Stores, SameViews
  <2>3. CASE Return(TRUE) /\ UNCHANGED <<gw, pending>>
    BY <2>1, <2>3 DEF Return, Breaks, SameViews, KeepsEvents
  <2>4. CASE ~NeedsUpdate(current, w.gw.conds) /\ Return(FALSE) /\ UNCHANGED <<gw, pending>>
    BY <2>1, <2>4 DEF Return, Agrees, SameViews, KeepsEvents
  <2> QED
    BY <2>1, <2>2, <2>3, <2>4
<1> QED
  BY <1>1, <1>2, <1>3, <1>4

\* So are failures.
LEMMA FaultMoves ==
    ASSUME TypeInv, PlaneCallFails \/ MarkFails \/ APIError \/ Restart
    PROVE  GoesOn \/ MarksInVain \/ Breaks \/ Restarts
<1> USE DEF objectVars, cacheVars, Fault
<1>1. CASE PlaneCallFails
  <2>1. UnableToProvision("no answer") \in ConditionValues
    BY KnownConditions DEF ProvisionErrors
  <2>2. /\ w'.pc = "status" /\ queued' = queued
        /\ w'.gw.conds = SetCondition(w.gw.conds, ReadyTypeOf(w.pc),
                                      UnableToProvision("no answer"))
    BY <1>1, <2>1, ReportType DEF PlaneCallFails
  <2>3. w.pc \in Planes /\ w.pc \in {"dp", "cp"}
    BY <1>1 DEF PlaneCallFails, Planes
  <2> QED
    BY <1>1, <2>1, <2>2, <2>3 DEF PlaneCallFails, GoesOn, SameViews, KeepsEvents
<1>2. CASE MarkFails
  BY <1>2, NotMarkedType DEF MarkFails, MarksInVain, SameViews, KeepsEvents
<1>3. CASE APIError
  BY <1>3 DEF APIError, Return, Breaks, SameViews, KeepsEvents
<1>4. CASE Restart
  BY <1>4 DEF Restart, Restarts
<1> QED
  BY <1>1, <1>2, <1>3, <1>4

\* So are events, the resync, and the other actors' steps.
LEMMA OtherMoves ==
    ASSUME TypeInv,
           \/ DeliverGateway \/ DeliverClass \/ DeliverConfig
           \/ \E k \in Kinds : DeliverOwned(k)
           \/ DeliverServices \/ Resync
           \/ DataPlaneController \/ ControlPlaneController \/ GarbageCollect
           \/ EditGateway \/ EditClass \/ EditConfig \/ EditOwned \/ EditService
    PROVE  Quiet \/ SeesGateway \/ SeesClass \/ SeesOwned \/ Edited
<1> USE DEF objectVars, cacheVars
<1>a. {"class", "config", "svc"} \cap Watched = {}
  BY DEF Watched, Kinds, Planes
<1>b. seen \in Views /\ w \in Workers
  BY DEF TypeInv
<1>1. CASE DeliverGateway
  <2>1. seen'.gw = gw /\ seen'.class = seen.class
    BY <1>1, <1>b DEF DeliverGateway, Views
  <2> QED
    BY <1>1, <2>1 DEF DeliverGateway, Delivered, gatewayHasMatchingGatewayClass,
       SeesGateway, SameCopy
<1>2. CASE DeliverClass
  <2>1. seen'.gw = seen.gw /\ seen'.class = class
    BY <1>2, <1>b DEF DeliverClass, Views
  <2>2. class \in Ours => gatewayClassMatchesController(seen.class, class)
    BY DEF gatewayClassMatchesController, Ours
  <2> QED
    BY <1>2, <1>a, <2>1, <2>2 DEF DeliverClass, Delivered, SeesClass, SameCopy, KeepsEvents
<1>3. CASE DeliverConfig
  <2>1. seen'.gw = seen.gw /\ seen'.class = seen.class
    BY <1>3, <1>b DEF DeliverConfig, Views
  <2> QED
    BY <1>3, <1>a, <2>1 DEF DeliverConfig, Delivered, Quiet, SameViews, SameCopy, KeepsEvents
<1>4. ASSUME NEW k \in Kinds, DeliverOwned(k)
      PROVE  SeesOwned
  <2>1. k # "gw"
    BY DEF Kinds, Planes
  <2> QED
    BY <1>4, <2>1 DEF DeliverOwned, Delivered, SeesOwned, SameViews, SameCopy
<1>5. CASE DeliverServices
  <2>1. seen'.gw = seen.gw /\ seen'.class = seen.class
    BY <1>5, <1>b DEF DeliverServices, Views
  <2> QED
    BY <1>5, <1>a, <2>1 DEF DeliverServices, Delivered, Quiet, SameViews, SameCopy,
       KeepsEvents
<1>6. CASE Resync
  BY <1>6 DEF Resync, Quiet, SameViews, SameCopy, KeepsEvents
<1>7. CASE DataPlaneController \/ ControlPlaneController \/ GarbageCollect
  <2>1. Others /\ pending \subseteq pending'
    BY <1>7, Zenon DEF DataPlaneController, ControlPlaneController, GarbageCollect, Replace,
       Write
  <2> QED
    BY <2>1 DEF Others, Quiet, SameViews, SameCopy, KeepsEvents
<1>8. CASE EditGateway
  <2> DEFINE stale == w.pc # "idle"
  <2>1. w' = [w EXCEPT !.stale = stale]
    BY <1>8 DEF EditGateway
  <2> HIDE DEF stale
  <2>2. w'.pc = w.pc /\ w'.gw = w.gw
    BY <2>1, <1>b DEF Workers
  <2> QED
    BY <1>8, <2>2 DEF EditGateway, Edit, Edited, SameViews, SameCopy
<1>9. CASE EditClass \/ EditConfig \/ EditOwned \/ EditService
  <2>1. /\ Edit /\ gw' = gw /\ w' = w
        /\ pending \subseteq pending'
    BY <1>9 DEF EditClass, EditConfig, EditOwned, EditService, Replace, Write
  <2> QED
    BY <2>1 DEF Edit, Quiet, SameViews, SameCopy, KeepsEvents
<1> QED
  BY <1>1, <1>2, <1>3, <1>4, <1>5, <1>6, <1>7, <1>8, <1>9

\* Every step is one of the moves.
LEMMA StepMoves ==
    ASSUME TypeInv, Next
    PROVE  \/ Quiet \/ Edited \/ SeesGateway \/ SeesClass \/ SeesOwned \/ Restarts
           \/ Skips \/ Starts \/ GoesOn \/ Breaks
           \/ Marks \/ MarksInVain \/ Reports \/ Stores \/ Agrees
BY TakeMoves, ProvisionMoves, StatusMoves, FaultMoves, OtherMoves, Zenon
   DEF Next, Reconcile

-----------------------------------------------------------------------------
(* A ready Gateway has an address *)

\* The conditions of a Gateway whose Service was found wanting.
NoService(conds) == HasCondition(conds, GatewayService) /\ conds[GatewayService].status = "False"

\* Ready stands next to a condition that contradicts it.
Contradicted(conds) == IsReady(conds) /\ ~areAllConditionsReady(conds)

\* What the status helpers make of conditions.
LEMMA StatusHelpers ==
    ASSUME NEW conds
    PROVE  /\ LET started == SetCondition(InitReady(conds), Scheduled, PickedUp)
              IN  ~IsReady(started) /\ (NoService(conds) => NoService(started))
           /\ \A k \in Planes : \A c :
                 LET set == SetCondition(conds, ReadyTypeOf(k), c)
                 IN  /\ IsReady(set) <=> IsReady(conds)
                     /\ NoService(set) <=> NoService(conds)
           /\ ~Contradicted(SetReady(conds))
           /\ NoService(conds) => ~IsReady(SetReady(conds))
           /\ \A m : LET new == Conclude(conds, GatewayServiceError(m))
                     IN  NoService(new) /\ (~IsReady(conds) => ~IsReady(new))
           /\ ~Contradicted(conds) => ~Contradicted(Conclude(conds, ResourceReady))
<1> USE DEF SetCondition, HasCondition, NewCondition, ReadyType, Scheduled, GatewayService
<1>1. LET started == SetCondition(InitReady(conds), Scheduled, PickedUp)
      IN  ~IsReady(started) /\ (NoService(conds) => NoService(started))
  BY DEF InitReady, IsReady, IsValidCondition, NotReady, NoService
<1>2. ASSUME NEW k \in Planes, NEW c
      PROVE  LET set == SetCondition(conds, ReadyTypeOf(k), c)
             IN  /\ IsReady(set) <=> IsReady(conds)
                 /\ NoService(set) <=> NoService(conds)
  <2>1. ReadyTypeOf(k) \notin {ReadyType, GatewayService}
    BY DEF ReadyTypeOf, DataPlaneReady, ControlPlaneReady
  <2> QED
    BY <2>1 DEF IsReady, IsValidCondition, NoService
<1>3. ASSUME NEW cs
      PROVE  ~Contradicted(SetReady(cs))
  BY DEF SetReady, Contradicted, IsReady, IsValidCondition, areAllConditionsReady, NotReady
<1>4. ASSUME NEW cs, NoService(cs)
      PROVE  ~IsReady(SetReady(cs)) /\ NoService(SetReady(cs))
  BY <1>4 DEF NoService, SetReady, IsReady, IsValidCondition, areAllConditionsReady, NotReady
<1>5. ASSUME NEW m
      PROVE  LET new == Conclude(conds, GatewayServiceError(m))
             IN  NoService(new) /\ (~IsReady(conds) => ~IsReady(new))
  <2> DEFINE marked == SetCondition(conds, GatewayService, GatewayServiceError(m))
  <2>1. NoService(marked)
    BY DEF NoService, GatewayServiceError
  <2>2. ~IsReady(conds) => ~IsReady(marked)
    BY DEF IsReady, IsValidCondition
  <2>3. Conclude(conds, GatewayServiceError(m)) = IF IsReady(marked) THEN marked
                                                  ELSE SetReady(marked)
    BY DEF Conclude
  <2> HIDE DEF marked
  <2> QED
    BY <2>1, <2>2, <2>3, <1>4
<1>6. ~Contradicted(conds) => ~Contradicted(Conclude(conds, ResourceReady))
  <2> DEFINE marked == SetCondition(conds, GatewayService, ResourceReady)
  <2>1. ~Contradicted(conds) => ~Contradicted(marked)
    BY DEF Contradicted, IsReady, IsValidCondition, areAllConditionsReady, ResourceReady
  <2>2. Conclude(conds, ResourceReady) = IF IsReady(marked) THEN marked
                                         ELSE SetReady(marked)
    BY DEF Conclude
  <2> HIDE DEF marked
  <2> QED
    BY <2>1, <2>2, <1>3
<1> QED
  BY <1>1, <1>2, <1>3, <1>4, <1>5, <1>6

\* The condition of a plane decides neither about Ready nor about the Service.
LEMMA GoesOnConditions ==
    ASSUME GoesOn
    PROVE  /\ IsReady(w'.gw.conds) <=> IsReady(w.gw.conds)
           /\ NoService(w'.gw.conds) <=> NoService(w.gw.conds)
<1>1. ASSUME NEW k \in Planes, NEW c,
             w'.gw.conds = SetCondition(w.gw.conds, ReadyTypeOf(k), c)
      PROVE  /\ IsReady(w'.gw.conds) <=> IsReady(w.gw.conds)
             /\ NoService(w'.gw.conds) <=> NoService(w.gw.conds)
  <2> DEFINE set == SetCondition(w.gw.conds, ReadyTypeOf(k), c)
  <2>1. /\ IsReady(set) <=> IsReady(w.gw.conds)
        /\ NoService(set) <=> NoService(w.gw.conds)
    BY StatusHelpers
  <2>2. w'.gw.conds = set
    BY <1>1
  <2> HIDE DEF set
  <2> QED
    BY <2>1, <2>2
<1> QED
  BY <1>1 DEF GoesOn

\* A Service found wanting is reported, and Ready is not set.
LEMMA ReportsConditions ==
    ASSUME Reports
    PROVE  /\ NoService(w'.gw.conds)
           /\ ~IsReady(w.gw.conds) => ~IsReady(w'.gw.conds)
<1>1. PICK e \in ServiceErrors :
          w'.gw.conds = Conclude(w.gw.conds, GatewayServiceError(e))
  BY DEF Reports
<1> DEFINE new == Conclude(w.gw.conds, GatewayServiceError(e))
<1>2. NoService(new) /\ (~IsReady(w.gw.conds) => ~IsReady(new))
  BY StatusHelpers
<1> HIDE DEF new
<1>3. w'.gw.conds = new
  BY <1>1 DEF new
<1> QED
  BY <1>2, <1>3

\* The stored and the cached Gateway have addresses if they are ready, and so has
\* what the worker is about to store.  Before, its copy is not ready.
Addressed(g) == IsReady(g.conds) => g.addrs # NoAddresses
AddressInv ==
    /\ Addressed(gw) /\ Addressed(seen.gw)
    /\ w.pc = "status" => Addressed(w.gw)
    /\ w.pc \in {"dp", "cp", "np", "mark"} => ~IsReady(w.gw.conds)

\* An absent Gateway is not ready, and an idle worker has no copy to store.
LEMMA AbsentNotReady ==
    /\ ~IsReady(NoGateway.conds)
    /\ Idle.pc = "idle"
BY DEF NoGateway, NoConditions, IsReady, IsValidCondition, HasCondition, Idle

\* Every step keeps AddressInv.
LEMMA AddressStep ==
    ASSUME TypeInv, AddressInv, Next
    PROVE  AddressInv'
<1> USE DEF AddressInv, Addressed
<1>1. CASE Quiet \/ SeesGateway \/ SeesClass \/ SeesOwned \/ Skips
  BY <1>1 DEF Quiet, SeesGateway, SeesClass, SeesOwned, Skips, SameViews, SameCopy
<1>2. CASE Edited
  BY <1>2, AbsentNotReady DEF Edited, SameViews, SameCopy
<1>3. CASE Restarts \/ Breaks \/ Agrees \/ Stores
  BY <1>3, AbsentNotReady DEF Restarts, Breaks, Agrees, Stores, SameViews
<1>4. CASE Starts
  BY <1>4, StatusHelpers DEF Starts, SameViews
<1>5. CASE GoesOn
  <2>1. ~IsReady(w'.gw.conds)
    BY <1>5, GoesOnConditions DEF GoesOn
  <2> QED
    BY <1>5, <2>1 DEF GoesOn, SameViews
<1>6. CASE Marks \/ MarksInVain
  BY <1>6 DEF Marks, MarksInVain, SameViews
<1>7. CASE Reports
  <2>1. ~IsReady(w'.gw.conds)
    BY <1>7, ReportsConditions DEF Reports
  <2> QED
    BY <1>7, <2>1 DEF Reports, SameViews
<1> QED
  BY <1>1, <1>2, <1>3, <1>4, <1>5, <1>6, <1>7, StepMoves

\* AddressInv is an invariant.
LEMMA AlwaysAddressed == Spec => []AddressInv
<1>1. Init => AddressInv
  <2>1. ASSUME Init
        PROVE  ~IsReady(gw.conds) /\ ~IsReady(seen.gw.conds) /\ w.pc = "idle"
    BY <2>1, AbsentNotReady DEF Init, NoGateway
  <2> QED
    BY <2>1 DEF AddressInv, Addressed
<1>2. TypeInv /\ AddressInv /\ [Next]_vars => AddressInv'
  <2>1. ASSUME AddressInv, UNCHANGED vars
        PROVE  AddressInv'
    BY <2>1 DEF vars, AddressInv, Addressed
  <2> QED
    BY <2>1, AddressStep
<1> QED
  BY <1>1, <1>2, Typed, PTL DEF Spec

\* A Gateway that is stored as ready has an address: whichever status update was
\* lost or refused, and whatever became of the Services since they were listed.
THEOREM ReadyAddress == Spec => []ReadyHasAddress
<1>1. AddressInv => ReadyHasAddress
  BY DEF AddressInv, Addressed, ReadyHasAddress
<1> QED
  BY <1>1, AlwaysAddressed, PTL

-----------------------------------------------------------------------------
(* A contradicted Ready is not left standing *)

\* An event that brings the Gateway back, or the class keeps it away.
Announced == queued \/ pending \cap Watched # {} \/ seen.class \notin Ours

\* Only a Service found wanting contradicts a stored Ready.  If nothing announces
\* a pass, one is under way, and its copy, which it made of this very Gateway,
\* has the contradiction too: it can no longer become ready.
FlightInv ==
    /\ "gw" \notin pending => seen.gw = gw
    /\ Contradicted(gw.conds) => NoService(gw.conds)
    /\ w.pc = "status" /\ Contradicted(w.gw.conds) => NoService(w.gw.conds)
    /\ gw.alive /\ Contradicted(gw.conds) /\ ~Announced =>
          /\ w.pc # "idle"
          /\ w.pc # "status" => NoService(w.gw.conds)
          /\ ~IsReady(w.gw.conds)

\* What has been announced stays so while the events are kept.
LEMMA StaysAnnounced ==
    ASSUME KeepsEvents, SameViews, Announced
    PROVE  Announced'
BY DEF KeepsEvents, SameViews, Announced

\* The steps that leave the worker's copy alone keep FlightInv.
LEMMA FlightSameCopy ==
    ASSUME TypeInv, FlightInv,
           Quiet \/ Edited \/ SeesGateway \/ SeesClass \/ SeesOwned \/ Skips
    PROVE  FlightInv'
<1> USE DEF SameViews, SameCopy
<1>a. Kinds \subseteq Watched /\ "gw" \in Watched /\ "foreign" \notin Ours
  BY DEF Watched, Ours
<1>1. CASE Quiet
  BY <1>1, <1>a, StaysAnnounced DEF Quiet, FlightInv, KeepsEvents
<1>2. CASE Edited
  <2>1. Announced'
    BY <1>2, <1>a DEF Edited, Announced
  <2>2. ~Contradicted(NoGateway.conds)
    BY AbsentNotReady DEF Contradicted
  <2> QED
    BY <1>2, <2>1, <2>2 DEF Edited, FlightInv
<1>3. CASE SeesGateway
  <2>1. Announced'
    BY <1>3, <1>a DEF SeesGateway, Announced
  <2> QED
    BY <1>3, <2>1 DEF SeesGateway, FlightInv
<1>4. CASE SeesClass
  <2>1. gw.alive /\ Announced => Announced'
    <3>1. CASE "gw" \in pending
      BY <1>4, <3>1, <1>a DEF SeesClass, Announced, KeepsEvents
    <3>2. CASE "gw" \notin pending
      <4>1. seen.gw = gw
        BY <3>2 DEF FlightInv
      <4>2. queued \/ pending \cap Watched # {} => Announced'
        BY <1>4 DEF SeesClass, Announced, KeepsEvents
      <4>3. gw.alive => Announced'
        BY <1>4, <4>1 DEF SeesClass, Announced
      <4> QED
        BY <4>3
    <3> QED
      BY <3>1, <3>2
  <2> QED
    BY <1>4, <2>1, <1>a DEF SeesClass, FlightInv, KeepsEvents
<1>5. CASE SeesOwned
  <2>1. Announced'
    BY <1>5 DEF SeesOwned, Announced
  <2> QED
    BY <1>5, <2>1 DEF SeesOwned, FlightInv
<1>6. CASE Skips
  <2>1. gw.alive => Announced'
    BY <1>6, <1>a DEF Skips, FlightInv, Announced
  <2> QED
    BY <1>6, <2>1 DEF Skips, FlightInv
<1> QED
  BY <1>1, <1>2, <1>3, <1>4, <1>5, <1>6

\* The steps of the pass that keep the stored Gateway keep FlightInv.
LEMMA FlightPass ==
    ASSUME TypeInv, AddressInv, FlightInv,
           \/ Restarts \/ Starts \/ GoesOn \/ Breaks \/ MarksInVain \/ Reports
           \/ Stores \/ Agrees
    PROVE  FlightInv'
<1> USE DEF SameViews
<1>a. Kinds \subseteq Watched /\ "gw" \in Watched /\ "np" \in Watched
  BY DEF Watched, Kinds
<1>b. w.pc \in {"dp", "cp", "np", "mark"} => ~IsReady(w.gw.conds)
  BY DEF AddressInv
<1>c. ASSUME NEW conds, ~IsReady(conds) PROVE ~Contradicted(conds)
  BY <1>c DEF Contradicted
<1>1. CASE Restarts
  BY <1>1, AbsentNotReady DEF Restarts, FlightInv, Announced
<1>2. CASE Starts
  <2> DEFINE conds == SetCondition(InitReady(seen.gw.conds), Scheduled, PickedUp)
  <2>1. ~IsReady(conds) /\ (NoService(seen.gw.conds) => NoService(conds))
    BY StatusHelpers
  <2>2. w'.gw.conds = conds
    BY <1>2 DEF Starts
  <2> HIDE DEF conds
  <2>3. ~Announced' => "gw" \notin pending
    BY <1>2, <1>a DEF Starts, Announced
  <2> QED
    BY <1>2, <2>1, <2>2, <2>3 DEF Starts, FlightInv
<1>3. CASE GoesOn
  <2>1. ~IsReady(w.gw.conds) /\ w.pc \notin {"idle", "status"}
    BY <1>3, <1>b DEF GoesOn
  <2>2. ~IsReady(w'.gw.conds) /\ (NoService(w.gw.conds) => NoService(w'.gw.conds))
    BY <1>3, <2>1, GoesOnConditions
  <2>3. ~Contradicted(w'.gw.conds)
    BY <2>2, <1>c
  <2>4. Announced => Announced'
    BY <1>3, StaysAnnounced DEF GoesOn
  <2> QED
    BY <1>3, <1>a, <2>1, <2>2, <2>3, <2>4 DEF GoesOn, FlightInv, KeepsEvents
<1>4. CASE Breaks
  <2>1. Announced'
    BY <1>4, <1>a DEF Breaks, Announced
  <2> QED
    BY <1>4, <1>a, <2>1, AbsentNotReady DEF Breaks, FlightInv, KeepsEvents
<1>5. CASE MarksInVain
  <2> DEFINE ready == SetReady(w.gw.conds)
             conds == Conclude(ready, GatewayServiceError("not written"))
  <2>1. NoService(conds) /\ (~IsReady(ready) => ~IsReady(conds))
    BY StatusHelpers
  <2>2. NoService(w.gw.conds) => ~IsReady(ready)
    BY StatusHelpers
  <2>3. w'.gw.conds = conds
    BY <1>5 DEF MarksInVain
  <2> HIDE DEF ready, conds
  <2>4. Announced => Announced'
    BY <1>5, StaysAnnounced DEF MarksInVain
  <2> QED
    BY <1>5, <1>a, <2>1, <2>2, <2>3, <2>4 DEF MarksInVain, FlightInv, KeepsEvents
<1>6. CASE Reports
  <2>1. ~IsReady(w'.gw.conds) /\ NoService(w'.gw.conds)
    BY <1>6, <1>b, ReportsConditions DEF Reports
  <2>2. Announced => Announced'
    BY <1>6, StaysAnnounced DEF Reports
  <2> QED
    BY <1>6, <1>a, <2>1, <2>2 DEF Reports, FlightInv, KeepsEvents
<1>7. CASE Stores
  <2>1. Announced'
    BY <1>7, <1>a DEF Stores, Announced
  <2> QED
    BY <1>7, <2>1, AbsentNotReady DEF Stores, FlightInv
<1>8. CASE Agrees
  <2>1. ASSUME gw.alive, Contradicted(gw.conds), ~Announced
        PROVE  FALSE
    <3>1. seen.gw = gw
      BY <2>1, <1>a DEF FlightInv, Announced
    <3>2. ~NeedsUpdate(gw.conds, w.gw.conds)
      BY <1>8, <2>1, <3>1 DEF Agrees
    <3>3. IsReady(gw.conds)
      BY <2>1 DEF Contradicted
    <3>4. IsReady(w.gw.conds)
      BY <3>2, <3>3 DEF NeedsUpdate, IsReady, IsValidCondition, HasCondition
    <3> QED
      BY <2>1, <3>4 DEF FlightInv
  <2>2. Announced => Announced'
    BY <1>8, StaysAnnounced DEF Agrees
  <2> QED
    BY <1>8, <1>a, <2>1, <2>2, AbsentNotReady DEF Agrees, FlightInv, KeepsEvents
<1> QED
  BY <1>1, <1>2, <1>3, <1>4, <1>5, <1>6, <1>7, <1>8

\* So does the first of the two status updates.
LEMMA FlightMarks ==
    ASSUME TypeInv, FlightInv, Marks
    PROVE  FlightInv'
<1>1. ~Contradicted(gw'.conds)
  BY StatusHelpers DEF Marks
<1>2. ~Contradicted(w'.gw.conds)
  <2>1. ~Contradicted(SetReady(w.gw.conds))
    BY StatusHelpers
  <2>2. ~Contradicted(Conclude(SetReady(w.gw.conds), ResourceReady))
    BY <2>1, StatusHelpers
  <2> QED
    BY <2>2 DEF Marks
<1>3. "gw" \notin pending' => seen'.gw = gw'
  BY DEF Marks, SameViews, KeepsEvents, FlightInv, Watched
<1> QED
  BY <1>1, <1>2, <1>3 DEF FlightInv

\* A stored Ready that another condition contradicts is taken up again, however
\* many updates failed in whatever order: no two failures leave it standing.
THEOREM ContradictionTakenUp == Spec => []ContradictionInFlight
<1>1. Init => FlightInv
  <2>1. ASSUME Init
        PROVE  ~IsReady(gw.conds) /\ w.pc = "idle" /\ "gw" \in pending
    BY <2>1, AbsentNotReady DEF Init, NoGateway
  <2> QED
    BY <2>1 DEF FlightInv, Contradicted
<1>2. TypeInv /\ AddressInv /\ FlightInv /\ [Next]_vars => FlightInv'
  <2>1. ASSUME FlightInv, UNCHANGED vars
        PROVE  FlightInv'
    BY <2>1 DEF vars, FlightInv, Announced
  <2>2. ASSUME TypeInv, AddressInv, FlightInv, Next
        PROVE  FlightInv'
    BY <2>2, StepMoves, FlightSameCopy, FlightPass, FlightMarks, Zenon
  <2> QED
    BY <2>1, <2>2
<1>3. FlightInv => ContradictionInFlight
  BY DEF FlightInv, ContradictionInFlight, Contradicted, Announced, Watched
<1> QED
  BY <1>1, <1>2, <1>3, Typed, AlwaysAddressed, PTL DEF Spec

=============================================================================
