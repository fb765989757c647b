--------------------- MODULE ControlPlaneFinalizerProofs ---------------------
(***************************************************************************)
(* Theorems about the finalizers of ControlPlane: cluster-scoped objects   *)
(* are only created under them, bindings are deleted before roles, and if  *)
(* the informers keep up with deletions none outlives the ControlPlane.    *)
(***************************************************************************)
EXTENDS ControlPlaneProofs

-----------------------------------------------------------------------------
(* What a step can do to the ControlPlane, the cache and the worker *)

\* The step changes neither the finalizers nor the deletion of the stored
\* ControlPlane, and the informer cache of it does not change.
Quiet ==
    /\ cp'.alive = cp.alive /\ cp'.deleted = cp.deleted /\ cp'.fins = cp.fins
    /\ cpSeen' = cpSeen
    /\ "cp" \notin pending' => cp' = cp /\ "cp" \notin pending

\* The worker goes on with what it holds: it drops a finalizer from its copy
\* only in the cleanup, and enters neither cleanup nor provisioning.
GoesOn ==
    /\ w.pc # "idle"
    /\ w'.stale = w.stale
    /\ w'.cp.deleted = w.cp.deleted
    /\ w'.cp.fins = w.cp.fins \/ (w.cp.deleted /\ w'.pc = "update")
    /\ w'.pc \in Provisioning => w.pc \in Provisioning
    /\ w'.pc \in {"delcrb", "delcr"} => w.pc \in {"delcrb", "delcr"}
    /\ w'.pc = "update" => w.pc \in Provisioning \/ w.pc \in {"delcrb", "delcr"}

\* Return leaves the idle worker; Goto changes its step and copy, nothing else.
LEMMA WorkerMoves ==
    ASSUME TypeOK
    PROVE  /\ \A b \in BOOLEAN : Return(b) => w' = Idle
           /\ \A pc \in Steps, c \in ControlPlaneResource :
                 Goto(pc, c) => w'.pc = pc /\ w'.cp = c /\ w'.stale = w.stale
<1>1. ASSUME NEW b \in BOOLEAN, Return(b)
      PROVE  w' = Idle
  BY <1>1 DEF Return
<1>2. ASSUME NEW pc \in Steps, NEW c \in ControlPlaneResource, Goto(pc, c)
      PROVE  w'.pc = pc /\ w'.cp = c /\ w'.stale = w.stale
  BY <1>2 DEF Goto, TypeOK, Worker
<1> QED
  BY <1>1, <1>2

\* What the worker holds after taking the key and reading the cache.
LEMMA HoldMoves ==
    ASSUME TypeOK, NEW pc \in Steps, NEW c \in ControlPlaneResource, Hold(pc, c)
    PROVE  /\ w'.pc = pc /\ w'.cp = c
           /\ ~w'.stale => "cp" \notin pending
<1> DEFINE fresh == "cp" \in pending
<1>0. fresh \in BOOLEAN
  OBVIOUS
<1>1. w' = [Idle EXCEPT !.pc = pc, !.cp = c, !.stale = fresh]
  BY DEF Hold
<1> HIDE DEF fresh
<1>2. w'.pc = pc /\ w'.cp = c /\ w'.stale = fresh
  BY <1>0, <1>1, ConstantTypes DEF Worker
<1> QED
  BY <1>2 DEF fresh

\* The status helpers touch neither the deletion nor the finalizers.
LEMMA SameFinalizers ==
    ASSUME NEW c \in ControlPlaneResource
    PROVE  /\ WithDataPlaneStatus(c) \in ControlPlaneResource
           /\ WithDataPlaneStatus(c).deleted = c.deleted
           /\ WithDataPlaneStatus(c).fins = c.fins
<1> DEFINE conds == ensureDataPlaneStatus(c.dp, c.conds)
<1>1. conds \in Conds
  BY StatusTypes DEF ControlPlaneResource
<1>2. WithDataPlaneStatus(c) = [c EXCEPT !.conds = conds]
  BY DEF WithDataPlaneStatus
<1> HIDE DEF conds
<1> QED
  BY <1>1, <1>2 DEF ControlPlaneResource

\* Reconcile's steps about the DataPlane and the status.
LEMMA StatusMoves ==
    ASSUME TypeOK, updateStatus \/ ReadDataPlane \/ ensureDataPlaneConfiguration
    PROVE  Quiet /\ (w' = Idle \/ GoesOn) /\ w.pc \notin {"delcrb", "delcr"}
<1> USE DEF objectVars, cacheVars, envVars
<1>a. /\ cp \in ControlPlaneResource /\ w.cp \in ControlPlaneResource
      /\ w.cp.dp \in BOOLEAN /\ w.cp.env \in Env /\ w.cp.conds \in Conds
      /\ cp.conds \in Conds
  BY DEF TypeOK, Worker, ControlPlaneResource
<1>b. {"update", "status", "config", "sa"} \subseteq Steps
  BY DEF Steps, Kinds
<1>c. w.pc \in {"status", "dataplane", "config"}
  BY Zenon DEF updateStatus, ReadDataPlane, ensureDataPlaneConfiguration
<1>1. CASE updateStatus
  <2>1. w' = Idle
    BY <1>1, WorkerMoves DEF updateStatus
  <2>2. \/ UNCHANGED <<cp, pending>>
        \/ WriteCP([cp EXCEPT !.conds = w.cp.conds])
    BY <1>1 DEF updateStatus
  <2>3. cpSeen' = cpSeen
    BY <1>1 DEF updateStatus
  <2> QED
    BY <1>a, <1>c, <2>1, <2>2, <2>3 DEF WriteCP, Quiet, ControlPlaneResource
<1>2. CASE ReadDataPlane
  <2> DEFINE service == IF w.cp.dp THEN svc ELSE NoService
             defaulted == setControlPlaneDefaults(w.cp.env, service)
             changed == setControlPlaneEnvOnDataPlaneChange(w.cp.dp, w.cp.env, service)
  <2>1. service \in ServiceNames
    BY DEF TypeOK, ServiceNames
  <2>2. defaulted \in Env /\ changed \in Env
    BY <1>a, <2>1, EnvTypes
  <2>3. \/ Return(TRUE)
        \/ Goto("update", [w.cp EXCEPT !.env = defaulted])
        \/ Goto("config", [w.cp EXCEPT !.env = changed])
        \/ Goto("sa", WithDataPlaneStatus(w.cp))
    BY <1>2, Zenon DEF ReadDataPlane
  <2>4. w.pc = "dataplane" /\ UNCHANGED <<cp, cpSeen, pending>>
    BY <1>2, Zenon DEF ReadDataPlane
  <2> HIDE DEF service, defaulted, changed
  <2>5. ASSUME NEW env \in Env
        PROVE  LET c == [w.cp EXCEPT !.env = env]
               IN  c \in ControlPlaneResource /\ c.deleted = w.cp.deleted
                   /\ c.fins = w.cp.fins
    BY <1>a DEF ControlPlaneResource
  <2>6. w' = Idle \/ GoesOn
    <3>1. CASE Return(TRUE)
      BY <3>1, WorkerMoves
    <3>2. CASE Goto("update", [w.cp EXCEPT !.env = defaulted])
      BY <3>2, <1>b, <2>2, <2>4, <2>5, WorkerMoves DEF GoesOn, Provisioning, Kinds
    <3>3. CASE Goto("config", [w.cp EXCEPT !.env = changed])
      BY <3>3, <1>b, <2>2, <2>4, <2>5, WorkerMoves DEF GoesOn, Provisioning
    <3>4. CASE Goto("sa", WithDataPlaneStatus(w.cp))
      BY <3>4, <1>a, <1>b, <2>4, WorkerMoves, SameFinalizers DEF GoesOn, Provisioning
    <3> QED
      BY <2>3, <3>1, <3>2, <3>3, <3>4
  <2> QED
    BY <2>4, <2>6 DEF Quiet
<1>3. CASE ensureDataPlaneConfiguration
  <2> DEFINE copy == [w.cp EXCEPT !.conds = cp.conds]
  <2>1. copy \in ControlPlaneResource /\ copy.deleted = w.cp.deleted
        /\ copy.fins = w.cp.fins
    BY <1>a DEF ControlPlaneResource
  <2>2. \/ Return(TRUE) /\ UNCHANGED <<cp, pending>>
        \/ /\ WriteCP([cp EXCEPT !.env = w.cp.env])
           /\ Goto("sa", WithDataPlaneStatus(copy))
    BY <1>3 DEF ensureDataPlaneConfiguration
  <2>3. w.pc = "config" /\ cpSeen' = cpSeen
    BY <1>3 DEF ensureDataPlaneConfiguration
  <2> HIDE DEF copy
  <2>4. w' = Idle \/ GoesOn
    BY <1>b, <2>1, <2>2, <2>3, WorkerMoves, SameFinalizers DEF GoesOn, Provisioning
  <2>5. Quiet
    BY <1>a, <2>2, <2>3 DEF Quiet, WriteCP, ControlPlaneResource
  <2> QED
    BY <1>c, <2>4, <2>5
<1> QED
  BY <1>1, <1>2, <1>3, <1>c

\* Every other step of Reconcile after the first read, but for the Update.
LEMMA OwnedMoves ==
    ASSUME TypeOK,
           \/ \E k \in Kinds : FoundSeveral(k)
           \/ CANotFound
           \/ \E k \in Kinds \ {"dep"} : CreateOwned(k) \/ RepairOwned(k) \/ HaveOwned(k)
           \/ CreateDeployment \/ UpdateDeployment \/ CheckReadiness
    PROVE  Quiet /\ (w' = Idle \/ GoesOn) /\ w.pc \notin {"delcrb", "delcr"}
<1> USE DEF objectVars, cacheVars, envVars
<1>a. w.cp \in ControlPlaneResource /\ w.cp.conds \in Conds
  BY DEF TypeOK, Worker, ControlPlaneResource
<1>b. ASSUME w.pc \in Kinds, NEW c \in ControlPlaneResource, Goto("status", c),
             c.deleted = w.cp.deleted, c.fins = w.cp.fins
      PROVE  GoesOn
  <2>1. w'.pc = "status" /\ w'.cp = c /\ w'.stale = w.stale
    BY <1>b, WorkerMoves DEF Steps
  <2> QED
    BY <1>b, <2>1 DEF GoesOn, Provisioning, Kinds
<1>c. ASSUME cp' = cp, cpSeen' = cpSeen, "cp" \in pending => "cp" \in pending'
      PROVE  Quiet
  BY <1>c DEF Quiet
<1>d. ASSUME NEW k \in Kinds, NEW S, Write(k, S)
      PROVE  "cp" \in pending => "cp" \in pending'
  BY <1>d DEF Write
<1>e. DeploymentChanged /\ w.pc = "dep" => w' = Idle \/ GoesOn
  BY <1>a, <1>b, WorkerMoves DEF DeploymentChanged, Kinds
<1>f. w.pc \in Kinds
  BY DEF FoundSeveral, CANotFound, CreateOwned, RepairOwned, HaveOwned,
         CreateDeployment, UpdateDeployment, CheckReadiness, Kinds
<1>1. ASSUME NEW k \in Kinds, FoundSeveral(k)
      PROVE  Quiet /\ w' = Idle
  BY <1>1, <1>c, WorkerMoves DEF FoundSeveral
<1>2. CASE CANotFound
  BY <1>2, <1>c, WorkerMoves DEF CANotFound
<1>3. ASSUME NEW k \in Kinds \ {"dep"}, CreateOwned(k)
      PROVE  Quiet /\ w' = Idle
  BY <1>3, <1>c, <1>d, WorkerMoves DEF CreateOwned
<1>4. ASSUME NEW k \in Kinds \ {"dep"}, RepairOwned(k)
      PROVE  Quiet /\ w' = Idle
  BY <1>4, <1>c, <1>d, WorkerMoves DEF RepairOwned
<1>5. ASSUME NEW k \in Kinds \ {"dep"}, HaveOwned(k)
      PROVE  Quiet /\ GoesOn
  <2>1. PICK o \in List(k) :
           w' = [w EXCEPT !.pc = NextStep[k], !.held[k] = o.name]
    BY <1>5 DEF HaveOwned
  <2>2. w'.pc = NextStep[k] /\ w'.cp = w.cp /\ w'.stale = w.stale /\ w.pc = k
    BY <1>5, <2>1 DEF HaveOwned, TypeOK, Worker
  <2>3. NextStep[k] \in Kinds
    BY DEF NextStep, Kinds
  <2>4. GoesOn
    BY <2>2, <2>3 DEF GoesOn, Provisioning, Kinds
  <2> QED
    BY <1>5, <1>c, <2>4 DEF HaveOwned
<1>6. CASE CreateDeployment
  <2>1. w' = Idle \/ GoesOn
    BY <1>6, <1>e DEF CreateDeployment
  <2>2. Quiet
    BY <1>6, <1>c, <1>d DEF CreateDeployment, Kinds
  <2> QED
    BY <1>f, <2>1, <2>2 DEF Kinds
<1>7. CASE UpdateDeployment
  <2>1. w' = Idle \/ GoesOn
    BY <1>7, <1>e, WorkerMoves DEF UpdateDeployment
  <2>2. Quiet
    BY <1>7, <1>c, <1>d DEF UpdateDeployment, Kinds
  <2> QED
    BY <1>f, <2>1, <2>2 DEF Kinds
<1>8. CASE CheckReadiness
  <2> DEFINE conds == ensureIsMarkedProvisioned(w.cp.conds)
             copy == [w.cp EXCEPT !.conds = conds]
  <2>1. conds \in Conds
    BY <1>a, StatusTypes
  <2>2. w.pc = "dep" /\ (Goto("status", copy) \/ Return(FALSE))
    BY <1>8 DEF CheckReadiness
  <2> HIDE DEF conds
  <2>3. copy \in ControlPlaneResource /\ copy.deleted = w.cp.deleted
        /\ copy.fins = w.cp.fins
    BY <1>a, <2>1 DEF ControlPlaneResource
  <2> HIDE DEF copy
  <2>4. w' = Idle \/ GoesOn
    BY <1>b, <2>2, <2>3, WorkerMoves DEF Kinds
  <2> QED
    BY <1>8, <1>c, <2>4 DEF CheckReadiness
<1> QED
  BY <1>1, <1>2, <1>3, <1>4, <1>5, <1>6, <1>7, <1>8, <1>f DEF Kinds

\* A cleanup step goes on with one finalizer less in the copy, goes to the next
\* step, or returns.
LEMMA CleanupMoves ==
    ASSUME TypeOK, FinalizersHold, DeleteBindings \/ DeleteRoles
    PROVE  /\ Quiet /\ (w' = Idle \/ GoesOn)
           /\ w'.pc = "update" =>
                 \E k \in Finalizers : /\ w'.cp.fins = w.cp.fins \ {k}
                                       /\ Delete(k, Listed(k))
           /\ w'.pc = "delcr" => w'.cp.fins = w.cp.fins
           /\ w'.pc \in {"idle", "update", "delcr"}
<1> USE DEF objectVars, cacheVars, envVars
<1>a. ASSUME NEW k \in Finalizers
      PROVE  /\ WithoutFinalizer(k) \in ControlPlaneResource
             /\ WithoutFinalizer(k).deleted = w.cp.deleted
             /\ WithoutFinalizer(k).fins = w.cp.fins \ {k}
  BY DEF TypeOK, Worker, ControlPlaneResource, WithoutFinalizer
<1>b. w.cp \in ControlPlaneResource /\ w.cp.deleted
  BY DEF TypeOK, Worker, FinalizersHold, DeleteBindings, DeleteRoles
<1>c. Idle.pc = "idle"
  BY DEF Idle
<1>d. {"update", "delcr"} \subseteq Steps
  BY DEF Steps
<1>e. ASSUME NEW k \in Finalizers, Delete(k, Listed(k))
      PROVE  "cp" \in pending => "cp" \in pending'
  BY <1>e DEF Delete, Write
<1>1. Quiet
  BY <1>e DEF DeleteBindings, DeleteRoles, Quiet, Finalizers
<1>2. CASE DeleteBindings
  <2>1. /\ w.pc = "delcrb" /\ Delete("crb", Listed("crb"))
        /\ Goto("update", WithoutFinalizer("crb")) \/ Goto("delcr", w.cp)
    BY <1>2 DEF DeleteBindings
  <2>2. \/ /\ w'.pc = "update" /\ w'.cp = WithoutFinalizer("crb")
           /\ w'.stale = w.stale
        \/ w'.pc = "delcr" /\ w'.cp = w.cp /\ w'.stale = w.stale
    BY <1>a, <1>b, <1>d, <2>1, WorkerMoves DEF Finalizers
  <2>3. GoesOn
    BY <1>a, <1>b, <2>1, <2>2 DEF GoesOn, Provisioning, Kinds, Finalizers
  <2> QED
    BY <1>1, <1>a, <2>1, <2>2, <2>3 DEF Finalizers
<1>3. CASE DeleteRoles
  <2>1. /\ w.pc = "delcr" /\ Delete("cr", Listed("cr"))
        /\ Goto("update", WithoutFinalizer("cr")) \/ Return(FALSE)
    BY <1>3 DEF DeleteRoles
  <2>2. \/ /\ w'.pc = "update" /\ w'.cp = WithoutFinalizer("cr")
           /\ w'.stale = w.stale
        \/ w' = Idle
    BY <1>a, <1>b, <1>d, <2>1, WorkerMoves DEF Finalizers
  <2>3. w' = Idle \/ GoesOn
    BY <1>a, <1>b, <2>1, <2>2 DEF GoesOn, Provisioning, Kinds, Finalizers
  <2> QED
    BY <1>1, <1>a, <1>c, <2>1, <2>2, <2>3 DEF Finalizers
<1> QED
  BY <1>2, <1>3

\* The steps of everybody else that leave the ControlPlane and its cache alone.
LEMMA OtherMoves ==
    ASSUME TypeOK,
           \/ GetNotFound \/ WaitForGracePeriod
           \/ APIError \/ PartialDelete
           \/ \E k \in Kinds : DeliverOwned(k)
           \/ Resync \/ GraceExpires \/ TimerFires \/ CreateCA
           \/ DeploymentController \/ GarbageCollect
           \/ LoseOwned \/ EditOwned \/ PodFails \/ ServiceChanges
    PROVE  Quiet /\ (w' = w \/ w' = Idle)
<1> USE DEF objectVars, cacheVars, envVars
<1>a. ASSUME cp' = cp, cpSeen' = cpSeen, "cp" \in pending => "cp" \in pending'
      PROVE  Quiet
  BY <1>a DEF Quiet
<1>b. ASSUME NEW k, NEW S, Write(k, S)
      PROVE  "cp" \in pending => "cp" \in pending'
  BY <1>b DEF Write
<1>1. CASE GetNotFound \/ WaitForGracePeriod
  BY <1>1, <1>a DEF GetNotFound, WaitForGracePeriod, Take
<1>2. CASE APIError \/ PartialDelete
  <2>1. w' = Idle /\ cp' = cp /\ cpSeen' = cpSeen
    BY <1>2, WorkerMoves DEF APIError, PartialDelete
  <2>2. "cp" \in pending => "cp" \in pending'
    BY <1>2, <1>b DEF APIError, PartialDelete
  <2> QED
    BY <1>a, <2>1, <2>2
<1>3. CASE \E k \in Kinds : DeliverOwned(k)
  BY <1>3, <1>a DEF DeliverOwned, Kinds
<1>4. CASE Resync \/ GraceExpires \/ TimerFires \/ CreateCA
  BY <1>4, <1>a DEF Resync, GraceExpires, TimerFires, CreateCA
<1>5. CASE DeploymentController \/ GarbageCollect
  BY <1>5, <1>a, <1>b DEF DeploymentController, GarbageCollect
<1>6. CASE LoseOwned \/ EditOwned \/ PodFails \/ ServiceChanges
  <2>1. w' = w /\ cp' = cp /\ cpSeen' = cpSeen
    BY <1>6 DEF LoseOwned, EditOwned, PodFails, ServiceChanges, Edit
  <2>2. "cp" \in pending => "cp" \in pending'
    BY <1>6, <1>b DEF LoseOwned, EditOwned, PodFails, ServiceChanges
  <2> QED
    BY <1>a, <2>1, <2>2
<1> QED
  BY <1>1, <1>2, <1>3, <1>4, <1>5, <1>6

\* A user's write removes the resource only if no finalizer holds it, changes no
\* finalizer, never undoes a deletion and makes the worker's copy stale.
LEMMA EditMoves ==
    ASSUME TypeOK, EditControlPlane
    PROVE  /\ cp'.fins = cp.fins /\ cp.alive
           /\ cp.deleted => cp'.deleted
           /\ cp'.alive <=> ~(cp'.deleted /\ cp'.fins = {})
           /\ "cp" \in pending' /\ cpSeen' = cpSeen /\ owned' = owned
           /\ w'.pc = w.pc /\ w'.cp = w.cp
           /\ w.pc # "idle" => w'.stale
<1> USE DEF cacheVars
<1>1. PICK new \in ControlPlaneResource :
         UserWrites(new) /\ new.alive = cp.alive /\ new.fins = cp.fins
         /\ (cp.deleted => new.deleted)
  <2>0. cp \in ControlPlaneResource
    BY DEF TypeOK
  <2>1. CASE UserWrites([cp EXCEPT !.dp = ~@])
    <3> DEFINE dp == ~cp.dp
    <3>1. dp \in BOOLEAN /\ UserWrites([cp EXCEPT !.dp = dp])
      BY <2>1
    <3> HIDE DEF dp
    <3> QED
      BY <2>0, <3>1 DEF ControlPlaneResource
  <2>2. ASSUME NEW s \in ServiceNames, UserWrites([cp EXCEPT !.env.service = s])
        PROVE  \E new \in ControlPlaneResource :
                  UserWrites(new) /\ new.alive = cp.alive /\ new.fins = cp.fins
                  /\ (cp.deleted => new.deleted)
    <3>1. cp.env \in Env
      BY <2>0 DEF ControlPlaneResource
    <3> DEFINE new == [cp EXCEPT !.env.service = s]
    <3>2. new \in ControlPlaneResource /\ new.alive = cp.alive /\ new.fins = cp.fins
          /\ new.deleted = cp.deleted
      BY <2>0, <3>1 DEF ControlPlaneResource, Env
    <3>3. UserWrites(new)
      BY <2>2
    <3> HIDE DEF new
    <3> QED
      BY <3>2, <3>3
  <2>3. CASE UserWrites([cp EXCEPT !.deleted = TRUE])
    BY <2>0, <2>3 DEF ControlPlaneResource
  <2> QED
    BY <2>1, <2>2, <2>3 DEF EditControlPlane
<1>2. /\ Stored(new).fins = new.fins /\ Stored(new).deleted = new.deleted
      /\ Stored(new).alive <=> new.alive /\ ~(new.deleted /\ new.fins = {})
  <2> DEFINE alive == new.alive /\ ~(new.deleted /\ new.fins = {})
  <2>1. alive \in BOOLEAN /\ (alive <=> new.alive /\ ~(new.deleted /\ new.fins = {}))
    OBVIOUS
  <2>2. Stored(new) = [new EXCEPT !.alive = alive]
    BY DEF Stored
  <2> HIDE DEF alive
  <2> QED
    BY <2>1, <2>2 DEF ControlPlaneResource
<1>3. cp.alive /\ cp' = Stored(new) /\ "cp" \in pending'
  BY <1>1 DEF UserWrites, WriteCP
<1>4. w'.pc = w.pc /\ w'.cp = w.cp /\ (w.pc # "idle" => w'.stale)
  <2> DEFINE stale == w.pc # "idle"
  <2>1. stale \in BOOLEAN
    OBVIOUS
  <2>2. w' = [w EXCEPT !.stale = stale]
    BY <1>1 DEF UserWrites
  <2> HIDE DEF stale
  <2>3. w'.pc = w.pc /\ w'.cp = w.cp /\ w'.stale = stale
    BY <2>1, <2>2 DEF TypeOK, Worker
  <2> QED
    BY <2>3 DEF stale
<1>5. cpSeen' = cpSeen /\ owned' = owned
  BY DEF EditControlPlane, Edit
<1> QED
  BY <1>1, <1>2, <1>3, <1>4, <1>5

\* An Update that is not refused stores the copy's finalizers, and removes the
\* resource only if it is deleted and none is left.
LEMMA UpdateMoves ==
    ASSUME TypeOK, UpdateAndReturn
    PROVE  /\ w.pc = "update" /\ w' = Idle /\ cpSeen' = cpSeen /\ owned' = owned
           /\ \/ Quiet
              \/ /\ ~w.stale /\ cp.alive
                 /\ cp'.fins = w.cp.fins /\ cp'.deleted = cp.deleted
                 /\ cp'.alive <=> ~(cp.deleted /\ w.cp.fins = {})
                 /\ "cp" \in pending'
<1> USE DEF cacheVars
<1>a. /\ cp \in ControlPlaneResource /\ w.cp \in ControlPlaneResource
      /\ w.cp.fins \subseteq Finalizers /\ w.cp.env \in Env
  BY DEF TypeOK, Worker, ControlPlaneResource
<1> DEFINE new == [cp EXCEPT !.fins = w.cp.fins, !.env = w.cp.env]
<1>1. /\ new \in ControlPlaneResource /\ new.fins = w.cp.fins
      /\ new.alive = cp.alive /\ new.deleted = cp.deleted
  BY <1>a DEF ControlPlaneResource
<1>2. \/ UNCHANGED <<cp, pending>>
      \/ ~Refused /\ WriteCP(Stored(new))
  BY DEF UpdateAndReturn
<1> HIDE DEF new
<1>3. /\ Stored(new).fins = new.fins /\ Stored(new).deleted = new.deleted
      /\ Stored(new).alive <=> new.alive /\ ~(new.deleted /\ new.fins = {})
  <2> DEFINE alive == new.alive /\ ~(new.deleted /\ new.fins = {})
  <2>1. alive \in BOOLEAN /\ (alive <=> new.alive /\ ~(new.deleted /\ new.fins = {}))
    OBVIOUS
  <2>2. Stored(new) = [new EXCEPT !.alive = alive]
    BY DEF Stored
  <2> HIDE DEF alive
  <2> QED
    BY <1>1, <2>1, <2>2 DEF ControlPlaneResource
<1>4. w.pc = "update" /\ w' = Idle /\ cpSeen' = cpSeen /\ owned' = owned
  BY WorkerMoves DEF UpdateAndReturn
<1> QED
  BY <1>1, <1>2, <1>3, <1>4 DEF Quiet, Refused, WriteCP

-----------------------------------------------------------------------------
(* The finalizers hold *)

\* FinalizersHold survives the steps that leave the ControlPlane alone.
LEMMA QuietHolds ==
    ASSUME TypeOK, FinalizersHold, Quiet, w' = w \/ w' = Idle \/ GoesOn
    PROVE  FinalizersHold'
<1>a. Idle.pc = "idle" /\ ~Idle.cp.deleted
  BY DEF Idle, NoControlPlane
<1>b. "idle" \notin Provisioning
  BY DEF Provisioning, Kinds
<1>1. CASE w' = w
  BY <1>1 DEF Quiet, FinalizersHold
<1>2. CASE w' = Idle
  BY <1>2, <1>a, <1>b DEF Quiet, FinalizersHold
<1>3. CASE GoesOn
  BY <1>3 DEF Quiet, GoesOn, FinalizersHold, Provisioning, Kinds
<1> QED
  BY <1>1, <1>2, <1>3

\* What the worker holds after the first read of a reconciliation.
LEMMA FirstMoves ==
    ASSUME TypeOK,
           StartCleanup \/ AddFinalizers \/ MarkScheduled \/ StartProvisioning
    PROVE  /\ UNCHANGED <<cp, owned, cpSeen, pending>>
           /\ cpSeen.alive /\ w'.cp.deleted = cpSeen.deleted
           /\ ~w'.stale => "cp" \notin pending
           /\ \/ w'.pc = "delcrb" /\ cpSeen.deleted /\ w'.cp.fins = cpSeen.fins
              \/ w'.pc = "update" /\ ~cpSeen.deleted /\ w'.cp.fins = Finalizers
              \/ w'.pc = "status"
              \/ /\ w'.pc = "dataplane" /\ ~cpSeen.deleted
                 /\ cpSeen.fins = Finalizers /\ w'.cp.fins = Finalizers
<1> USE DEF objectVars, cacheVars
<1>a. cpSeen \in ControlPlaneResource /\ cpSeen.conds \in Conds
  BY DEF TypeOK, ControlPlaneResource
<1>b. {"delcrb", "update", "status", "dataplane"} \subseteq Steps
  BY DEF Steps
<1>c. UNCHANGED <<cp, owned, cpSeen, pending>> /\ cpSeen.alive
  BY DEF StartCleanup, AddFinalizers, MarkScheduled, StartProvisioning, Take
<1>1. CASE StartCleanup
  BY <1>1, <1>a, <1>b, <1>c, HoldMoves DEF StartCleanup
<1>2. CASE AddFinalizers
  <2>1. LET c == [cpSeen EXCEPT !.fins = Finalizers]
        IN  c \in ControlPlaneResource /\ c.deleted = cpSeen.deleted
            /\ c.fins = Finalizers
    BY <1>a DEF ControlPlaneResource
  <2> QED
    BY <1>2, <1>b, <1>c, <2>1, HoldMoves DEF AddFinalizers
<1>3. CASE MarkScheduled
  <2> DEFINE conds == ensureIsMarkedScheduled(InitReady(cpSeen.conds))
             c == [cpSeen EXCEPT !.conds = conds]
  <2>1. conds \in Conds
    BY <1>a, StatusTypes
  <2>2. Hold("status", c)
    BY <1>3 DEF MarkScheduled
  <2> HIDE DEF conds
  <2>3. c \in ControlPlaneResource /\ c.deleted = cpSeen.deleted
    BY <1>a, <2>1 DEF ControlPlaneResource
  <2> HIDE DEF c
  <2> QED
    BY <1>b, <1>c, <2>2, <2>3, HoldMoves
<1>4. CASE StartProvisioning
  <2> DEFINE conds == InitReady(cpSeen.conds)
             c == [cpSeen EXCEPT !.conds = conds]
  <2>1. conds \in Conds
    BY <1>a, StatusTypes
  <2>2. Hold("dataplane", c) /\ ~cpSeen.deleted /\ cpSeen.fins = Finalizers
    BY <1>4 DEF StartProvisioning
  <2> HIDE DEF conds
  <2>3. c \in ControlPlaneResource /\ c.deleted = cpSeen.deleted
        /\ c.fins = cpSeen.fins
    BY <1>a, <2>1 DEF ControlPlaneResource
  <2> HIDE DEF c
  <2> QED
    BY <1>b, <1>c, <2>2, <2>3, HoldMoves
<1> QED
  BY <1>1, <1>2, <1>3, <1>4

\* The steps of Next, by what they do to the ControlPlane and the worker.
LEMMA StepKinds ==
    ASSUME TypeOK, FinalizersHold, Next
    PROVE  \/ /\ Quiet
              /\ w' = w \/ w' = Idle \/ (GoesOn /\ w.pc \notin {"delcrb", "delcr"})
           \/ DeleteBindings \/ DeleteRoles
           \/ StartCleanup \/ AddFinalizers \/ MarkScheduled \/ StartProvisioning
           \/ UpdateAndReturn
           \/ DeliverControlPlane
           \/ Restart
           \/ EditControlPlane
BY StatusMoves, OwnedMoves, OtherMoves, Zenon DEF Next, Reconcile

\* Every step keeps FinalizersHold.
LEMMA FinalizersStep ==
    ASSUME TypeOK, FinalizersHold, Next
    PROVE  FinalizersHold'
<1>a. Idle.pc = "idle" /\ ~Idle.cp.deleted
  BY DEF Idle, NoControlPlane
<1>b. "idle" \notin Provisioning
  BY DEF Provisioning, Kinds
<1>c. Finalizers # {}
  BY DEF Finalizers
<1>1. CASE \/ Quiet /\ (w' = w \/ w' = Idle \/ GoesOn)
           \/ DeleteBindings \/ DeleteRoles
  BY <1>1, CleanupMoves, QuietHolds
<1>2. CASE StartCleanup \/ AddFinalizers \/ MarkScheduled \/ StartProvisioning
  BY <1>2, FirstMoves DEF FinalizersHold, Provisioning, Kinds
<1>3. CASE UpdateAndReturn
  <2>1. CASE Quiet
    BY <1>3, <2>1, UpdateMoves, QuietHolds
  <2>2. CASE ~Quiet
    BY <1>3, <2>2, <1>a, <1>b, <1>c, UpdateMoves DEF FinalizersHold
  <2> QED
    BY <2>1, <2>2
<1>4. CASE DeliverControlPlane
  <2>1. cp' = cp /\ w' = w /\ cpSeen' = cp
    BY <1>4 DEF DeliverControlPlane, objectVars
  <2> QED
    BY <2>1 DEF FinalizersHold
<1>5. CASE Restart
  <2>1. cp' = cp /\ w' = Idle /\ cpSeen' = cp
    BY <1>5 DEF Restart, objectVars
  <2> QED
    BY <2>1, <1>a, <1>b DEF FinalizersHold
<1>6. CASE EditControlPlane
  BY <1>6, <1>b, <1>c, EditMoves DEF FinalizersHold
<1> QED
  BY <1>1, <1>2, <1>3, <1>4, <1>5, <1>6, StepKinds

\* FinalizersHold is an invariant, whatever is cached.
THEOREM FinalizersInvariant == Spec => []FinalizersHold
<1>1. Init => FinalizersHold
  <2>1. ASSUME Init
        PROVE  /\ pending = {"cp"} /\ cpSeen = NoControlPlane /\ w = Idle
    BY <2>1 DEF Init
  <2>2. /\ ~NoControlPlane.alive /\ ~NoControlPlane.deleted
        /\ Idle.pc = "idle" /\ ~Idle.cp.deleted
    BY DEF NoControlPlane, Idle
  <2>3. "idle" \notin Provisioning
    BY DEF Provisioning, Kinds
  <2> QED
    BY <2>1, <2>2, <2>3 DEF FinalizersHold
<1>2. TypeOK /\ FinalizersHold /\ [Next]_vars => FinalizersHold'
  <2>1. ASSUME TypeOK, FinalizersHold, UNCHANGED vars
        PROVE  FinalizersHold'
    BY <2>1 DEF vars, FinalizersHold
  <2> QED
    BY <2>1, FinalizersStep
<1> QED
  BY <1>1, <1>2, TypeCorrect, PTL DEF Spec

\* No ClusterRole or ClusterRoleBinding is created for a ControlPlane that has
\* lost a finalizer or is gone, however stale the caches and the worker's copy.
THEOREM FinalizersProtect == Spec => CreatedUnderFinalizers
<1>1. TypeOK /\ FinalizersHold /\ [Next]_vars
         => [\A k \in Finalizers :
               ~(NamesOf(owned'[k]) \subseteq NamesOf(owned[k]))
                  => cp.alive /\ cp.fins = Finalizers]_vars
  <2> SUFFICES ASSUME TypeOK, FinalizersHold, Next, NEW k \in Finalizers,
                      ~(NamesOf(owned'[k]) \subseteq NamesOf(owned[k]))
               PROVE  cp.alive /\ cp.fins = Finalizers
    OBVIOUS
  <2>1. k \in Kinds
    BY DEF Finalizers, Kinds
  <2>2. ~(owned'[k] \subseteq owned[k])
    BY DEF NamesOf
  <2>3. ASSUME NEW o \in owned[k], NEW new, new.name = o.name,
               owned'[k] = (owned[k] \ {o}) \cup {new}
        PROVE  FALSE
    BY <2>3 DEF NamesOf
  <2>4. w.pc = k
    BY <2>1, <2>2, <2>3, OwnedStep
  <2> QED
    BY <2>1, <2>4 DEF FinalizersHold, Provisioning
<1> QED
  BY <1>1, TypeCorrect, FinalizersInvariant, PTL DEF Spec, CreatedUnderFinalizers

-----------------------------------------------------------------------------
(* No orphaned roles, when the informers keep up *)

\* Every cleanup lists whatever is stored: it starts with a current view, and
\* nothing is created before it ends.
ListsAll ==
    w.pc \in {"delcrb", "delcr"}
        => \A k \in Finalizers : NamesOf(owned[k]) \subseteq NamesOf(List(k))

\* Deleting what such a list names leaves none.
LEMMA DeletesAll ==
    ASSUME TypeOK, NEW k \in Kinds, NamesOf(owned[k]) \subseteq NamesOf(List(k)),
           Delete(k, Listed(k))
    PROVE  owned'[k] = {}
<1>1. Listed(k) = owned[k]
  BY DEF Listed, Named, NamesOf
<1>2. CASE owned[k] = {}
  BY <1>1, <1>2 DEF Delete
<1>3. CASE owned[k] # {}
  BY <1>1, <1>3, WriteOwned DEF Delete
<1> QED
  BY <1>2, <1>3

\* Only StartCleanup enters a cleanup.
LEMMA CleanupEntered ==
    ASSUME TypeOK, FinalizersHold, Next, w'.pc \in {"delcrb", "delcr"}
    PROVE  StartCleanup \/ w.pc \in {"delcrb", "delcr"}
<1>a. Idle.pc = "idle"
  BY DEF Idle
<1>1. CASE Quiet /\ (w' = w \/ w' = Idle \/ (GoesOn /\ w.pc \notin {"delcrb", "delcr"}))
  BY <1>1, <1>a DEF GoesOn
<1>2. CASE DeleteBindings \/ DeleteRoles
  BY <1>2 DEF DeleteBindings, DeleteRoles
<1>3. CASE AddFinalizers
  <2>1. Hold("update", [cpSeen EXCEPT !.fins = Finalizers])
        /\ [cpSeen EXCEPT !.fins = Finalizers] \in ControlPlaneResource
    BY <1>3 DEF AddFinalizers, TypeOK, ControlPlaneResource
  <2> QED
    BY <2>1, HoldMoves DEF Steps
<1>4. CASE MarkScheduled \/ StartProvisioning
  <2>1. w'.pc = "delcrb" /\ cpSeen.deleted
    BY <1>4, FirstMoves
  <2> QED
    BY <1>4, <2>1 DEF MarkScheduled, StartProvisioning
<1>5. CASE UpdateAndReturn
  BY <1>5, <1>a, WorkerMoves DEF UpdateAndReturn
<1>6. CASE DeliverControlPlane \/ Restart
  BY <1>6, <1>a DEF DeliverControlPlane, Restart
<1>7. CASE EditControlPlane
  BY <1>7, EditMoves
<1> QED
  BY <1>1, <1>2, <1>3, <1>4, <1>5, <1>6, <1>7, StepKinds

\* Deliveries bring the cache up to date, and nothing else changes it.
LEMMA CacheMoves ==
    ASSUME TypeOK, Next, w'.pc # "idle", NEW k \in CachedKinds
    PROVE  cache'[k] = cache[k] \/ cache'[k] = owned'[k]
<1>a. k \in Kinds
  BY ConstantsAssumption
<1>1. ASSUME NEW j \in Kinds, DeliverOwned(j)
      PROVE  cache'[k] = cache[k] \/ cache'[k] = owned'[k]
  <2>1. owned' = owned
        /\ cache' = IF j \in CachedKinds THEN [cache EXCEPT ![j] = owned[j]] ELSE cache
    BY <1>1 DEF DeliverOwned, objectVars
  <2>2. cache \in [Kinds -> SUBSET Object]
    BY DEF TypeOK
  <2> QED
    BY <1>a, <2>1, <2>2
<1>2. CASE DeliverControlPlane
  BY <1>2 DEF DeliverControlPlane
<1>3. ~Restart
  BY DEF Restart, Idle
<1> QED
  BY <1>1, <1>2, <1>3, StepWrites

LEMMA ListsStep ==
    ASSUME TypeOK, FinalizersHold, CacheCurrent, ListsAll, Next, KeepsUp
    PROVE  ListsAll'
<1> SUFFICES ASSUME w'.pc \in {"delcrb", "delcr"}, NEW k \in Finalizers
             PROVE  NamesOf(owned'[k]) \subseteq NamesOf(List(k)')
  BY DEF ListsAll
<1>a. k \in Kinds /\ List(k)' = IF k \in CachedKinds THEN cache'[k] ELSE owned'[k]
  BY DEF Finalizers, Kinds, List
<1>1. CASE StartCleanup
  <2>1. UNCHANGED <<owned, cache>>
    BY <1>1 DEF StartCleanup, Take, objectVars, cacheVars
  <2>2. k \in CachedKinds => NamesOf(owned[k]) \subseteq NamesOf(cache[k])
    BY <1>1 DEF KeepsUp, CacheCurrent
  <2> QED
    BY <1>a, <2>1, <2>2
<1>2. CASE w.pc \in {"delcrb", "delcr"}
  <2>1. w.pc # k
    BY <1>2 DEF Finalizers
  <2>2. ASSUME NEW o \in owned[k], NEW new, new.name = o.name,
               owned'[k] = (owned[k] \ {o}) \cup {new}
        PROVE  NamesOf(owned'[k]) \subseteq NamesOf(owned[k])
    BY <2>2 DEF NamesOf
  <2>3. owned'[k] \subseteq owned[k] => NamesOf(owned'[k]) \subseteq NamesOf(owned[k])
    BY DEF NamesOf
  <2>4. NamesOf(owned'[k]) \subseteq NamesOf(owned[k])
    BY <1>a, <2>1, <2>2, <2>3, OwnedStep
  <2>5. CASE k \in CachedKinds
    <3>1. NamesOf(owned[k]) \subseteq NamesOf(cache[k])
      BY <1>2, <2>5 DEF ListsAll, List
    <3>2. cache'[k] = cache[k] \/ cache'[k] = owned'[k]
      BY <2>5, CacheMoves
    <3> QED
      BY <1>a, <2>4, <2>5, <3>1, <3>2
  <2>6. CASE k \notin CachedKinds
    BY <1>a, <2>6
  <2> QED
    BY <2>5, <2>6
<1> QED
  BY <1>1, <1>2, CleanupEntered

\* Roles and bindings appear only under both finalizers.
LEMMA RolesAppear ==
    ASSUME TypeOK, FinalizersHold, Next, NEW k \in Finalizers,
           owned[k] = {}, owned'[k] # {}
    PROVE  w.pc = k
<1>1. k \in Kinds
  BY DEF Finalizers, Kinds
<1> QED
  BY <1>1, OwnedStep

\* The invariant that shows RolesGuarded.
Guarded == FinalizersHold /\ ListsAll /\ CleanupComplete /\ RolesGuarded

\* The cleanup's steps keep it.
LEMMA GuardedCleanup ==
    ASSUME TypeOK, Guarded, Next, DeleteBindings \/ DeleteRoles
    PROVE  CleanupComplete' /\ RolesGuarded'
<1> USE DEF Guarded
<1>1. Quiet /\ w.pc \in {"delcrb", "delcr"} /\ w.cp.deleted
  BY CleanupMoves DEF DeleteBindings, DeleteRoles, FinalizersHold
<1>2. \A k \in Finalizers : owned[k] = {} => owned'[k] = {}
  BY <1>1, RolesAppear DEF Finalizers
<1>3. RolesGuarded'
  BY <1>1, <1>2 DEF RolesGuarded, Quiet
<1>4. CASE w'.pc \in {"idle", "delcr"}
  <2>1. w'.pc = "delcr" => w'.cp.fins = w.cp.fins /\ w'.stale = w.stale
                           /\ w'.cp.deleted = w.cp.deleted
    <3>1. Idle.pc = "idle"
      BY DEF Idle
    <3> QED
      BY <3>1, CleanupMoves DEF GoesOn
  <2>2. (cpSeen.deleted => cp.fins \subseteq cpSeen.fins)'
    BY <1>1 DEF CleanupComplete, Quiet
  <2>3. w'.pc = "delcr" => cp'.fins \subseteq w'.cp.fins
    BY <1>1, <2>1 DEF CleanupComplete, Quiet
  <2>4. w'.pc = "delcr" /\ ~w'.stale => w'.cp.fins \subseteq cp'.fins
    BY <1>1, <2>1 DEF CleanupComplete, Quiet
  <2>5. CleanupComplete'
    BY <1>4, <2>2, <2>3, <2>4 DEF CleanupComplete
  <2> QED
    BY <1>3, <2>5
<1>5. CASE w'.pc = "update"
  <2>0. GoesOn
    <3>1. Idle.pc = "idle"
      BY DEF Idle
    <3> QED
      BY <1>5, <3>1, CleanupMoves
  <2>1. PICK k \in Finalizers : /\ w'.cp.fins = w.cp.fins \ {k}
                                /\ Delete(k, Listed(k))
    BY <1>5, CleanupMoves
  <2>2. k \in Kinds /\ NamesOf(owned[k]) \subseteq NamesOf(List(k))
    BY <1>1 DEF Finalizers, Kinds, ListsAll
  <2>3. owned'[k] = {}
    BY <2>1, <2>2, DeletesAll
  <2>4. ASSUME NEW j \in Finalizers, j \notin w'.cp.fins
        PROVE  owned'[j] = {}
    <3>1. CASE j = k
      BY <2>3, <3>1
    <3>2. CASE j # k
      <4>1. j \notin cp.fins
        BY <1>1, <2>1, <2>4, <3>2 DEF CleanupComplete
      <4> QED
        BY <4>1, <1>2 DEF RolesGuarded
    <3> QED
      BY <3>1, <3>2
  <2>5. (cpSeen.deleted => cp.fins \subseteq cpSeen.fins)'
    BY <1>1 DEF CleanupComplete, Quiet
  <2>6. ~w'.stale => w'.cp.fins \subseteq cp'.fins
    BY <1>1, <2>0, <2>1 DEF CleanupComplete, Quiet, GoesOn
  <2>7. CleanupComplete'
    BY <1>5, <2>4, <2>5, <2>6 DEF CleanupComplete
  <2> QED
    BY <1>3, <2>7
<1> QED
  BY <1>3, <1>4, <1>5, CleanupMoves

\* The Update that stores the copy's finalizers keeps it.
LEMMA GuardedUpdate ==
    ASSUME TypeOK, Guarded, UpdateAndReturn
    PROVE  CleanupComplete' /\ RolesGuarded'
<1> USE DEF Guarded
<1>a. Idle.pc = "idle"
  BY DEF Idle
<1>1. CASE Quiet
  BY <1>1, <1>a, UpdateMoves DEF Quiet, CleanupComplete, RolesGuarded
<1>2. CASE ~Quiet
  <2>1. /\ ~w.stale /\ cp.alive /\ w.pc = "update" /\ w'.pc = "idle"
        /\ cp'.fins = w.cp.fins /\ cp'.deleted = cp.deleted
        /\ ~(cp.deleted /\ w.cp.fins = {}) => cp'.alive
        /\ owned' = owned /\ cpSeen' = cpSeen
    BY <1>2, <1>a, UpdateMoves
  <2>2. \A k \in Finalizers : k \notin w.cp.fins => owned[k] = {}
    BY <2>1 DEF CleanupComplete
  <2>3. RolesGuarded'
    BY <2>1, <2>2 DEF RolesGuarded
  <2>4. cpSeen.deleted => w.cp.deleted
    BY <2>1 DEF FinalizersHold
  <2>5. w.cp.deleted => w.cp.fins \subseteq cp.fins
    BY <2>1 DEF CleanupComplete
  <2> QED
    BY <2>1, <2>3, <2>4, <2>5 DEF CleanupComplete
<1> QED
  BY <1>1, <1>2

\* Steps that leave the ControlPlane alone, but for the cleanup's, keep it.
LEMMA GuardedQuiet ==
    ASSUME TypeOK, Guarded, Next, Quiet, ~(DeleteBindings \/ DeleteRoles),
           w' = w \/ w' = Idle \/ (GoesOn /\ w.pc \notin {"delcrb", "delcr"})
    PROVE  CleanupComplete' /\ RolesGuarded'
<1> USE DEF Guarded
<1>a. Idle.pc = "idle"
  BY DEF Idle
<1>b. Finalizers \subseteq Provisioning
  BY DEF Finalizers, Provisioning, Kinds
<1>1. RolesGuarded'
  <2> SUFFICES ASSUME NEW k \in Finalizers, owned'[k] # {}
               PROVE  cp'.alive /\ k \in cp'.fins
    BY DEF RolesGuarded
  <2>1. CASE owned[k] # {}
    BY <2>1 DEF RolesGuarded, Quiet
  <2>2. CASE owned[k] = {}
    BY <2>2, <1>b, RolesAppear DEF FinalizersHold, Quiet
  <2> QED
    BY <2>1, <2>2
<1>2. CASE w' = w
  <2>1. w.pc = "update" => \A k \in Finalizers : owned[k] = {} => owned'[k] = {}
    BY RolesAppear DEF Finalizers
  <2> QED
    BY <1>1, <1>2, <2>1 DEF CleanupComplete, Quiet
<1>3. CASE w' = Idle
  BY <1>1, <1>3, <1>a DEF CleanupComplete, Quiet
<1>4. CASE GoesOn /\ w.pc \notin {"delcrb", "delcr"}
  <2>1. w'.pc = "update" => w'.cp.fins = Finalizers /\ ~w'.cp.deleted
    BY <1>4 DEF GoesOn, FinalizersHold
  <2>2. w'.pc \notin {"delcrb", "delcr"}
    BY <1>4 DEF GoesOn
  <2> QED
    BY <1>1, <1>4, <2>1, <2>2 DEF CleanupComplete, Quiet
<1> QED
  BY <1>2, <1>3, <1>4

\* Every step keeps it.
LEMMA GuardedStep ==
    ASSUME TypeOK, CacheCurrent, Guarded, Next, KeepsUp
    PROVE  Guarded'
<1> USE DEF Guarded
<1>a. Idle.pc = "idle"
  BY DEF Idle
<1>0. FinalizersHold' /\ ListsAll'
  BY FinalizersStep, ListsStep
<1>1. CASE DeleteBindings \/ DeleteRoles
  BY <1>0, <1>1, GuardedCleanup
<1>2. CASE UpdateAndReturn
  BY <1>0, <1>2, GuardedUpdate
<1>3. CASE /\ Quiet /\ ~(DeleteBindings \/ DeleteRoles)
           /\ w' = w \/ w' = Idle \/ (GoesOn /\ w.pc \notin {"delcrb", "delcr"})
  BY <1>0, <1>3, GuardedQuiet
<1>4. CASE StartCleanup \/ AddFinalizers \/ MarkScheduled \/ StartProvisioning
  BY <1>0, <1>4, FirstMoves DEF FinalizersHold, CleanupComplete, RolesGuarded
<1>5. CASE DeliverControlPlane
  <2>1. cp' = cp /\ w' = w /\ cpSeen' = cp /\ owned' = owned
    BY <1>5 DEF DeliverControlPlane, objectVars
  <2> QED
    BY <1>0, <2>1 DEF CleanupComplete, RolesGuarded
<1>6. CASE Restart
  <2>1. cp' = cp /\ w' = Idle /\ cpSeen' = cp /\ owned' = owned
    BY <1>6 DEF Restart, objectVars
  <2> QED
    BY <1>0, <1>a, <2>1 DEF CleanupComplete, RolesGuarded
<1>7. CASE EditControlPlane
  BY <1>0, <1>7, EditMoves DEF CleanupComplete, RolesGuarded
<1> QED
  BY <1>1, <1>2, <1>3, <1>4, <1>5, <1>6, <1>7, StepKinds

\* So it is an invariant of the controller whose informers keep up.
LEMMA GuardedInvariant == TimelySpec => []Guarded
<1>1. Init => ListsAll /\ RolesGuarded /\ CleanupComplete
  <2>1. ASSUME Init
        PROVE  /\ owned = [k \in Kinds |-> {}] /\ cpSeen = NoControlPlane /\ w = Idle
    BY <2>1 DEF Init
  <2>2. ~NoControlPlane.deleted /\ Idle.pc = "idle"
    BY DEF NoControlPlane, Idle
  <2> QED
    BY <2>1, <2>2 DEF ListsAll, RolesGuarded, CleanupComplete, Finalizers, Kinds
<1>2. /\ TypeOK /\ FinalizersHold /\ CacheCurrent
      /\ ListsAll /\ RolesGuarded /\ CleanupComplete /\ [Next /\ KeepsUp]_vars
      => ListsAll' /\ RolesGuarded' /\ CleanupComplete'
  <2>1. ASSUME ListsAll, RolesGuarded, CleanupComplete, UNCHANGED vars
        PROVE  ListsAll' /\ RolesGuarded' /\ CleanupComplete'
    BY <2>1 DEF vars, ListsAll, List, RolesGuarded, CleanupComplete
  <2> QED
    BY <2>1, GuardedStep DEF Guarded
<1>3. Init /\ [][Next /\ KeepsUp]_vars => Spec
  BY PTL DEF Spec
<1>4. TimelySpec => [](TypeOK /\ FinalizersHold /\ CacheCurrent)
  BY <1>3, TypeCorrect, FinalizersInvariant, CacheInvariant, PTL DEF TimelySpec
<1> QED
  BY <1>1, <1>2, <1>4, PTL DEF TimelySpec, Guarded

\* If every cleanup finds the informers up to date, no role or binding outlives the
\* ControlPlane or the finalizer that cleans it up, cached or not, whatever is
\* refused, lost, edited or restarted: the race between a deletion and the event
\* of a new role is the only way to an orphan.
THEOREM NoOrphanedRoles == TimelySpec => []RolesGuarded
<1>1. Guarded => RolesGuarded
  BY DEF Guarded
<1> QED
  BY <1>1, GuardedInvariant, PTL

\* Then, too, the Update that drops a finalizer is only ever made when nothing of
\* its kind is left, also after a user's edit between the cleanup and the Update.
THEOREM CleanupIsComplete == TimelySpec => []CleanupComplete
<1>1. Guarded => CleanupComplete
  BY DEF Guarded
<1> QED
  BY <1>1, GuardedInvariant, PTL

-----------------------------------------------------------------------------
(* Bindings go before roles, whatever is cached *)

\* The copy that a cleanup works on has every finalizer that is still stored, and
\* the cleanup gets to the roles only without the finalizer for the bindings.
CopyHasFinalizers ==
    /\ cpSeen.deleted => cp.fins \subseteq cpSeen.fins
    /\ w.pc \in {"delcrb", "delcr"} => cp.fins \subseteq w.cp.fins
    /\ w.pc \in {"delcrb", "delcr", "update"} /\ ~w.stale /\ w.cp.deleted
          => w.cp.fins \subseteq cp.fins
    /\ w.pc = "delcr" => "crb" \notin w.cp.fins

\* The cleanup's steps keep it.
LEMMA CopyCleanup ==
    ASSUME TypeOK, FinalizersHold, CopyHasFinalizers, DeleteBindings \/ DeleteRoles
    PROVE  CopyHasFinalizers'
<1>1. Quiet /\ w.pc \in {"delcrb", "delcr"} /\ w.cp.deleted
  BY CleanupMoves DEF DeleteBindings, DeleteRoles, FinalizersHold
<1>2. Idle.pc = "idle"
  BY DEF Idle
<1>3. w'.pc # "idle" => w'.stale = w.stale /\ w'.cp.fins \subseteq w.cp.fins
  <2>1. w'.pc # "idle" => GoesOn
    BY <1>2, CleanupMoves
  <2> QED
    BY <2>1, CleanupMoves DEF GoesOn
<1>4. w'.pc = "delcr" => w'.cp.fins = w.cp.fins /\ "crb" \notin w.cp.fins
  <2> SUFFICES ASSUME w'.pc = "delcr", "crb" \in w.cp.fins
               PROVE  FALSE
    BY CleanupMoves
  <2>1. \/ Goto("update", WithoutFinalizer("crb"))
        \/ Goto("update", WithoutFinalizer("cr"))
        \/ Return(FALSE)
    BY DEF DeleteBindings, DeleteRoles
  <2>2. WithoutFinalizer("crb") \in ControlPlaneResource
        /\ WithoutFinalizer("cr") \in ControlPlaneResource
    BY DEF TypeOK, Worker, ControlPlaneResource, WithoutFinalizer
  <2>3. "update" \in Steps
    BY DEF Steps
  <2>4. w'.pc = "update" \/ w' = Idle
    BY <2>1, <2>2, <2>3, WorkerMoves
  <2> QED
    BY <1>2, <2>4
<1>5. w'.pc \in {"idle", "update", "delcr"}
  BY CleanupMoves
<1> QED
  BY <1>1, <1>3, <1>4, <1>5 DEF CopyHasFinalizers, Quiet

\* Every step keeps it.
LEMMA CopyStep ==
    ASSUME TypeOK, FinalizersHold, CopyHasFinalizers, Next
    PROVE  CopyHasFinalizers'
<1>a. Idle.pc = "idle"
  BY DEF Idle
<1>1. CASE DeleteBindings \/ DeleteRoles
  BY <1>1, CopyCleanup
<1>2. CASE UpdateAndReturn
  <2>1. CASE Quiet
    BY <1>2, <1>a, <2>1, UpdateMoves DEF Quiet, CopyHasFinalizers
  <2>2. CASE ~Quiet
    <3>1. /\ ~w.stale /\ w.pc = "update" /\ w'.pc = "idle"
          /\ cp'.fins = w.cp.fins /\ cpSeen' = cpSeen
      BY <1>2, <1>a, <2>2, UpdateMoves
    <3>2. cpSeen.deleted => w.cp.deleted
      BY <3>1 DEF FinalizersHold
    <3> QED
      BY <3>1, <3>2 DEF CopyHasFinalizers
  <2> QED
    BY <2>1, <2>2
<1>3. CASE Quiet /\ (w' = w \/ w' = Idle)
  BY <1>3, <1>a DEF CopyHasFinalizers, Quiet
<1>4. CASE Quiet /\ GoesOn /\ w.pc \notin {"delcrb", "delcr"}
  <2>1. w'.pc = "update" => ~w'.cp.deleted
    BY <1>4 DEF GoesOn, FinalizersHold
  <2>2. w'.pc \notin {"delcrb", "delcr"}
    BY <1>4 DEF GoesOn
  <2> QED
    BY <1>4, <2>1, <2>2 DEF CopyHasFinalizers, Quiet
<1>5. CASE StartCleanup \/ AddFinalizers \/ MarkScheduled \/ StartProvisioning
  BY <1>5, FirstMoves DEF FinalizersHold, CopyHasFinalizers
<1>6. CASE DeliverControlPlane
  <2>1. cp' = cp /\ w' = w /\ cpSeen' = cp
    BY <1>6 DEF DeliverControlPlane, objectVars
  <2> QED
    BY <2>1 DEF CopyHasFinalizers
<1>7. CASE Restart
  <2>1. cp' = cp /\ w' = Idle /\ cpSeen' = cp
    BY <1>7 DEF Restart, objectVars
  <2> QED
    BY <1>a, <2>1 DEF CopyHasFinalizers
<1>8. CASE EditControlPlane
  BY <1>8, EditMoves DEF CopyHasFinalizers
<1> QED
  BY <1>1, <1>2, <1>3, <1>4, <1>5, <1>6, <1>7, <1>8, StepKinds

\* Roles are only deleted after the removal of the finalizer for the bindings has
\* been stored, however old the copy that the cleanup works on; roles and
\* bindings may be cached or not.
THEOREM BindingsGoFirst == Spec => BindingsFirst
<1>1. Init => CopyHasFinalizers
  <2>1. ~NoControlPlane.deleted /\ Idle.pc = "idle"
    BY DEF NoControlPlane, Idle
  <2> QED
    BY <2>1 DEF Init, CopyHasFinalizers
<1>2. TypeOK /\ FinalizersHold /\ CopyHasFinalizers /\ [Next]_vars => CopyHasFinalizers'
  <2>1. ASSUME CopyHasFinalizers, UNCHANGED vars
        PROVE  CopyHasFinalizers'
    BY <2>1 DEF vars, CopyHasFinalizers
  <2> QED
    BY <2>1, CopyStep
<1>3. CopyHasFinalizers /\ [Next]_vars
         => [\A o \in owned["cr"] :
               DeleteRoles /\ o \notin owned'["cr"] => "crb" \notin cp.fins]_vars
  BY DEF CopyHasFinalizers, DeleteRoles
<1> QED
  BY <1>1, <1>2, <1>3, TypeCorrect, FinalizersInvariant, PTL DEF Spec, BindingsFirst
=============================================================================
