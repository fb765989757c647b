--------------------- MODULE ControlPlaneLifecycleProofs ---------------------
(***************************************************************************)
(* ControlPlane implements RoleLifecycle if its informers keep up with     *)
(* deletions: every step of the controller, of a failure or of a user is a *)
(* step of the five-phase life cycle or a stutter.                         *)
(***************************************************************************)
EXTENDS ControlPlaneFinalizerProofs, ControlPlaneLifecycle

-----------------------------------------------------------------------------
(* The phases *)

\* The finalizers of the stored ControlPlane are none, both, or the roles' one
\* after a deletion; and a cleanup that is about to store its copy takes exactly
\* one away, the bindings' before the roles'.
InPhase ==
    /\ \/ cp.fins = {} /\ (cp.alive => ~cp.deleted)
       \/ cp.fins = Finalizers /\ cp.alive
       \/ cp.fins = {"cr"} /\ cp.alive /\ cp.deleted
    /\ w.pc = "delcr" => "crb" \notin w.cp.fins
    /\ w.pc = "update" /\ ~w.stale /\ w.cp.deleted =>
          \/ cp.fins = Finalizers /\ w.cp.fins = {"cr"}
          \/ cp.fins = {"cr"} /\ w.cp.fins = {}

\* The cleanup's steps keep it: a copy that is current has the stored finalizers.
LEMMA PhaseCleanup ==
    ASSUME TypeOK, Guarded, InPhase, DeleteBindings \/ DeleteRoles
    PROVE  InPhase'
<1> USE DEF Guarded, objectVars, cacheVars
<1>a. Idle.pc = "idle"
  BY DEF Idle
<1>b. {"update", "delcr"} \subseteq Steps
  BY DEF Steps
<1>c. w.cp \in ControlPlaneResource /\ w.pc \in {"delcrb", "delcr"}
  BY DEF TypeOK, Worker, DeleteBindings, DeleteRoles
<1>d. ASSUME NEW k \in Finalizers
      PROVE  /\ WithoutFinalizer(k) \in ControlPlaneResource
             /\ WithoutFinalizer(k).fins = w.cp.fins \ {k}
  BY <1>c DEF ControlPlaneResource, WithoutFinalizer
<1>1. Quiet
  BY CleanupMoves
<1>2. w.stale \/ w.cp.fins = cp.fins
  BY <1>c DEF CleanupComplete, FinalizersHold
<1>3. CASE DeleteBindings
  <2>1. \/ "crb" \in w.cp.fins /\ Goto("update", WithoutFinalizer("crb"))
        \/ "crb" \notin w.cp.fins /\ Goto("delcr", w.cp)
    BY <1>3 DEF DeleteBindings
  <2>2. \/ /\ w'.pc = "update" /\ w'.stale = w.stale /\ "crb" \in w.cp.fins
           /\ w'.cp.fins = w.cp.fins \ {"crb"}
        \/ w'.pc = "delcr" /\ "crb" \notin w.cp.fins /\ w'.cp = w.cp
    BY <1>b, <1>c, <1>d, <2>1, WorkerMoves DEF Finalizers
  <2> QED
    BY <1>1, <1>2, <2>2 DEF InPhase, Quiet, Finalizers
<1>4. CASE DeleteRoles
  <2>1. /\ w.pc = "delcr"
        /\ \/ "cr" \in w.cp.fins /\ Goto("update", WithoutFinalizer("cr"))
           \/ Return(FALSE)
    BY <1>4 DEF DeleteRoles
  <2>2. \/ /\ w'.pc = "update" /\ w'.stale = w.stale /\ "cr" \in w.cp.fins
           /\ w'.cp.fins = w.cp.fins \ {"cr"}
        \/ w' = Idle
    BY <1>b, <1>c, <1>d, <2>1, WorkerMoves DEF Finalizers
  <2> QED
    BY <1>1, <1>2, <1>a, <2>1, <2>2 DEF InPhase, Quiet, Finalizers
<1> QED
  BY <1>3, <1>4

\* Every step keeps it.
LEMMA PhaseStep ==
    ASSUME TypeOK, Guarded, InPhase, Next
    PROVE  InPhase'
<1> USE DEF Guarded
<1>a. Idle.pc = "idle"
  BY DEF Idle
<1>1. CASE DeleteBindings \/ DeleteRoles
  BY <1>1, PhaseCleanup
<1>2. CASE /\ Quiet
           /\ w' = w \/ w' = Idle \/ (GoesOn /\ w.pc \notin {"delcrb", "delcr"})
  <2>1. CASE w' = w
    BY <1>2, <2>1 DEF InPhase, Quiet
  <2>2. CASE w' = Idle
    BY <1>2, <2>2, <1>a DEF InPhase, Quiet
  <2>3. CASE GoesOn /\ w.pc \notin {"delcrb", "delcr"}
    <3>1. w'.pc # "delcr" /\ (w'.pc = "update" => ~w'.cp.deleted)
      BY <2>3 DEF GoesOn, FinalizersHold
    <3> QED
      BY <1>2, <3>1 DEF InPhase, Quiet
  <2> QED
    BY <1>2, <2>1, <2>2, <2>3
<1>3. CASE StartCleanup \/ AddFinalizers \/ MarkScheduled \/ StartProvisioning
  BY <1>3, FirstMoves DEF InPhase
<1>4. CASE UpdateAndReturn
  <2>1. CASE Quiet
    BY <1>4, <2>1, <1>a, UpdateMoves DEF InPhase, Quiet
  <2>2. CASE ~Quiet
    <3>1. /\ ~w.stale /\ cp.alive /\ w.pc = "update" /\ w'.pc = "idle"
          /\ cp'.fins = w.cp.fins /\ cp'.deleted = cp.deleted
          /\ cp'.alive <=> ~(cp.deleted /\ w.cp.fins = {})
      BY <1>4, <2>2, <1>a, UpdateMoves
    <3>2. w.cp.deleted = cp.deleted /\ (~w.cp.deleted => w.cp.fins = Finalizers)
      BY <3>1 DEF FinalizersHold
    <3> QED
      BY <3>1, <3>2 DEF InPhase, Finalizers
  <2> QED
    BY <2>1, <2>2
<1>5. CASE DeliverControlPlane
  BY <1>5 DEF DeliverControlPlane, objectVars, InPhase
<1>6. CASE Restart
  BY <1>6, <1>a DEF Restart, objectVars, InPhase
<1>7. CASE EditControlPlane
  BY <1>7, EditMoves DEF InPhase, Finalizers
<1> QED
  BY <1>1, <1>2, <1>3, <1>4, <1>5, <1>6, <1>7, StepKinds

-----------------------------------------------------------------------------
(* The existing kinds *)

\* A step writes the objects of one kind at most.
LEMMA OneKind ==
    ASSUME TypeOK, Next
    PROVE  \E j \in Kinds : \A k \in Kinds \ {j} : owned'[k] = owned[k]
<1>1. CASE owned' = owned
  BY <1>1 DEF Kinds
<1>2. ASSUME NEW j \in Kinds, NEW S, Write(j, S)
      PROVE  \E i \in Kinds : \A k \in Kinds \ {i} : owned'[k] = owned[k]
  BY <1>2, WriteOwned
<1>3. DeliverControlPlane \/ (\E j \in Kinds : DeliverOwned(j)) \/ Restart
         => owned' = owned
  BY DEF DeliverControlPlane, DeliverOwned, Restart, objectVars
<1> QED
  BY <1>1, <1>2, <1>3, StepWrites

\* So at most one kind comes into being or vanishes, and it comes into being only
\* while both finalizers are stored.
LEMMA ExistingStep ==
    ASSUME TypeOK, FinalizersHold, Next
    PROVE  \/ Existing' = Existing
           \/ \E k \in Existing : Existing' = Existing \ {k}
           \/ /\ cp.alive /\ cp.fins = Finalizers
              /\ \E k \in Finalizers : Existing' = Existing \cup {k}
<1>1. PICK j \in Kinds : \A k \in Kinds \ {j} : owned'[k] = owned[k]
  BY OneKind
<1>2. \A k \in Finalizers : k # j => (k \in Existing' <=> k \in Existing)
  BY <1>1 DEF Existing, Finalizers, Kinds
<1>3. Existing \subseteq Finalizers /\ Existing' \subseteq Finalizers
  BY DEF Existing
<1>4. CASE j \in Existing' <=> j \in Existing
  BY <1>2, <1>3, <1>4
<1>5. CASE j \in Existing /\ j \notin Existing'
  <2>1. Existing' = Existing \ {j}
    BY <1>2, <1>3, <1>5
  <2> QED
    BY <1>5, <2>1
<1>6. CASE j \notin Existing /\ j \in Existing'
  <2>1. j \in Finalizers /\ Existing' = Existing \cup {j}
    BY <1>2, <1>3, <1>6
  <2>2. w.pc = j
    BY <1>6, <2>1, RolesAppear DEF Existing
  <2>3. cp.alive /\ cp.fins = Finalizers
    BY <2>1, <2>2 DEF FinalizersHold, Provisioning, Finalizers, Kinds
  <2> QED
    BY <2>1, <2>3
<1> QED
  BY <1>4, <1>5, <1>6

-----------------------------------------------------------------------------
(* The refinement *)

\* The phase, read off the finalizers that InPhase allows.
LEMMA PhaseOf ==
    ASSUME TypeOK
    PROVE  /\ ~cp.alive => Phase = "gone"
           /\ cp.alive /\ cp.fins = Finalizers /\ ~cp.deleted => Phase = "guarded"
           /\ cp.alive /\ cp.fins = Finalizers /\ cp.deleted => Phase = "deleting"
           /\ cp.alive /\ cp.fins # Finalizers /\ cp.deleted => Phase = "unbound"
           /\ cp.alive /\ cp.fins # Finalizers /\ ~cp.deleted => Phase = "new"
BY DEF Phase

LEMMA LifecycleStep ==
    ASSUME TypeOK, TypeOK', Guarded, Guarded', InPhase, Next
    PROVE  Lifecycle!Next \/ UNCHANGED Lifecycle!vars
<1> USE DEF Guarded
<1>a. Finalizers # {} /\ Finalizers # {"cr"}
  BY DEF Finalizers
<1>b. /\ ~cp'.alive => Phase' = "gone"
      /\ cp'.alive /\ cp'.fins = Finalizers /\ ~cp'.deleted => Phase' = "guarded"
      /\ cp'.alive /\ cp'.fins = Finalizers /\ cp'.deleted => Phase' = "deleting"
      /\ cp'.alive /\ cp'.fins # Finalizers /\ cp'.deleted => Phase' = "unbound"
      /\ cp'.alive /\ cp'.fins # Finalizers /\ ~cp'.deleted => Phase' = "new"
  BY DEF Phase
<1>c. RolesGuarded'
  OBVIOUS
<1>1. CASE cp'.alive = cp.alive /\ cp'.deleted = cp.deleted /\ cp'.fins = cp.fins
  <2>1. Phase' = Phase
    BY <1>1 DEF Phase
  <2>2. CASE Existing' = Existing
    BY <2>1, <2>2 DEF Lifecycle!vars
  <2>3. ASSUME NEW k \in Existing, Existing' = Existing \ {k}
        PROVE  Lifecycle!Next
    BY <2>1, <2>3 DEF Lifecycle!Next, Lifecycle!Remove, Lifecycle!RoleKinds, Existing,
                      Finalizers
  <2>4. ASSUME NEW k \in Finalizers, Existing' = Existing \cup {k},
               cp.alive, cp.fins = Finalizers
        PROVE  Lifecycle!Next
    <3>1. Phase \in {"guarded", "deleting"}
      BY <2>4, PhaseOf
    <3> QED
      BY <2>1, <2>4, <3>1 DEF Lifecycle!Next, Lifecycle!Create, Lifecycle!RoleKinds,
                              Finalizers
  <2> QED
    BY <2>2, <2>3, <2>4, ExistingStep
<1>2. CASE UpdateAndReturn /\ ~Quiet
  <2>1. /\ ~w.stale /\ cp.alive /\ w.pc = "update"
        /\ cp'.fins = w.cp.fins /\ cp'.deleted = cp.deleted
        /\ cp'.alive <=> ~(cp.deleted /\ w.cp.fins = {})
        /\ owned' = owned
    BY <1>2, UpdateMoves
  <2>2. Existing' = Existing /\ w.cp.deleted = cp.deleted
    BY <2>1 DEF Existing, FinalizersHold
  <2>3. CASE ~cp.deleted
    <3>1. cp'.fins = Finalizers /\ cp'.alive /\ Phase' = "guarded"
      BY <1>b, <2>1, <2>2, <2>3 DEF FinalizersHold
    <3>2. Phase = "new" \/ Phase = "guarded"
      BY <2>1, <2>3, PhaseOf
    <3> QED
      BY <2>2, <3>1, <3>2 DEF Lifecycle!vars, Lifecycle!Next, Lifecycle!Guard
  <2>4. CASE cp.deleted /\ cp.fins = Finalizers /\ w.cp.fins = {"cr"}
    <3>1. Phase = "deleting" /\ Phase' = "unbound"
      BY <1>a, <1>b, <2>1, <2>4, PhaseOf
    <3>2. "crb" \notin Existing
      BY <2>1, <2>4 DEF CleanupComplete, Existing, Finalizers
    <3> QED
      BY <2>2, <3>1, <3>2 DEF Lifecycle!Next, Lifecycle!Unbind
  <2>5. CASE cp.deleted /\ cp.fins = {"cr"} /\ w.cp.fins = {}
    <3>1. Phase = "unbound" /\ Phase' = "gone"
      BY <1>a, <1>b, <2>1, <2>5, PhaseOf
    <3>2. Existing = {}
      BY <2>1, <2>5 DEF CleanupComplete, Existing
    <3> QED
      BY <2>2, <3>1, <3>2 DEF Lifecycle!Next, Lifecycle!Finish
  <2> QED
    BY <2>1, <2>2, <2>3, <2>4, <2>5 DEF InPhase
<1>3. CASE EditControlPlane
  <2>1. /\ cp'.fins = cp.fins /\ cp.alive /\ (cp.deleted => cp'.deleted)
        /\ cp'.alive <=> ~(cp'.deleted /\ cp'.fins = {})
        /\ owned' = owned
    BY <1>3, EditMoves
  <2>2. Existing' = Existing
    BY <2>1 DEF Existing
  <2>3. CASE cp'.deleted <=> cp.deleted
    <3>1. cp'.alive
      BY <1>a, <2>1, <2>3 DEF InPhase
    <3>2. Phase' = Phase
      BY <1>b, <2>1, <2>3, <3>1, PhaseOf
    <3> QED
      BY <2>2, <3>2 DEF Lifecycle!vars
  <2>4. CASE cp'.deleted /\ ~cp.deleted /\ cp.fins = Finalizers
    <3>1. Phase = "guarded" /\ Phase' = "deleting"
      BY <1>a, <1>b, <2>1, <2>4, PhaseOf
    <3> QED
      BY <2>2, <3>1 DEF Lifecycle!Next, Lifecycle!Delete
  <2>5. CASE cp'.deleted /\ ~cp.deleted /\ cp.fins = {}
    <3>1. Phase = "new" /\ Phase' = "gone"
      BY <1>a, <1>b, <2>1, <2>5, PhaseOf
    <3> QED
      BY <2>2, <3>1 DEF Lifecycle!Next, Lifecycle!Abandon
  <2> QED
    BY <2>1, <2>3, <2>4, <2>5 DEF InPhase
<1>4. \/ Quiet \/ UpdateAndReturn \/ EditControlPlane
      \/ cp'.alive = cp.alive /\ cp'.deleted = cp.deleted /\ cp'.fins = cp.fins
  <2>1. CASE DeliverControlPlane \/ Restart
    BY <2>1 DEF DeliverControlPlane, Restart, objectVars
  <2> QED
    BY <2>1, StepKinds, CleanupMoves, FirstMoves
<1> QED
  BY <1>1, <1>2, <1>3, <1>4 DEF Quiet

\* Whatever is lost, retried or repeated, the controller's treatment of
\* ClusterRoles and ClusterRoleBindings is a run of the life cycle, if every
\* cleanup finds the informers up to date.
THEOREM ImplementsRoleLifecycle == TimelySpec => RolesFollowLifecycle
<1>1. Init => InPhase /\ Lifecycle!Init
  <2> SUFFICES ASSUME Init
               PROVE  InPhase /\ Lifecycle!Init
    OBVIOUS
  <2>1. /\ owned = [k \in Kinds |-> {}] /\ w = Idle
        /\ cp.alive /\ ~cp.deleted /\ cp.fins = {}
    <3>1. PICK dp \in BOOLEAN : cp = [NoControlPlane EXCEPT !.alive = TRUE, !.dp = dp]
      BY DEF Init
    <3> QED
      BY <3>1 DEF Init, NoControlPlane
  <2>2. Idle.pc = "idle"
    BY DEF Idle
  <2>3. InPhase
    BY <2>1, <2>2 DEF InPhase
  <2>4. Phase = "new" /\ Existing = {}
    BY <2>1 DEF Phase, Existing, Finalizers, Kinds
  <2> QED
    BY <2>3, <2>4 DEF Lifecycle!Init
<1>2. TypeOK /\ Guarded /\ InPhase /\ [Next /\ KeepsUp]_vars => InPhase'
  <2>1. ASSUME InPhase, UNCHANGED vars
        PROVE  InPhase'
    BY <2>1 DEF vars, InPhase
  <2> QED
    BY <2>1, PhaseStep
<1>3. TypeOK /\ TypeOK' /\ Guarded /\ Guarded' /\ InPhase /\ [Next]_vars
         => [Lifecycle!Next]_(Lifecycle!vars)
  <2>1. ASSUME UNCHANGED vars
        PROVE  UNCHANGED Lifecycle!vars
    BY <2>1 DEF vars, Lifecycle!vars, Phase, Existing
  <2> QED
    BY <2>1, LifecycleStep
<1>4. TimelySpec => []TypeOK
  <2>1. Init /\ [][Next /\ KeepsUp]_vars => Spec
    BY PTL DEF Spec
  <2> QED
    BY <2>1, TypeCorrect, PTL DEF TimelySpec
<1> QED
  BY <1>1, <1>2, <1>3, <1>4, GuardedInvariant, PTL
     DEF TimelySpec, RolesFollowLifecycle, Lifecycle!Spec
=============================================================================
