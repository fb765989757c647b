------------------------ MODULE ControlPlaneLifecycle ------------------------
(***************************************************************************)
(* ControlPlane implements RoleLifecycle: the phase is read off the stored *)
(* ControlPlane's deletion timestamp and finalizers, and the existing      *)
(* kinds off the API server.                                               *)
(***************************************************************************)
EXTENDS ControlPlane

Phase ==
    CASE ~cp.alive -> "gone"
      [] cp.alive /\ cp.fins = Finalizers -> IF cp.deleted THEN "deleting" ELSE "guarded"
      [] cp.alive /\ cp.fins # Finalizers -> IF cp.deleted THEN "unbound" ELSE "new"

Existing == {k \in Finalizers : owned[k] # {}}

Lifecycle == INSTANCE RoleLifecycle WITH phase <- Phase, existing <- Existing

\* Whatever is lost, retried, repeated or restarted, Reconcile's treatment of
\* ClusterRoles and ClusterRoleBindings is a run of the five-phase life cycle:
\* a step of the controller or of its surroundings is a step of RoleLifecycle
\* or does not show there.  The controller's promise under TimelySpec: a cleanup
\* that overtakes the event of a new object leaves it behind.
RolesFollowLifecycle == Lifecycle!Spec

=============================================================================
