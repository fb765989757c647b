---------------------------- MODULE RoleLifecycle ----------------------------
(***************************************************************************)
(* What the ControlPlane controller promises about the cluster-scoped      *)
(* objects it creates, without queues, caches, copies or retries.  A       *)
(* ClusterRole ("cr") and a ClusterRoleBinding ("crb") have no owner that  *)
(* the garbage collector could follow; two finalizers stand for them on    *)
(* the ControlPlane, and the life of a ControlPlane is a path through five *)
(* phases:                                                                 *)
(*                                                                         *)
(*   new -> guarded -> deleting -> unbound -> gone,   or   new -> gone.    *)
(*                                                                         *)
(* Objects appear only under both finalizers, the bindings' finalizer goes *)
(* first and only when no binding is left, and the ControlPlane goes only  *)
(* when nothing is left.                                                   *)
(***************************************************************************)

VARIABLES
    phase,      \* where in its life the stored ControlPlane is
    existing    \* the kinds of which an object exists

vars == <<phase, existing>>

RoleKinds == {"cr", "crb"}
Phases == {"new", "guarded", "deleting", "unbound", "gone"}

Init ==
    /\ phase = "new"
    /\ existing = {}

\* Both finalizers are stored.
Guard ==
    /\ phase = "new"
    /\ phase' = "guarded"
    /\ UNCHANGED existing

\* Deleted before there was anything to clean up.
Abandon ==
    /\ phase = "new"
    /\ phase' = "gone"
    /\ UNCHANGED existing

\* A pass that began before the deletion may still create an object after it.
Create(k) ==
    /\ phase \in {"guarded", "deleting"}
    /\ existing' = existing \cup {k}
    /\ UNCHANGED phase

\* The last object of a kind goes: by cleanup, or by somebody else's hand.
Remove(k) ==
    /\ k \in existing
    /\ existing' = existing \ {k}
    /\ UNCHANGED phase

Delete ==
    /\ phase = "guarded"
    /\ phase' = "deleting"
    /\ UNCHANGED existing

\* The finalizer for the bindings is removed.
Unbind ==
    /\ phase = "deleting"
    /\ "crb" \notin existing
    /\ phase' = "unbound"
    /\ UNCHANGED existing

\* The finalizer for the roles is removed, and the ControlPlane with it.
Finish ==
    /\ phase = "unbound"
    /\ existing = {}
    /\ phase' = "gone"
    /\ UNCHANGED existing

Next ==
    \/ Guard
    \/ Abandon
    \/ \E k \in RoleKinds : Create(k) \/ Remove(k)
    \/ Delete
    \/ Unbind
    \/ Finish

Spec == Init /\ [][Next]_vars

=============================================================================
