--------------------------- MODULE MCControlPlane ---------------------------
(***************************************************************************)
(* Instances of ControlPlane for TLC.                                      *)
(***************************************************************************)
EXTENDS ControlPlaneLifecycle

\* What internal/manager/run.go leaves to the cache of the owned kinds: all but
\* Deployments and Secrets.
CachedByManager == {"sa", "cr", "crb"}
=============================================================================
