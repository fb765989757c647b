----------------------------- MODULE MCDataPlane -----------------------------
(***************************************************************************)
(* Instances of DataPlane for TLC.                                         *)
(***************************************************************************)
EXTENDS DataPlane

\* What internal/manager/run.go leaves to the cache of the owned kinds: all but
\* Deployments and Secrets.
CachedByManager == {"svc"}
=============================================================================
