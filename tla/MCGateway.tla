------------------------------ MODULE MCGateway ------------------------------
(***************************************************************************)
(* Instances of Gateway for TLC.                                           *)
(***************************************************************************)
EXTENDS Gateway

\* What internal/manager/run.go leaves to the cache: all that this controller
\* reads.
CachedByManager == Kinds \cup {"svc"}

\* A smaller instance: ControlPlanes and NetworkPolicies are listed live.
DataPlanesCached == {"dp", "svc"}
=============================================================================
