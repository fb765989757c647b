----------------------------- MODULE Conditions -----------------------------
(***************************************************************************)
(* The status conditions of a Kubernetes resource and the helpers of       *)
(* internal/utils/kubernetes/status.go that read and write them.  The      *)
(* slice of conditions is a function from the condition types present to   *)
(* the rest of the condition: SetCondition keeps at most one condition of  *)
(* each type and nothing in the code depends on the order of the slice.    *)
(* Transition times are left out.                                          *)
(***************************************************************************)

ReadyType == "Ready"

\* A condition without its type and time.
NewCondition(status, reason, message) ==
    [status |-> status, reason |-> reason, message |-> message]

NotReady ==
    NewCondition("False", "DependenciesNotReady", "other conditions not yet ready")
ResourceReady == NewCondition("True", "ResourceReady", "")

\* The possible slices, for a set of condition types and one of conditions.
ConditionsOver(types, conditions) ==
    UNION {[present -> conditions] : present \in SUBSET types}

\* The slice with every condition of type t dropped and the new one added.
SetCondition(conds, t, c) ==
    [x \in DOMAIN conds \cup {t} |-> IF x = t THEN c ELSE conds[x]]

HasCondition(conds, t) == t \in DOMAIN conds

IsValidCondition(conds, t) ==
    HasCondition(conds, t) /\ conds[t].status = "True"

InitReady(conds) == SetCondition(conds, ReadyType, NotReady)

areAllConditionsReady(conds) ==
    \A t \in DOMAIN conds \ {ReadyType} : conds[t].status = "True"

SetReady(conds) ==
    SetCondition(conds, ReadyType,
                 IF areAllConditionsReady(conds) THEN ResourceReady ELSE NotReady)

IsReady(conds) == IsValidCondition(conds, ReadyType)

\* Whether the conditions differ, in number or in one of current's conditions.
NeedsUpdate(current, updated) ==
    \/ DOMAIN current # DOMAIN updated
    \/ \E t \in DOMAIN current : current[t] # updated[t]
=============================================================================
