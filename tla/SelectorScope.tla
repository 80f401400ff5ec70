---------------------------- MODULE SelectorScope ----------------------------
(***************************************************************************)
(* Which pods a WorkloadNetworkPolicy may select.  A policy names one      *)
(* target workload, but the object rendered from it selects pods by label, *)
(* so on every reconciliation the controller compares the selector with    *)
(* the pod templates and the pods of the namespace.                        *)
(*                                                                         *)
(* A label set is a set of labels, and a selector is the set of labels it  *)
(* requires, those of matchLabels apart from those of matchExpressions:    *)
(* the Istio backend renders only the former.  An owner reference is       *)
(* [kind, name, uid]; kinds stand for (API version, kind) pairs, and a     *)
(* kind outside apps/v1 is one the controller does not know.  The text of  *)
(* a condition is left out: a condition is a reason and the generation it  *)
(* was computed for.                                                       *)
(***************************************************************************)
EXTENDS Naturals, FiniteSets

NoOwner == [kind |-> "", name |-> "", uid |-> 0]

(* The reasons of the Ready condition; only the first comes with "True". *)
ScopeValid == "SelectorScopeValid"
Mismatch == "SelectorDoesNotMatchTarget"
Overlaps == "SelectorOverlapsWorkload"
TargetNotFound == "TargetNotFound"

Selects(selector, labels) == (selector.labels \cup selector.exprs) \subseteq labels

(* The selector of the rendered object: an AuthorizationPolicy has no       *)
(* expressions, and the scope is checked for what is rendered.             *)
Rendered(selector, backend) ==
    IF backend = "istio" THEN [selector EXCEPT !.exprs = {}] ELSE selector

\* Mutant: the ReplicaSet of that name, whatever its UID.
OwnerByName(pod, cluster) ==
    LET viaRS == {rs \in cluster.replicaSets :
                     /\ pod.owner.kind = "ReplicaSet"
                     /\ rs.name = pod.owner.name
                     /\ rs.owner.kind = "Deployment"}
    IN  IF viaRS = {} THEN pod.owner ELSE (CHOOSE rs \in viaRS : TRUE).owner

(* The workload behind a pod: its controller, or for a ReplicaSet that      *)
(* still exists and is the same object, the Deployment controlling it.     *)
PodWorkloadOwner(pod, cluster) ==
    LET viaRS == {rs \in cluster.replicaSets :
                     /\ pod.owner.kind = "ReplicaSet"
                     /\ rs.name = pod.owner.name
                     /\ rs.uid = pod.owner.uid
                     /\ rs.owner.kind = "Deployment"}
    IN  IF viaRS = {} THEN pod.owner ELSE (CHOOSE rs \in viaRS : TRUE).owner

(* A pod of a missing target is not an overlap: nothing tells its owner    *)
(* apart from the one the policy names.                                    *)
PodOwnerMatchesTarget(owner, target, templates) ==
    /\ [kind |-> owner.kind, name |-> owner.name] = target
    /\ \A t \in templates : t.target = target => owner.uid = t.uid

PodSelectorOverlaps(selector, target, cluster) ==
    {pod \in cluster.pods :
        /\ Selects(selector, pod.labels)
        /\ ~PodOwnerMatchesTarget(PodWorkloadOwner(pod, cluster), target, cluster.templates)}

(* The templates of other workloads that the selector selects. *)
TemplateOverlaps(selector, target, templates) ==
    {t \in templates : t.target # target /\ Selects(selector, t.labels)}

(* The reason checkSelectorScope gives.  Pods are looked at only when the   *)
(* templates show no problem.                                              *)
CheckSelectorScope(selector, target, cluster) ==
    LET own == {t \in cluster.templates : t.target = target}
    IN  IF \E t \in own : ~Selects(selector, t.labels) THEN Mismatch
        ELSE IF \/ TemplateOverlaps(selector, target, cluster.templates) # {}
                \/ PodSelectorOverlaps(selector, target, cluster) # {} THEN Overlaps
        ELSE IF own = {} THEN TargetNotFound
        ELSE ScopeValid

\* Mutant: the kept object is not checked.
KeptIgnored(kept, target, cluster) == Mismatch

(* The reason for a policy whose selector left its target, when the object  *)
(* rendered from an earlier selector is kept: the kept selector may overlap *)
(* other workloads.  kept holds the selector of that object, if there is    *)
(* one.                                                                    *)
CheckRetainedPolicyScope(kept, target, cluster) ==
    IF \E selector \in kept :
          \/ TemplateOverlaps(selector, target, cluster.templates) # {}
          \/ PodSelectorOverlaps(selector, target, cluster) # {}
    THEN Overlaps
    ELSE Mismatch
==============================================================================
