---------------------------- MODULE ScopeDecision ----------------------------
(***************************************************************************)
(* Questions about the scope of a policy: every selector in every small     *)
(* namespace, as the policy is rendered and as it was kept.                 *)
(***************************************************************************)
EXTENDS SelectorScope, Decision

CONSTANTS Labels, UIDs, Backends

Target == [kind |-> "Deployment", name |-> "a"]
Other == [kind |-> "StatefulSet", name |-> "b"]

LabelSets == SUBSET Labels
Selectors == {s \in [labels : LabelSets, exprs : LabelSets] : s.labels \cup s.exprs # {}}
Optional(S) == {{}} \cup {{x} : x \in S}
OwnerRefs == {[kind |-> k, name |-> "a", uid |-> u] : k \in {"Deployment", "ReplicaSet"}, u \in UIDs}

Clusters ==
    {[templates |-> own \cup other, replicaSets |-> rs, pods |-> pod] :
        own \in Optional([target : {Target}, labels : LabelSets, uid : UIDs]),
        other \in Optional([target : {Other}, labels : LabelSets, uid : {1}]),
        rs \in Optional([name : {"a"}, uid : UIDs,
                         owner : {NoOwner, [kind |-> "Deployment", name |-> "a", uid |-> 1]}]),
        pod \in Optional([labels : LabelSets, owner : OwnerRefs \cup {NoOwner}])}

ScopeQuestions ==
    [about : {"scope"}, cluster : Clusters, selector : Selectors, backend : Backends]

(* The verdict on the selector as it would be rendered, and on the same     *)
(* selector kept from an earlier rendering.                                *)
Judge ==
    Decide("scope", LET s == Rendered(question.selector, question.backend)
                    IN  {[scope |-> CheckSelectorScope(s, Target, question.cluster),
                          kept  |-> CheckRetainedPolicyScope({s}, Target, question.cluster)]})

-----------------------------------------------------------------------------
(* What a data plane selects: Istio looks at the labels of the rendered     *)
(* object only.                                                            *)
Enforced(labels) ==
    /\ question.selector.labels \subseteq labels
    /\ question.backend = "kubernetes" => question.selector.exprs \subseteq labels

(* The pod descends from the object t through references that all carry    *)
(* the UID of the object they name.                                        *)
Descends(pod, t) ==
    LET ref == [kind |-> t.target.kind, name |-> t.target.name, uid |-> t.uid]
    IN  \/ pod.owner = ref
        \/ \E rs \in question.cluster.replicaSets :
              /\ pod.owner = [kind |-> "ReplicaSet", name |-> rs.name, uid |-> rs.uid]
              /\ rs.owner = ref

(* The policy selects only its target: some live workload is the target,   *)
(* everything the data plane selects is its template or descends from it.  *)
Exclusive ==
    \E t \in question.cluster.templates :
        /\ t.target = Target
        /\ Enforced(t.labels)
        /\ \A u \in question.cluster.templates \ {t} : ~Enforced(u.labels)
        /\ \A pod \in question.cluster.pods : Enforced(pod.labels) => Descends(pod, t)

(* A policy is Ready exactly when what its data-plane object selects is the *)
(* target and nothing else (checkSelectorScope: UIDs along the owner chain, *)
(* the expressions Istio drops, pods that no template describes).           *)
ReadyIffExclusive ==
    About("scope") =>
        \A verdict \in answer : verdict.scope = ScopeValid <=> Exclusive

(* A kept object that enforces a pod or template of a workload other than   *)
(* a live target is reported as an overlap, whatever else is wrong with the *)
(* policy (checkRetainedPolicyScope).                                      *)
KeptOverlapReported ==
    About("scope") =>
        \A verdict \in answer, t \in question.cluster.templates :
            t.target = Target =>
                (verdict.kept = Overlaps <=>
                    \/ \E u \in question.cluster.templates \ {t} : Enforced(u.labels)
                    \/ \E pod \in question.cluster.pods :
                          Enforced(pod.labels) /\ ~Descends(pod, t))
=============================================================================
