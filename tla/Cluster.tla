------------------------------ MODULE Cluster ------------------------------
(***************************************************************************)
(* The workloads that the scrapers have to recognise.  A thing is a pod    *)
(* with the kind and the name of the workload it really belongs to, which  *)
(* the code never sees: [pod, kind, name].                                 *)
(***************************************************************************)
EXTENDS WorkloadResolution

(* How the control plane builds the pods of a workload: a Deployment's      *)
(* belong to a ReplicaSet named after it and their template.               *)
WellBuilt(t) ==
    CASE t.kind = "Deployment" ->
            /\ t.pod.hash # ""
            /\ t.pod.owner = {[kind |-> "ReplicaSet", name |-> t.name \o <<"-", t.pod.hash>>]}
      [] t.kind = "Pod" -> t.pod.owner = {} /\ t.name = t.pod.name
      [] OTHER ->
            /\ t.pod.owner = {[kind |-> t.kind, name |-> t.name]}
            /\ t.kind = "ReplicaSet" => t.pod.hash = ""

(* A thing, and what names it in full. *)
Root(t) == WorkloadRef(t.pod.namespace, t.kind, t.name)
Selected(t) == [Root(t) EXCEPT !.selector = {t.name}]
IsKept(t) == t.kind \in Supported

(* What the informers hold: the pods, the workloads but those still to      *)
(* arrive, and the policies.                                               *)
Workload(t) ==
    [namespace |-> t.pod.namespace, kind |-> t.kind, name |-> t.name, selector |-> {t.name}]
Informed(things, late, policies) ==
    [pods |-> {t.pod : t \in things},
     workloads |-> {Workload(t) : t \in {u \in things : IsKept(u)}} \ late,
     policies |-> policies]

(* The policies for a thing in a direction. *)
PoliciesFor(t, direction, policies) ==
    {p \in policies : /\ p.namespace = t.pod.namespace /\ p.direction = direction
                      /\ p.kind = t.kind /\ p.target = t.name}
(* The name of a policy that is the only one. *)
NameOfOnly(policies) ==
    {[namespace |-> p.namespace, name |-> p.name] : p \in {x \in policies : policies = {x}}}
=============================================================================
