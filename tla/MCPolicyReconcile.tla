-------------------------- MODULE MCPolicyReconcile --------------------------
(***************************************************************************)
(* Two policies, two targets and a namespace in which a selector may match *)
(* its target, another workload, both or none.                             *)
(***************************************************************************)
EXTENDS PolicyReconcile

Web == [kind |-> "Deployment", name |-> "web"]
Job == [kind |-> "StatefulSet", name |-> "job"]

Selector(labels) == [labels |-> labels, exprs |-> {}]

Policy(target, mode, label) ==
    [target |-> target, mode |-> mode, selector |-> Selector({label})]

(* Policies that may compete for one workload or move to another. *)
CompetingSpecs == {Policy(Web, "protect", "x"), Policy(Job, "protect", "y")}

(* One policy whose mode and selector change. *)
ChangingSpecs ==
    {Policy(Web, "protect", "x"), Policy(Web, "monitor", "x"), Policy(Web, "protect", "y")}

Template(target, label) == [target |-> target, labels |-> {label}, uid |-> 1]
Namespace(templates) == [templates |-> templates, replicaSets |-> {}, pods |-> {}]

Apart == Namespace({Template(Web, "x"), Template(Job, "y")})
Overlapping == Namespace({Template(Web, "x"), Template(Job, "x")})

(* Objects with no controller, and with one that is not a policy. *)
Strangers == {Uncontrolled, -1}

OneCluster == {Apart}
TwoClusters == {Apart, Overlapping}
==============================================================================
