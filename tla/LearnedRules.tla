----------------------------- MODULE LearnedRules -----------------------------
(***************************************************************************)
(* The rules of proposals and policies: how learning adds a flow to them,   *)
(* how monitoring and the status computation look a flow up.               *)
(*                                                                         *)
(* A pointer is a set with at most one element.  A label selector is a set  *)
(* of labels, so {} is nil and {{}} the empty selector.  A Kubernetes rule  *)
(* is [peers, ports], a peer [namespaces, pods, ipBlock], a port [proto,    *)
(* port, endPort].  An Istio rule is [from, to], a sequence of lists of     *)
(* principals and one of lists of ports, a port <<n>> or a range <<n, m>>;  *)
(* text that is neither is << >>.  A workload is [namespace, selector].     *)
(***************************************************************************)
EXTENDS Naturals, Sequences, Functions, FiniteSets

(***************************************************************************)
(* Equality of rules (policy_helpers.go).                                  *)
(***************************************************************************)

(* FormatLabelSelector prints a nil and an empty selector alike. *)
Formatted(selector) == selector \ {{}}
SelectorEqual(a, b) == Formatted(a) = Formatted(b)

PolicyPeerEqual(a, b) ==
    /\ SelectorEqual(a.namespaces, b.namespaces)
    /\ SelectorEqual(a.pods, b.pods)
    /\ a.ipBlock = b.ipBlock

PolicyPortEqual(a, b) == a = b

Least(indices) == CHOOSE i \in indices : \A j \in indices : i <= j

(* Each element on the left takes the first free one that equals it; equal  *)
(* holds the pairs of places with equal elements.                          *)
EqualUnordered(left, right, equal) ==
    LET free[i \in 0 .. Len(left)] ==
            IF i = 0 THEN DOMAIN right
            ELSE LET matches == {j \in free[i - 1] : <<i, j>> \in equal}
                 IN  IF matches = {} THEN free[i - 1] ELSE free[i - 1] \ {Least(matches)}
    IN  Len(left) = Len(right) /\ free[Len(left)] = {}

PeersEqual(a, b) ==
    EqualUnordered(a, b, {p \in (DOMAIN a) \X (DOMAIN b) : PolicyPeerEqual(a[p[1]], b[p[2]])})
PortsEqual(a, b) ==
    EqualUnordered(a, b, {p \in (DOMAIN a) \X (DOMAIN b) : PolicyPortEqual(a[p[1]], b[p[2]])})

\* Mutant: the ports are not compared.
RuleEqualByPeers(a, b) == PeersEqual(a.peers, b.peers)

(* EgressRuleEqual and IngressRuleEqual *)
RuleEqual(a, b) == PeersEqual(a.peers, b.peers) /\ PortsEqual(a.ports, b.ports)

(***************************************************************************)
(* Kubernetes: learning and monitoring.                                    *)
(***************************************************************************)
NamespaceName(namespace) == <<"kubernetes.io/metadata.name", namespace>>

PolicyPort(proto, port) == [proto |-> {proto}, port |-> {port}, endPort |-> {}]

BuildPeer(peer) ==
    [namespaces |-> {{NamespaceName(peer.namespace)}}, pods |-> {peer.selector}, ipBlock |-> {}]

ForPeer(rules, peer) ==
    {i \in DOMAIN rules : Len(rules[i].peers) = 1 /\ PolicyPeerEqual(rules[i].peers[1], peer)}

HasPort(rule, port) == \E i \in DOMAIN rule.ports : PolicyPortEqual(rule.ports[i], port)

\* Mutant: the port is added to any rule that has the peer.
UpsertAnywhere(rules, peer, port) ==
    LET found == {i \in DOMAIN rules : \E k \in DOMAIN rules[i].peers : PolicyPeerEqual(rules[i].peers[k], peer)}
    IN  IF found = {}
        THEN Append(rules, [peers |-> <<peer>>, ports |-> <<port>>])
        ELSE IF HasPort(rules[Least(found)], port)
        THEN rules
        ELSE [rules EXCEPT ![Least(found)].ports = Append(@, port)]

(* upsertEgressRuleByPeer and upsertIngressRuleByPeer *)
UpsertRuleByPeer(rules, peer, port) ==
    LET found == ForPeer(rules, peer)
    IN  IF found = {}
        THEN Append(rules, [peers |-> <<peer>>, ports |-> <<port>>])
        ELSE IF HasPort(rules[Least(found)], port)
        THEN rules
        ELSE [rules EXCEPT ![Least(found)].ports = Append(@, port)]

ContainsPeerPort(rules, peer, port) == \E i \in ForPeer(rules, peer) : HasPort(rules[i], port)

(* What a learner has done so far: the rules of the proposals, by workload  *)
(* and direction, the policies that were promoted from them, the violations *)
(* it observed, whether the event it is at has failed, and the events that  *)
(* failed and are to be run again.                                         *)
MonitorObservation(workload, peer, direction, proto, port) ==
    [source |-> IF direction = "Egress" THEN workload ELSE peer,
     dest |-> IF direction = "Egress" THEN peer ELSE workload,
     direction |-> direction, proto |-> proto, port |-> port]

(* evaluateMonitorViolation: in protect mode the data plane reports. *)
EvaluateMonitorViolation(st, policy, workload, peer, direction, proto, port) ==
    IF policy.mode = "protect" \/ ContainsPeerPort(policy.rules, BuildPeer(peer), PolicyPort(proto, port))
    THEN st
    ELSE [st EXCEPT !.observed = Append(@, MonitorObservation(workload, peer, direction, proto, port))]

ReconcileKubernetesProposal(st, e, workload, peer, direction) ==
    LET promoted == st.policies[<<workload, direction>>]
    IN  CASE promoted = {} ->
                [st EXCEPT !.proposals[<<workload, direction>>] =
                    UpsertRuleByPeer(@, BuildPeer(peer), PolicyPort(e.proto, e.port))]
          [] Cardinality(promoted) = 1 ->
                EvaluateMonitorViolation(st, CHOOSE p \in promoted : TRUE, workload, peer, direction,
                                         e.proto, e.port)
          [] OTHER -> [st EXCEPT !.error = TRUE]

\* Mutant: the destination learns its own selector.
ProcessSwapped(st, e) ==
    LET egress == ReconcileKubernetesProposal(st, e, e.source, e.dest, "Egress")
    IN  IF egress.error THEN egress
        ELSE ReconcileKubernetesProposal(egress, e, e.dest, e.dest, "Ingress")

(* An error on the egress side ends the event before the ingress side. *)
ProcessKubernetesLearningEvent(st, e) ==
    LET egress == ReconcileKubernetesProposal(st, e, e.source, e.dest, "Egress")
    IN  IF egress.error THEN egress
        ELSE ReconcileKubernetesProposal(egress, e, e.dest, e.source, "Ingress")

(***************************************************************************)
(* Istio: learning.                                                        *)
(***************************************************************************)

(* upsertIstioLearnedRule: only a rule for exactly that principal grows. *)
UpsertIstioLearnedRule(rules, principal, port) ==
    LET found == {i \in DOMAIN rules : rules[i].from = <<<<principal>>>>}
        i == Least(found)
    IN  CASE found = {} -> Append(rules, [from |-> <<<<principal>>>>, to |-> <<<<port>>>>])
          [] found # {} /\ rules[i].to = << >> -> [rules EXCEPT ![i].to = <<<<port>>>>]
          [] found # {} /\ \E k \in DOMAIN rules[i].to : port \in Range(rules[i].to[k]) -> rules
          [] OTHER -> [rules EXCEPT ![i].to[1] = Append(@, port)]

(* Only the receiving side has a proposal, and a policy is not monitored    *)
(* here: ztunnel reports its dry runs.                                     *)
ProcessIstioLearningEvent(st, e) ==
    LET promoted == st.policies[<<e.dest, "Ingress">>]
    IN  CASE promoted = {} ->
                [st EXCEPT !.proposals[<<e.dest, "Ingress">>] =
                    UpsertIstioLearnedRule(@, e.principal, <<e.port>>)]
          [] Cardinality(promoted) = 1 -> st
          [] OTHER -> [st EXCEPT !.error = TRUE]

(* Reconcile: an event that failed goes back to the queue as a whole, with  *)
(* what was written and reported before the error left as it is.           *)
Reconcile(st, e) ==
    LET after == IF e.backend = "istio" THEN ProcessIstioLearningEvent(st, e)
                 ELSE ProcessKubernetesLearningEvent(st, e)
    IN  IF after.error THEN [after EXCEPT !.error = FALSE, !.retry = Append(@, e)] ELSE after

(***************************************************************************)
(* The violations a template permits leave the status (violation_record.go). *)
(***************************************************************************)
IstioRuleAllowsSource(rule, identity) ==
    \/ rule.from = << >>
    \/ \E i \in DOMAIN rule.from :
          rule.from[i] = << >> \/ {"*", identity} \cap Range(rule.from[i]) # {}

(* parseIstioPortRange: the bounds of a port or of a range. *)
ParseIstioPortRange(spec) == IF spec = << >> THEN {} ELSE {<<spec[1], spec[Len(spec)]>>}

IstioPortMatches(spec, port) == \E r \in ParseIstioPortRange(spec) : r[1] <= port /\ port <= r[2]

IstioRuleAllowsPort(rule, port) ==
    \/ rule.to = << >>
    \/ \E i \in DOMAIN rule.to :
          rule.to[i] = << >> \/ \E k \in DOMAIN rule.to[i] : IstioPortMatches(rule.to[i][k], port)

ClearedIstio(rules, v) ==
    \E i \in DOMAIN rules : IstioRuleAllowsSource(rules[i], v.identity) /\ IstioRuleAllowsPort(rules[i], v.port)

(* ToIngressRule and ToEgressRule: the whole namespace of the peer. *)
ToRule(namespace, v) ==
    [peers |-> <<[namespaces |-> {{NamespaceName(namespace)}}, pods |-> {}, ipBlock |-> {}]>>,
     ports |-> <<PolicyPort(v.proto, v.port)>>]

ClearedKubernetes(template, v) ==
    \/ \E i \in DOMAIN template.ingress : RuleEqual(ToRule(v.sourceNamespace, v), template.ingress[i])
    \/ \E i \in DOMAIN template.egress : RuleEqual(ToRule(v.destNamespace, v), template.egress[i])
==============================================================================
