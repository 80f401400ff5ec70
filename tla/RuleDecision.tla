----------------------------- MODULE RuleDecision -----------------------------
(***************************************************************************)
(* Questions about rules: what learning does to rules a user has edited,    *)
(* and which violations a template clears.  What a rule permits is defined  *)
(* here, from the Kubernetes and Istio APIs, without the helpers of the     *)
(* code.                                                                   *)
(***************************************************************************)
EXTENDS LearnedRules, Decision

(* Lists of at most n elements of S. *)
UpTo(S, n) == UNION {[1 .. k -> S] : k \in 0 .. n}

WorkloadA == [namespace |-> "ns1", selector |-> {"a"}]
WorkloadB == [namespace |-> "ns1", selector |-> {"b"}]
WorkloadC == [namespace |-> "ns2", selector |-> {"a"}]
Peers == {WorkloadA, WorkloadB, WorkloadC}
PeerDirections == {"Egress", "Ingress"}
PeerMessages == {<<"TCP", 80>>, <<"UDP", 80>>, <<"TCP", 90>>}

(* A pod of a workload carries the labels of its selector and others. *)
PodLabels(w) == w.selector \cup {"extra"}

Matches(selector, labels) == \A s \in selector : s \subseteq labels

(* The NetworkPolicy API: a peer without namespace selector is in the       *)
(* namespace of the policy; no peers or no ports means all.                *)
PeerPermits(peer, home, w) ==
    /\ peer.ipBlock = {}
    /\ IF peer.namespaces = {} THEN w.namespace = home
       ELSE Matches(peer.namespaces, {NamespaceName(w.namespace)})
    /\ Matches(peer.pods, PodLabels(w))

PortPermits(p, proto, port) ==
    /\ proto = (IF p.proto = {} THEN "TCP" ELSE CHOOSE x \in p.proto : TRUE)
    /\ p.port = {} \/ \E lo \in p.port : IF p.endPort = {} THEN port = lo
                                        ELSE \E hi \in p.endPort : lo <= port /\ port <= hi

RulePermits(r, home, w, proto, port) ==
    /\ r.peers = << >> \/ \E p \in Range(r.peers) : PeerPermits(p, home, w)
    /\ r.ports = << >> \/ \E p \in Range(r.ports) : PortPermits(p, proto, port)

Permits(rules, home, w, proto, port) ==
    \E r \in Range(rules) : RulePermits(r, home, w, proto, port)

(* The AuthorizationPolicy API, with the ports and ranges of the proposal:  *)
(* one source and one operation have to match, and what is empty matches   *)
(* everything.                                                             *)
MeshFlows == [identity : {"p", "q", ""}, port : {80, 85, 90}]

Covers(range, port) == range # << >> /\ range[1] <= port /\ port <= range[Len(range)]

MeshPermits(rule, v) ==
    /\ rule.from = << >> \/ \E principals \in Range(rule.from) :
          principals = << >> \/ Range(principals) \cap {"*", v.identity} # {}
    /\ rule.to = << >> \/ \E ports \in Range(rule.to) :
          ports = << >> \/ \E range \in Range(ports) : Covers(range, v.port)

MeshPermittedBy(rules) == {v \in MeshFlows : \E r \in Range(rules) : MeshPermits(r, v)}

PermittedBy(rules, home) ==
    {f \in Peers \X PeerMessages : Permits(rules, home, f[1], f[2][1], f[2][2])}

-----------------------------------------------------------------------------
(* Rules as a user may write them. *)

EditedPeers ==
    LET Selecting(namespaces, pods) == [namespaces |-> namespaces, pods |-> pods, ipBlock |-> {}]
        home == {{NamespaceName("ns1")}}
    IN  {<< >>, <<BuildPeer(WorkloadA)>>, <<BuildPeer(WorkloadA), BuildPeer(WorkloadB)>>,
         <<Selecting(home, {})>>, <<Selecting(home, {{}})>>, <<Selecting({{}}, {{"a"}})>>,
         <<Selecting({}, {{"a"}})>>, <<[namespaces |-> {}, pods |-> {}, ipBlock |-> {"cidr"}]>>}

EditedPorts ==
    {<< >>, <<PolicyPort("TCP", 80)>>, <<PolicyPort("TCP", 90), PolicyPort("UDP", 80)>>,
     <<[proto |-> {}, port |-> {80}, endPort |-> {}]>>, <<[proto |-> {"TCP"}, port |-> {}, endPort |-> {}]>>,
     <<[proto |-> {"TCP"}, port |-> {70}, endPort |-> {90}]>>}

EditedRules == [peers : EditedPeers, ports : EditedPorts]

EditQuestions ==
    [about : {"edit"}, rules : UpTo(EditedRules, 2), peer : Peers, message : PeerMessages]

LearnIntoEdited ==
    LET peer == BuildPeer(question.peer)
        port == PolicyPort(question.message[1], question.message[2])
    IN  Decide("edit", {[rules |-> UpsertRuleByPeer(question.rules, peer, port),
                         contained |-> ContainsPeerPort(question.rules, peer, port)]})

IstioFrom == {<< >>, <<<<"p">>>>, <<<<"p", "q">>>>, <<<<"p">>, <<"q">>>>, <<<<"*">>>>, <<<< >>>>}
IstioTo == {<< >>, <<<< >>>>, <<<< <<80>> >>>>, <<<< <<80, 90>> >>>>, <<<< <<80>> >>, << <<90>> >>>>,
            <<<< << >> >>>>}

MeshEditQuestions ==
    [about : {"meshEdit"}, rules : UpTo([from : IstioFrom, to : IstioTo], 2),
     principal : {"p", "q"}, port : {80, 85, 90}]

LearnIntoEditedMesh ==
    Decide("meshEdit",
           {[rules |-> UpsertIstioLearnedRule(question.rules, question.principal, <<question.port>>),
             cleared |-> {v \in MeshFlows : ClearedIstio(question.rules, v)}]})

ClearQuestions ==
    [about : {"clear"}, direction : PeerDirections, rules : UpTo(EditedRules, 2),
     violation : [sourceNamespace : {"ns1", "ns2"}, destNamespace : {"ns1", "ns2"},
                  proto : {"TCP", "UDP"}, port : {80, 90}]]

Clear ==
    Decide("clear",
           {ClearedKubernetes([ingress |-> IF question.direction = "Ingress" THEN question.rules ELSE << >>,
                               egress |-> IF question.direction = "Egress" THEN question.rules ELSE << >>],
                              question.violation)})

-----------------------------------------------------------------------------
(* Learning into rules that a user has edited permits what they permitted   *)
(* and the new flow, and nothing else: a rule shared by several peers or    *)
(* principals does not grow.  As long as no rule for exactly that peer      *)
(* leaves the ports open (upsertEgressRuleByPeer, upsertIngressRuleByPeer,  *)
(* upsertIstioLearnedRule).  And a flow that monitoring does not report is  *)
(* permitted, however the policy is written (containsPeerPort).            *)
LearningAddsOnlyTheFlow ==
    /\ About("edit") /\ (\A i \in ForPeer(question.rules, BuildPeer(question.peer)) :
                             question.rules[i].ports # << >>) =>
          \A a \in answer :
              PermittedBy(a.rules, "ns1") =
                  PermittedBy(question.rules, "ns1") \cup {<<question.peer, question.message>>}
    /\ About("edit") =>
          \A a \in answer :
              a.contained => <<question.peer, question.message>> \in PermittedBy(question.rules, "ns1")
    /\ About("meshEdit") /\ (\A r \in Range(question.rules) :
                                 r.from = <<<<question.principal>>>> => r.to # << >> /\ << >> \notin Range(r.to)) =>
          \A a \in answer :
              MeshPermittedBy(a.rules) =
                  MeshPermittedBy(question.rules)
                  \cup {[identity |-> question.principal, port |-> question.port]}

(* A violation is cleared only when the template permits its flow for every *)
(* pod of the peer's namespace, since the record does not say which pod it  *)
(* was, and always when a rule, wherever it stands in the template, is for  *)
(* that namespace and port, with the pods left out or selected by nothing   *)
(* (ToIngressRule, ToEgressRule, IngressRuleEqual, EgressRuleEqual).        *)
(* In a mesh it is cleared exactly when a rule permits its principal and    *)
(* port, in any of the ways to write them (clearAllowedIstioViolations).    *)
ClearsOnlyPermitted ==
    /\ About("meshEdit") => \A a \in answer : a.cleared = MeshPermittedBy(question.rules)
    /\ About("clear") =>
        LET v == question.violation
            home == IF question.direction = "Ingress" THEN v.destNamespace ELSE v.sourceNamespace
            peer == IF question.direction = "Ingress" THEN v.sourceNamespace ELSE v.destNamespace
        IN  /\ TRUE \in answer =>
                  \A selector \in SUBSET {"a", "b"} :
                      Permits(question.rules, home, [namespace |-> peer, selector |-> selector], v.proto, v.port)
            /\ (\E r \in Range(question.rules), pods \in {{}, {{}}} :
                   /\ r.peers = <<[namespaces |-> {{NamespaceName(peer)}}, pods |-> pods, ipBlock |-> {}]>>
                   /\ r.ports = <<[proto |-> {v.proto}, port |-> {v.port}, endPort |-> {}]>>) => TRUE \in answer
==============================================================================
