-------------------------- MODULE LearningDecision --------------------------
(***************************************************************************)
(* What a sequence of learning events leaves in the proposals.             *)
(***************************************************************************)
EXTENDS RuleDecision, SequencesExt

(* Sequences of events, with policies already promoted for the egress of A  *)
(* and the ingress of B: none, one in either mode, or two.  Events that     *)
(* fail are run again, with the policies that users have left by then.     *)

PeerEvents ==
    {[backend |-> "kubernetes", source |-> s, dest |-> d, proto |-> m[1], port |-> m[2]] :
        s \in Peers, d \in Peers, m \in PeerMessages}

PolicyOn(w, mode) ==
    [mode |-> mode, rules |-> <<[peers |-> <<BuildPeer(w)>>, ports |-> <<PolicyPort("TCP", 80)>>]>>]
Promotions(w) ==
    {{}, {PolicyOn(w, "monitor")}, {PolicyOn(w, "protect")}, {PolicyOn(w, "monitor"), PolicyOn(w, "protect")}}

SomePolicies ==
    {[key \in Peers \X PeerDirections |->
        IF key = <<WorkloadA, "Egress">> THEN egress
        ELSE IF key = <<WorkloadB, "Ingress">> THEN ingress ELSE {}] :
        egress \in Promotions(WorkloadB), ingress \in Promotions(WorkloadA)}
NoPolicies == [key \in Peers \X PeerDirections |-> {}]

(* The policies at the first run of the events and at the second. *)
PolicyDeletions ==
    {p \in SomePolicies \X SomePolicies :
        \A key \in Peers \X PeerDirections : p[2][key] \subseteq p[1][key]}

EventQuestions ==
    [about : {"events"}, events : BoundedSeq(PeerEvents, 2), policies : PolicyDeletions]
    \cup [about : {"events"}, events : [1 .. 3 -> PeerEvents], policies : {<<NoPolicies, NoPolicies>>}]

MeshEvents == [backend : {"istio"}, principal : {"p", "q"}, dest : {WorkloadA, WorkloadB}, port : {80, 85}]

MeshEventQuestions ==
    [about : {"meshEvents"}, events : BoundedSeq(MeshEvents, 2), policies : PolicyDeletions]
    \cup [about : {"meshEvents"}, events : [1 .. 3 -> MeshEvents], policies : {<<NoPolicies, NoPolicies>>}]

Learner(policies) ==
    [proposals |-> [key \in Peers \X PeerDirections |-> << >>],
     policies |-> policies, observed |-> << >>, error |-> FALSE, retry |-> << >>]

RunTwice ==
    LET first == FoldLeft(Reconcile, Learner(question.policies[1]), question.events)
    IN  FoldLeft(Reconcile, [first EXCEPT !.policies = question.policies[2], !.retry = << >>], first.retry)

LearnEvents == Decide("events", {RunTwice})
LearnMeshEvents == Decide("meshEvents", {RunTwice})

-----------------------------------------------------------------------------
(* The runs of an event: its number, and 1 or, when that failed, 2. *)
Policies(run, key) == question.policies[run[2]][key]
Clashes(run, key) == Cardinality(Policies(run, key)) > 1

Sides(e) == IF e.backend = "istio" THEN {<<e.dest, "Ingress">>} ELSE {<<e.source, "Egress">>, <<e.dest, "Ingress">>}

Runs ==
    {run \in (DOMAIN question.events) \X {1, 2} :
        run[2] = 2 => \E key \in Sides(question.events[run[1]]) : Clashes(<<run[1], 1>>, key)}

(* The runs that reach the proposal or policy of a workload: one whose      *)
(* egress side fails does not get to its ingress side.                      *)
Reaching(w, direction) ==
    {run \in Runs :
        LET e == question.events[run[1]]
        IN  /\ <<w, direction>> \in Sides(e)
            /\ direction = "Ingress" /\ e.backend = "kubernetes" => ~Clashes(run, <<e.source, "Egress">>)}

Learning(w, direction) == {run \in Reaching(w, direction) : Policies(run, <<w, direction>>) = {}}

PeerFlow(e, direction) == <<IF direction = "Egress" THEN e.dest ELSE e.source, <<e.proto, e.port>>>>

(* However flows arrive, repeated, in any order and run again after an      *)
(* error, a proposal permits exactly the flows of its workload in its       *)
(* direction and holds each once; a workload with a promoted policy is not  *)
(* learned for, and a policy in monitor mode reports each flow it does not  *)
(* permit, with the right source and destination, once for each time the    *)
(* event is run: an error on the ingress side makes the egress side report  *)
(* again (Reconcile, processKubernetesLearningEvent, upsertEgressRuleByPeer, *)
(* upsertIngressRuleByPeer, containsPeerPort).  In a mesh the principals    *)
(* and ports add up in the same way, per destination                       *)
(* (processIstioLearningEvent, upsertIstioLearnedRule).                    *)
LearnsWhatItSaw ==
    /\ About("meshEvents") =>
        \A st \in answer, w \in Peers :
            MeshPermittedBy(st.proposals[<<w, "Ingress">>]) =
                {[identity |-> question.events[run[1]].principal, port |-> question.events[run[1]].port] :
                    run \in Learning(w, "Ingress")}
    /\ About("events") =>
        \A st \in answer, w \in Peers, d \in PeerDirections :
            LET rules == st.proposals[<<w, d>>]
                learned == {PeerFlow(question.events[run[1]], d) : run \in Learning(w, d)}
                reported == SelectSeq(st.observed,
                                LAMBDA o : o.direction = d /\ w = IF d = "Egress" THEN o.source ELSE o.dest)
                reporting == {run \in Reaching(w, d) :
                                 LET f == PeerFlow(question.events[run[1]], d)
                                 IN  \E p \in Policies(run, <<w, d>>) :
                                        /\ ~Clashes(run, <<w, d>>) /\ p.mode = "monitor"
                                        /\ ~Permits(p.rules, w.namespace, f[1], f[2][1], f[2][2])}
            IN  /\ PermittedBy(rules, w.namespace) = learned
                /\ Cardinality(UNION {{i} \X DOMAIN rules[i].ports : i \in DOMAIN rules}) = Cardinality(learned)
                /\ Len(reported) = Cardinality(reporting)
                /\ {PeerFlow(o, d) : o \in ToSet(reported)} =
                      {PeerFlow(question.events[run[1]], d) : run \in reporting}
=============================================================================
