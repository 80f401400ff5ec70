----------------------------- MODULE FlowDecision -----------------------------
(***************************************************************************)
(* Questions about the flow parsers: a connection between two endpoints of  *)
(* a small cluster, the reports that Hubble or Goldmane make of it, and     *)
(* what the scraper makes of each report.                                  *)
(*                                                                         *)
(* The cluster is built the way Kubernetes builds names: a Deployment web  *)
(* owns the ReplicaSet web-h1, which owns the pod web-h1-x; a StatefulSet  *)
(* owns its pods directly.  Names share prefixes on purpose.  Each thing is *)
(* a pod with the workload it really belongs to.                           *)
(***************************************************************************)
EXTENDS FlowParsers, Cluster, Decision, FiniteSets

Pod(namespace, generateName, rest, owner, hash) ==
    [namespace |-> namespace, name |-> generateName \o rest, generateName |-> generateName,
     owner |-> owner, hash |-> hash, account |-> "", ip |-> ""]

Thing(pod, kind, name) == [pod |-> pod, kind |-> kind, name |-> name]
ControlledBy(kind, name) == {[kind |-> kind, name |-> name]}

DeployedPod(namespace, name, hash, rest) ==
    Thing(Pod(namespace, name \o <<"-", hash, "-">>, <<rest>>,
              ControlledBy("ReplicaSet", name \o <<"-", hash>>), hash),
          "Deployment", name)

Web == DeployedPod("ns", <<"web">>, "h1", "x")
WebReplica == DeployedPod("ns", <<"web">>, "h1", "w")
WebFront == DeployedPod("ns", <<"web", "-", "front">>, "h2", "y")
WebElsewhere == DeployedPod("other", <<"web">>, "h1", "x")
WebSet == Thing(Pod("ns", <<"web", "-">>, <<"0">>, ControlledBy("StatefulSet", <<"web">>), ""),
                "StatefulSet", <<"web">>)
Batch == Thing(Pod("ns", <<"batch", "-">>, <<"k">>, ControlledBy("Job", <<"batch">>), ""),
               "Job", <<"batch">>)
Orphan == Thing(Pod("ns", <<"old", "-", "h3", "-">>, <<"z">>,
                    ControlledBy("ReplicaSet", <<"old", "-", "h3">>), "h3"),
                "ReplicaSet", <<"old", "-", "h3">>)
Solo == Thing([Pod("ns", NoName, <<"solo">>, {}, "") EXCEPT !.generateName = NoName], "Pod", <<"solo">>)

Things == {Web, WebReplica, WebFront, WebElsewhere, WebSet, Batch, Orphan, Solo}

(* Endpoints that are no pod: an address outside the cluster, a node, and   *)
(* what a report may say by mistake.                                       *)
FarEnd == Thing({}, "FarEnd", NoName)
Node == Thing({}, "Node", NoName)
Missing == Thing({}, "Missing", NoName)
Others == {FarEnd, Node, Missing}

IsPod(t) == t \notin Others

(* A ReplicaSet without a Deployment, whose pods may look as if it had one. *)
Abandoned(t) == t.kind = "ReplicaSet" /\ t.pod.owner = ControlledBy("ReplicaSet", t.name)

ASSUME ThingsAreBuilt == \A t \in Things : WellBuilt(t) \/ Abandoned(t)

WebPolicy(name) ==
    [namespace |-> "ns", name |-> name, kind |-> "Deployment", target |-> <<"web">>, direction |-> "Ingress"]

CacheOf(q) == Informed(q.present, q.late, q.policies)

Verdicts == {"allowed", "deniedAtSource", "deniedAtDest", "lost"}
Messages == {<<80, "TCP">>, <<53, "UDP">>, <<0, "TCP">>, <<80, "SCTP">>, <<65536, "TCP">>}

FlowQuestions(topic) ==
    UNION {{q \in [about : {topic}, present : {present},
                   late : {{}} \cup {{Workload(t)} : t \in {u \in present : IsKept(u)}},
                   source : present \cup Others, dest : present \cup Others,
                   verdict : Verdicts, message : Messages,
                   policies : {{}, {WebPolicy("p")}, {WebPolicy("p"), WebPolicy("q")}}] :
              /\ IsPod(q.source) \/ IsPod(q.dest)
              /\ q.message # <<80, "TCP">> => q.policies = {WebPolicy("p")} /\ q.late = {}
              /\ q.policies # {} => Web \in {q.source, q.dest}} :
           present \in {s \in SUBSET Things : Cardinality(s) \in 1 .. 3}}

-----------------------------------------------------------------------------
(* Hubble reports a connection where it leaves and where it arrives.  It    *)
(* names the workload, or only the pod; of a denied reply it says nothing.  *)

HubbleEndpoint(t, named) ==
    CASE t = Missing -> {}
      [] t \in {FarEnd, Node} -> {[namespace |-> "", pod |-> NoName, workloads |-> << >>]}
      [] OTHER -> {[namespace |-> t.pod.namespace, pod |-> t.pod.name,
                    workloads |-> IF named /\ t.kind # "Pod"
                                  THEN <<[kind |-> t.kind, name |-> t.name]>> ELSE << >>]}

HubbleFlow(q, direction, verdict, reason, named) ==
    [type |-> "flow", reply |-> IF verdict = "DROPPED" THEN "unset" ELSE "no",
     l4 |-> q.message[2], port |-> q.message[1],
     source |-> HubbleEndpoint(q.source, named), dest |-> HubbleEndpoint(q.dest, named),
     sourceIP |-> "sourceIP", destIP |-> "destIP",
     verdict |-> verdict, reason |-> reason, direction |-> direction]

HubbleReports(q) ==
    LET forwarded(direction) ==
            {HubbleFlow(q, direction, "FORWARDED", "none", named) : named \in BOOLEAN}
        dropped(direction, reason) ==
            {HubbleFlow(q, direction, "DROPPED", reason, named) : named \in BOOLEAN}
    IN  CASE q.verdict = "allowed" ->
                forwarded("EGRESS") \cup forwarded("INGRESS")
                \cup {[f EXCEPT !.reply = "yes"] : f \in forwarded("INGRESS")}
                \cup {[f EXCEPT !.type = "lost"] : f \in forwarded("INGRESS")}
          [] q.verdict = "deniedAtSource" -> dropped("EGRESS", "POLICY_DENIED")
          [] q.verdict = "deniedAtDest" -> forwarded("EGRESS") \cup dropped("INGRESS", "POLICY_DENY")
          [] q.verdict = "lost" ->
                dropped("EGRESS", "INVALID_PACKET") \cup
                dropped("TRAFFIC_DIRECTION_UNKNOWN", "POLICY_DENIED")

(* Goldmane aggregates the pods of a generate name, and both ends report    *)
(* what they decided; a connection refused at its source arrives nowhere.   *)
GoldmaneEndpoint(t) ==
    CASE t = FarEnd -> [kind |-> "Network", namespace |-> "", name |-> <<"pub">>]
      [] t = Node -> [kind |-> "HostEndpoint", namespace |-> "", name |-> <<"node">>]
      [] t = Missing -> [kind |-> "EndpointTypeUnspecified", namespace |-> "", name |-> NoName]
      [] OTHER -> [kind |-> "WorkloadEndpoint", namespace |-> t.pod.namespace,
                   name |-> IF t.pod.generateName = NoName THEN t.pod.name
                            ELSE t.pod.generateName \o <<"*">>]

PolicyHit(action, kind, policy, trigger) ==
    [action |-> action, kind |-> kind, policy |-> policy, trigger |-> trigger]

GoldmaneFlow(q, reporter, action, policies) ==
    [port |-> q.message[1], proto |-> q.message[2], reporter |-> reporter, action |-> action,
     source |-> GoldmaneEndpoint(q.source), dest |-> GoldmaneEndpoint(q.dest), policies |-> policies]

Reported == [namespace |-> "ns", name |-> "reported"]
Traces == {<< >>,
           <<PolicyHit("Allow", "NetworkPolicy", {[namespace |-> "ns", name |-> "allowing"]}, {}),
             PolicyHit("Deny", "CalicoNetworkPolicy", {[namespace |-> "ns", name |-> "foreign"]}, {}),
             PolicyHit("Deny", "EndOfTier", {}, {Reported})>>}

GoldmaneReports(q) ==
    CASE q.verdict = "allowed" ->
            {GoldmaneFlow(q, r, "Allow", << >>) : r \in {"Src", "Dst"}}
      [] q.verdict = "deniedAtSource" -> {GoldmaneFlow(q, "Src", "Deny", ps) : ps \in Traces}
      [] q.verdict = "deniedAtDest" ->
            {GoldmaneFlow(q, "Src", "Allow", << >>)}
            \cup {GoldmaneFlow(q, "Dst", "Deny", ps) : ps \in Traces}
      [] q.verdict = "lost" ->
            {GoldmaneFlow(q, r, "ActionUnspecified", << >>) : r \in {"Src", "Dst", "ReporterUnspecified"}}

-----------------------------------------------------------------------------
(* What the scraper makes of every report of the connection. *)

Made(report, outcome) == [report |-> report, outcome |-> outcome]

MadeOfHubble(q) ==
    UNION {{Made(r, o) : o \in ProcessCiliumFlow(r, CacheOf(q))} : r \in HubbleReports(q)}
MadeOfGoldmane(q) ==
    UNION {{Made(r, o) : o \in ProcessCalicoFlow(r, CacheOf(q))} : r \in GoldmaneReports(q)}

ParseHubble == Decide("hubble", MadeOfHubble(question))
ParseGoldmane == Decide("goldmane", MadeOfGoldmane(question))

-----------------------------------------------------------------------------
Learns == {a \in answer : a.outcome.outcome = "enqueue"}
Recorded == {a \in answer : a.outcome.outcome = "violation"}

(* Goldmane names a pod by its generate name; the pods of other workloads   *)
(* may begin with it.                                                      *)
Alone(t, q) ==
    IsPod(t) /\ t.pod.generateName # NoName =>
        \A u \in q.present :
            u.pod.namespace = t.pod.namespace /\ HasPrefix(u.pod.name, t.pod.generateName)
            => Root(u) = Root(t)
AloneBoth(q) == Alone(q.source, q) /\ Alone(q.dest, q)

(* A workload the scraper is to know: of a kind policies are for, and in    *)
(* the cache.                                                              *)
Known(t, q) == IsKept(t) /\ Workload(t) \notin q.late

Subject(direction, q) == IF direction = "Ingress" THEN q.dest ELSE q.source
SubjectRef(o) == IF o.direction = "Ingress" THEN o.dest ELSE o.source
Peer(direction, q) == IF direction = "Ingress" THEN q.source ELSE q.dest
PeerRef(o) == IF o.direction = "Ingress" THEN o.source ELSE o.dest

Same(ref, t) ==
    /\ IsPod(t)
    /\ ref.namespace = t.pod.namespace /\ ref.kind = t.kind /\ ref.name = t.name

(* Whatever is learned or recorded from a flow names the workloads that     *)
(* really talked, with the port, protocol and selector, through owner       *)
(* references, pod-template hashes and aggregated names; a peer that cannot *)
(* be resolved keeps what was reported and is never taken for another       *)
(* workload; and the policy is the reported one, or the only one that is   *)
(* for the subject in that direction (resolveParsedFlow, workload.Get,     *)
(* CalicoScraper.resolve).  For Goldmane, as long as no other workload has *)
(* a pod that begins with the same generate name.                          *)
NamesWhoTalked ==
    LET q == question
    IN  (About("hubble") \/ (About("goldmane") /\ AloneBoth(q)))
        => /\ \A a \in Learns :
                 a.outcome.source = Selected(q.source) /\ a.outcome.dest = Selected(q.dest)
           /\ \A a \in Learns \cup Recorded : <<a.outcome.port, a.outcome.proto>> = q.message
           /\ \A a \in Recorded :
                 LET o == a.outcome
                     t == Subject(o.direction, q)
                 IN  /\ SubjectRef(o) = Selected(t)
                     /\ IsSupported(PeerRef(o)) => Same(PeerRef(o), Peer(o.direction, q))
                     /\ o.policy = IF q.about = "goldmane" /\ a.report.policies # << >>
                                   THEN {Reported}
                                   ELSE NameOfOnly(PoliciesFor(t, o.direction, q.policies))

(* Both ends report a connection to Goldmane, yet an allowed one is learned *)
(* exactly once, a denied one is recorded by the end that denied it and by  *)
(* no other, and is never learned, although its source reports that it let  *)
(* it through (discardCalicoFlow).                                         *)
FlowCountedOnce ==
    LET q == question
        valid == q.message \in (1 .. MaxValidPort) \X {"TCP", "UDP"}
        peer(t) == IsPod(t) \/ t = FarEnd
        learned == {a.report : a \in Learns}
        at(reporter) == {a.report.reporter : a \in Recorded} = {reporter}
    IN  About("goldmane") /\ AloneBoth(q) =>
            /\ IF q.verdict = "allowed" /\ valid /\ Known(q.source, q) /\ Known(q.dest, q)
               THEN \E r \in learned : learned = {r}
               ELSE learned = {}
            /\ IF q.verdict = "deniedAtSource" /\ valid /\ Known(q.source, q) /\ peer(q.dest)
               THEN at("Src")
               ELSE IF q.verdict = "deniedAtDest" /\ valid /\ Known(q.dest, q) /\ peer(q.source)
               THEN at("Dst")
               ELSE Recorded = {}

(* A dropped flow is never learned, and is recorded exactly when a policy   *)
(* dropped it and the workload that policy selects is known, whoever the    *)
(* peer is; a reply, a lost event or a flow that went through never is      *)
(* (parseCiliumFlowResponse, ciliumViolationEndpoints).                    *)
DropsRecorded ==
    LET q == question
        valid == q.message \in (0 .. MaxValidPort) \X {"TCP", "UDP"}
        subject(r) == IF r.direction = "INGRESS" THEN q.dest ELSE q.source
    IN  About("hubble") =>
            /\ \A a \in Learns : a.report.verdict = "FORWARDED" /\ a.report.reply = "no"
            /\ Recorded = {a \in answer :
                              /\ a.report.verdict = "DROPPED" /\ q.verdict # "lost" /\ valid
                              /\ Known(subject(a.report), q)
                              /\ Missing \notin {q.source, q.dest}}
=============================================================================
