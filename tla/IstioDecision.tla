---------------------------- MODULE IstioDecision ----------------------------
(***************************************************************************)
(* Questions about what ztunnel logs: a connection from one pod to another, *)
(* the line logged of it, perhaps with something missing, and the pods the *)
(* cache holds when the record arrives, which need not be those that were  *)
(* there when it was logged.                                               *)
(***************************************************************************)
EXTENDS IstioEvents, Cluster, Decision

(* An end of a connection. *)
End(namespace, pod, owner, hash, account, ip, kind, name) ==
    [pod |-> [namespace |-> namespace, name |-> pod, generateName |-> NoName, owner |-> owner,
              hash |-> hash, account |-> account, ip |-> ip],
     kind |-> kind, name |-> name]

(* A pod of a Deployment; one of a StatefulSet; a Job; and a pod that got   *)
(* the address of the first, or shares its node's.                         *)
FrontPod == End("ns", <<"front", "-", "h1", "-", "x">>,
                {[kind |-> "ReplicaSet", name |-> <<"front", "-", "h1">>]}, "h1", "sa", "ip1",
                "Deployment", <<"front">>)
StorePod == End("ns", <<"store", "-", "0">>, {[kind |-> "StatefulSet", name |-> <<"store">>]}, "", "", "ip2",
                "StatefulSet", <<"store">>)
TaskPod == End("other", <<"task", "-", "k">>, {[kind |-> "Job", name |-> <<"task">>]}, "", "sa", "ip3",
               "Job", <<"task">>)
TwinPod == End("other", <<"twin", "-", "y">>, {[kind |-> "DaemonSet", name |-> <<"twin">>]}, "", "", "ip1",
               "DaemonSet", <<"twin">>)
Ends == {FrontPod, StorePod, TaskPod, TwinPod}

ASSUME EndsAreBuilt == \A e \in Ends : WellBuilt(e)

Account(e) == IF e.pod.account = "" THEN "default" ELSE e.pod.account
Principal(e) == <<e.pod.namespace, Account(e)>>
Identified(e) == [Root(e) EXCEPT !.identity = {Principal(e)}]

MeshMessages == {"connection complete", "dry-run: deny policy match",
                 "dry-run: no allow policies match", "dry-run: allow policy match",
                 "deny policy match", "no allow policies matched"}
Denies(message) == message \in {"dry-run: deny policy match", "deny policy match"}
Rejects(message) ==
    Denies(message) \/ message \in {"dry-run: no allow policies match", "no allow policies matched"}

DenyPolicy == [namespace |-> "ns", name |-> "deny"]

Fields == {"srcIdentity", "dstIdentity", "dst", "port", "scheme"}

(* The line of a connection, with some of its fields gone or garbled. *)
LineOf(q) ==
    LET Kept(field, value) == IF field \in q.gone THEN {} ELSE {value}
    IN  [message      |-> q.message,
         direction    |-> q.direction,
         srcIdentity  |-> Kept("srcIdentity", [spiffe |-> "scheme" \notin q.gone,
                                               principal |-> Principal(q.source)]),
         dstIdentity  |-> Kept("dstIdentity", Principal(q.dest)),
         dstName      |-> Kept("dst", q.dest.pod.name),
         dstNamespace |-> Kept("dst", q.dest.pod.namespace),
         dstAddr      |-> {[host |-> q.dest.pod.ip, port |-> Kept("port", q.port)]},
         policy       |-> IF Denies(q.message) THEN {DenyPolicy} ELSE {},
         workload     |-> Kept("dst", [namespace |-> IF "scheme" \in q.gone THEN "" ELSE q.dest.pod.namespace,
                                       name |-> q.dest.pod.name]),
         peer         |-> Kept("srcIdentity", [host |-> q.source.pod.ip, port |-> Kept("port", q.port)])]

(* Resource attributes name the forwarder, and may name a type of their own. *)
Resources == {NoAttributes, [NoAttributes EXCEPT !["type"] = {"learn"}]}

MeshCache(q) == Informed(q.cached, {}, q.policies)

StorePolicy(name, direction) ==
    [namespace |-> "ns", name |-> name, kind |-> "StatefulSet", target |-> <<"store">>, direction |-> direction]

MeshQuestions ==
    {q \in [about : {"mesh"}, source : Ends, dest : Ends, message : MeshMessages,
            direction : {"inbound", "outbound"}, port : {0, 80, 65536},
            gone : {{}} \cup {{f} : f \in Fields}, resource : Resources, cached : SUBSET Ends,
            policies : {{}, {StorePolicy("p", "Ingress"), StorePolicy("q", "Egress")},
                        {StorePolicy("p", "Ingress"), StorePolicy("q", "Ingress")}}] :
        /\ q.source # q.dest
        /\ Rejects(q.message) => q.direction = "inbound"
        /\ q.gone # {} => q.port = 80 /\ q.policies = {}}

Handle ==
    Decide("mesh", {[parsed |-> Parse(LineOf(question)), sent |-> ToOtel(LineOf(question)),
                     made |-> UNION {Export(question.resource, attrs, MeshCache(question)) :
                                     attrs \in ToOtel(LineOf(question))}]})

-----------------------------------------------------------------------------
(* A connection is learned exactly when the receiving end logged it in      *)
(* full and its workload is known, with the principal of the account its    *)
(* source runs as, and the selector and port of its destination            *)
(* (to_learn_event, enqueueLearningEvent).                                 *)
MeshLearns ==
    About("mesh") =>
        \A a \in answer :
            {m \in a.made : m.kind = "learn"} =
                IF /\ question.message = "connection complete" /\ question.direction = "inbound"
                   /\ question.gone = {} /\ question.port \in 1 .. MaxValidPort
                   /\ question.dest \in question.cached /\ IsKept(question.dest)
                THEN {[kind |-> "learn", port |-> question.port, action |-> "", policy |-> {},
                       source |-> [WorkloadRef("", "", NoName) EXCEPT !.identity = {Principal(question.source)}],
                       dest |-> Selected(question.dest)]}
                ELSE {}

(* No other pod in the cache has the address the connection came from. *)
SoleAtAddress(q) ==
    /\ q.source.pod.ip # ""
    /\ \A e \in q.cached : e.pod.ip = q.source.pod.ip => e = q.source

(* Each rejection, enforced or dry run, is recorded once and nothing else   *)
(* is.  While the pod that called is cached the record never names another  *)
(* workload as the source, even when pods share an address; the            *)
(* destination is its workload or left as reported; and the policy is the   *)
(* one ztunnel named, or the only one for that workload                    *)
(* (resolveSourceWorkload, Enrich).                                        *)
MeshRecords ==
    About("mesh") =>
        \A a \in answer :
            LET recorded == {m \in a.made : m.kind = "violation"}
                called == question.gone \cap {"srcIdentity", "port"} = {} /\ question.source \in question.cached
                reached == question.gone \cap {"dst", "scheme"} = {} /\ question.dest \in question.cached
            IN  /\ IF Rejects(question.message) THEN \E m \in recorded : recorded = {m} ELSE recorded = {}
                /\ \A m \in recorded :
                      /\ m.action = IF question.message \in {"deny policy match", "no allow policies matched"}
                                    THEN "protect" ELSE "monitor"
                      /\ question.source \in question.cached =>
                            m.source.kind = "" \/ m.source = Identified(question.source)
                      /\ called /\ SoleAtAddress(question) => m.source = Identified(question.source)
                      /\ IF reached THEN m.dest = Identified(question.dest) ELSE m.dest.kind = ""
                      /\ m.policy = IF Denies(question.message) THEN {DenyPolicy}
                                    ELSE IF reached
                                    THEN NameOfOnly(PoliciesFor(question.dest, "Ingress", question.policies))
                                    ELSE {}

(* The parser and the script of the log forwarder agree on every line of    *)
(* the supported schema (Parse and to_otel, as TestLuaParity asks of them). *)
ParsersAgree == About("mesh") => \A a \in answer : a.parsed = a.sent
=============================================================================
