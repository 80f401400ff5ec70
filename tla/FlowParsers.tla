----------------------------- MODULE FlowParsers -----------------------------
(***************************************************************************)
(* What the Cilium and Calico scrapers make of one flow (internal/scraper): *)
(* nothing, an error, a learning event or an observed violation.  Parsing   *)
(* looks at the flow only; resolving then replaces the names it carries by  *)
(* workloads from the cache.                                               *)
(*                                                                         *)
(* A Hubble flow is [type, reply, l4, port, source, dest, sourceIP, destIP, *)
(* verdict, reason, direction]; its endpoints are {} or                    *)
(* {[namespace, pod, workloads]}, workloads a sequence of [kind, name].    *)
(* A Goldmane flow is [port, proto, reporter, action, source, dest,         *)
(* policies]; its endpoints are [kind, namespace, name] and policies is the *)
(* sequence of hits [action, kind, policy, trigger].                       *)
(***************************************************************************)
EXTENDS WorkloadResolution

NoRef == WorkloadRef("", "", NoName)
ByAddress(ip) == WorkloadRef("", "", <<ip>>)

Result(outcome, source, dest, port, proto, direction, policy) ==
    [outcome |-> outcome, source |-> source, dest |-> dest, port |-> port,
     proto |-> proto, direction |-> direction, policy |-> policy]

(* The first of some places in a list. *)
First(places) == CHOOSE i \in places : \A j \in places : i <= j

Skipped == Result("skip", NoRef, NoRef, 0, "", "", {})
Failed == Result("error", NoRef, NoRef, 0, "", "", {})
Learned(source, dest, port, proto) == Result("enqueue", source, dest, port, proto, "", {})
Violated(source, dest, port, proto, direction, policy) ==
    Result("violation", source, dest, port, proto, direction, policy)

(***************************************************************************)
(* Cilium.                                                                 *)
(***************************************************************************)

(* ciliumWorkloadRef: the reference of an endpoint, if it has one, and      *)
(* whether a learner has to skip it.  A pod that Hubble could not resolve  *)
(* is kept for later.                                                      *)
Endpoint(error, ref, skip) == [error |-> error, ref |-> ref, skip |-> skip]

CiliumWorkloadRef(endpoint) ==
    IF endpoint = {} THEN Endpoint(TRUE, {}, FALSE)
    ELSE LET e == CHOOSE x \in endpoint : TRUE
         IN  CASE Len(e.workloads) > 1 -> Endpoint(TRUE, {}, FALSE)
               [] Len(e.workloads) = 1 ->
                     Endpoint(FALSE,
                              {WorkloadRef(e.namespace, e.workloads[1].kind, e.workloads[1].name)},
                              e.workloads[1].kind \notin Supported \cup {"Pod"})
               [] Len(e.workloads) = 0 /\ e.pod # NoName ->
                     Endpoint(FALSE, {WorkloadRef(e.namespace, "Pod", e.pod)}, FALSE)
               [] Len(e.workloads) = 0 /\ e.pod = NoName -> Endpoint(FALSE, {}, TRUE)

(* The policy type of a traffic direction Hubble reports. *)
PolicyType(direction) == IF direction = "EGRESS" THEN "Egress" ELSE "Ingress"

OrByAddress(ref, ip) == IF ref = {} THEN ByAddress(ip) ELSE CHOOSE r \in ref : TRUE

\* Mutant: every drop is a violation.
EveryDrop(flow, source, dest) ==
    CASE flow.direction = "TRAFFIC_DIRECTION_UNKNOWN" -> Failed
      [] flow.direction = "EGRESS" /\ source.skip -> Skipped
      [] flow.direction = "INGRESS" /\ dest.skip -> Skipped
      [] OTHER -> Violated(OrByAddress(source.ref, flow.sourceIP), OrByAddress(dest.ref, flow.destIP),
                           flow.port, flow.l4, PolicyType(flow.direction), {})

(* A dropped flow counts when a policy dropped it.  Its subject must be a   *)
(* workload; a peer without one is kept by its address.                    *)
CiliumViolation(flow, source, dest) ==
    CASE flow.reason \notin {"POLICY_DENIED", "POLICY_DENY"} -> Skipped
      [] flow.reason \in {"POLICY_DENIED", "POLICY_DENY"} ->
            CASE flow.direction = "TRAFFIC_DIRECTION_UNKNOWN" -> Failed
              [] flow.direction = "EGRESS" /\ source.skip -> Skipped
              [] flow.direction = "INGRESS" /\ dest.skip -> Skipped
              [] OTHER -> Violated(OrByAddress(source.ref, flow.sourceIP),
                                   OrByAddress(dest.ref, flow.destIP),
                                   flow.port, flow.l4, PolicyType(flow.direction), {})

(* parseCiliumFlowResponse, behind the dispatch of processFlow. *)
ParseCiliumFlow(flow) ==
    LET source == CiliumWorkloadRef(flow.source)
        dest == CiliumWorkloadRef(flow.dest)
    IN  IF flow.type # "flow" \/ flow.reply = "yes" \/ flow.l4 \notin {"TCP", "UDP", "none"}
        THEN Skipped
        ELSE IF flow.l4 = "none" \/ flow.port > MaxValidPort \/ source.error \/ dest.error
        THEN Failed
        ELSE IF flow.verdict = "DROPPED"
        THEN CiliumViolation(flow, source, dest)
        ELSE IF source.skip \/ dest.skip
        THEN Skipped
        ELSE Learned(CHOOSE r \in source.ref : TRUE, CHOOSE r \in dest.ref : TRUE, flow.port, flow.l4)

(* How a reference can be resolved: what became of the call and the         *)
(* reference it leaves.                                                    *)
Resolution(status, ref) == [status |-> status, ref |-> ref]

(* The resolve of the Cilium scraper.  A pod must belong to a supported     *)
(* workload; of a workload only the selector is missing.                   *)
ResolveCilium(ref, cache) ==
    LET found == IF ref.kind = "Pod"
                 THEN GetWorkload(ref.namespace, ref.name, cache)
                 ELSE LookupPodSelectorForWorkload(ref, cache)
    IN  IF found = {} THEN {Resolution("error", ref)}
        ELSE {IF IsSupported(r) THEN Resolution("ok", r) ELSE Resolution("skip", ref) : r \in found}

(***************************************************************************)
(* Calico.                                                                 *)
(***************************************************************************)
IsWorkloadEndpoint(e) == e.kind = "WorkloadEndpoint" /\ e.name # NoName /\ e.namespace # ""

IsViolationPeer(e) ==
    IF e.kind \in {"NetworkSet", "Network"} THEN e.name # NoName ELSE IsWorkloadEndpoint(e)

\* Mutant: allowed flows count whoever reports them.
BothReporters(key) ==
    \/ key.port \notin 1 .. MaxValidPort
    \/ key.action \notin {"Allow", "Deny"}
    \/ /\ key.action = "Allow"
       /\ ~IsWorkloadEndpoint(key.source) \/ ~IsWorkloadEndpoint(key.dest)
    \/ /\ key.action = "Deny"
       /\ CASE key.reporter = "Src" -> ~IsWorkloadEndpoint(key.source) \/ ~IsViolationPeer(key.dest)
            [] key.reporter = "Dst" -> ~IsWorkloadEndpoint(key.dest) \/ ~IsViolationPeer(key.source)
            [] OTHER -> TRUE

(* discardCalicoFlow: allowed flows count once, as the destination reports  *)
(* them; the subject of a denied one is the side that reports it.          *)
DiscardCalicoFlow(key) ==
    \/ key.port \notin 1 .. MaxValidPort
    \/ key.action \notin {"Allow", "Deny"}
    \/ /\ key.action = "Allow"
       /\ key.reporter # "Dst" \/ ~IsWorkloadEndpoint(key.source) \/ ~IsWorkloadEndpoint(key.dest)
    \/ /\ key.action = "Deny"
       /\ CASE key.reporter = "Src" -> ~IsWorkloadEndpoint(key.source) \/ ~IsViolationPeer(key.dest)
            [] key.reporter = "Dst" -> ~IsWorkloadEndpoint(key.dest) \/ ~IsViolationPeer(key.source)
            [] OTHER -> TRUE

(* getDenyingPolicy: the first hit that denied and names, or was triggered  *)
(* by, a NetworkPolicy.                                                    *)
PolicyOf(hit) ==
    IF hit.action # "Deny" THEN {}
    ELSE CASE hit.kind = "NetworkPolicy" -> hit.policy
           [] hit.kind = "EndOfTier" -> hit.trigger
           [] OTHER -> {}

GetDenyingPolicy(key) ==
    LET named == {i \in DOMAIN key.policies : PolicyOf(key.policies[i]) # {}}
    IN  IF named = {} THEN {} ELSE PolicyOf(key.policies[First(named)])

(* parseCalicoFlow; the protocol is reported in any case. *)
ParseCalicoFlow(key) ==
    LET Named(e) == WorkloadRef(e.namespace, "", e.name)
    IN  IF DiscardCalicoFlow(key) \/ key.proto \notin {"TCP", "UDP"}
        THEN Skipped
        ELSE IF key.action = "Deny"
        THEN Violated(Named(key.source), Named(key.dest), key.port, key.proto,
                      IF key.reporter = "Src" THEN "Egress" ELSE "Ingress", GetDenyingPolicy(key))
        ELSE Learned(Named(key.source), Named(key.dest), key.port, key.proto)

HasPrefix(name, prefix) ==
    Len(prefix) <= Len(name) /\ SubSeq(name, 1, Len(prefix)) = prefix

(* The pods a name of Goldmane may stand for: those created with that       *)
(* generate name, or whose name begins with it.                            *)
PodsOf(namespace, generateName, cache) ==
    {p \in cache.pods :
        /\ namespace = "" \/ p.namespace = namespace
        /\ p.generateName = generateName \/ HasPrefix(p.name, generateName)}

(* The resolve of the Calico scraper: the workload of the first such pod,   *)
(* in the order of the cache, which is any.                                *)
ResolveCalico(ref, cache) ==
    LET pods == PodsOf(ref.namespace, SubSeq(ref.name, 1, Len(ref.name) - 1), cache)
    IN  IF ~HasSuffix(ref.name, <<"-", "*">>) \/ Len(ref.name) = 2 \/ pods = {}
        THEN {Resolution("skip", ref)}
        ELSE UNION {LET found == GetWorkload(p.namespace, p.name, cache)
                    IN  IF found = {} THEN {Resolution("error", ref)}
                        ELSE {IF IsSupported(r) THEN Resolution("ok", r) ELSE Resolution("skip", ref) :
                                 r \in found} :
                    p \in pods}

(***************************************************************************)
(* Both.                                                                   *)
(***************************************************************************)
Unresolved(resolution) == IF resolution.status = "skip" THEN Skipped ELSE Failed

(* resolveViolationDenyingPolicy: a policy that was reported stays. *)
WithDenyingPolicy(obs, cache) ==
    LET subject == IF obs.direction = "Ingress" THEN obs.dest ELSE obs.source
    IN  IF obs.policy # {} THEN obs
        ELSE [obs EXCEPT !.policy = ResolveDenyingPolicy(subject, obs.direction, cache)]

(* Both ends of a learned flow must resolve; of a violation the subject     *)
(* must, and the peer keeps what was reported when it does not.            *)
Resolve(parsed, source, dest, cache) ==
    LET resolved == [parsed EXCEPT !.source = source.ref, !.dest = dest.ref]
        needed == CASE parsed.outcome = "enqueue" -> <<source, dest>>
                    [] parsed.outcome = "violation" ->
                          IF parsed.direction = "Ingress" THEN <<dest>> ELSE <<source>>
        bad == {i \in DOMAIN needed : needed[i].status # "ok"}
    IN  IF bad # {} THEN Unresolved(needed[First(bad)])
        ELSE IF parsed.outcome = "enqueue" THEN resolved
        ELSE WithDenyingPolicy(resolved, cache)

(* resolveParsedFlow, with the resolve of each scraper. *)
ProcessCiliumFlow(flow, cache) ==
    LET parsed == ParseCiliumFlow(flow)
    IN  IF parsed.outcome \notin {"enqueue", "violation"} THEN {parsed}
        ELSE {Resolve(parsed, source, dest, cache) :
                 source \in ResolveCilium(parsed.source, cache),
                 dest \in ResolveCilium(parsed.dest, cache)}

ProcessCalicoFlow(key, cache) ==
    LET parsed == ParseCalicoFlow(key)
    IN  IF parsed.outcome \notin {"enqueue", "violation"} THEN {parsed}
        ELSE {Resolve(parsed, source, dest, cache) :
                 source \in ResolveCalico(parsed.source, cache),
                 dest \in ResolveCalico(parsed.dest, cache)}
==============================================================================
