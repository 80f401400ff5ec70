----------------------------- MODULE IstioEvents -----------------------------
(***************************************************************************)
(* What becomes of one line that ztunnel logs: the OTLP attributes it       *)
(* travels in (the script of the log forwarder, or the parser in           *)
(* internal/ztunnel that is to replace it), and what the Istio scraper and *)
(* its enricher make of them.                                              *)
(*                                                                         *)
(* Anything that may be absent is a set with at most one element; an empty  *)
(* string counts as absent, as it does in attrMap.  A line is               *)
(* [message, direction, srcIdentity, dstIdentity, dstName, dstNamespace,    *)
(* dstAddr, policy, workload, peer]; an identity is [spiffe, principal],    *)
(* an address [host, port], port {} unless it is digits, and a namespaced   *)
(* name [namespace, name], its namespace "" when it has no slash.          *)
(*                                                                         *)
(* Lines are of the supported schema: CRI, JSON, and known fields that are *)
(* strings or missing.  On any other line Parse is an error and the script *)
(* makes strings of what it finds; that is left out.                       *)
(***************************************************************************)
EXTENDS WorkloadResolution

Attributes == {"type", "dstName", "dstNamespace", "dstPort", "srcIdentity",
               "dstNamespacedName", "policy", "srcAddr"}
NoAttributes == [k \in Attributes |-> {}]

(* extractPort: what follows the last colon of an address, if it is digits. *)
ExtractPort(address) == UNION {a.port : a \in address}

EventType(message) ==
    CASE message \in {"dry-run: deny policy match", "dry-run: no allow policies match"} -> "monitor"
      [] message \in {"deny policy match", "no allow policies matched"} -> "protect"
      [] message = "connection complete" -> "learn"
      [] OTHER -> ""

(* Parse, on the supported schema: the attributes of the event of a line,   *)
(* or none.  The two ends of a connection both log that it completed; only  *)
(* the receiving one counts.                                               *)
Parse(line) ==
    LET type == EventType(line.message)
    IN  IF type = "" \/ (type = "learn" /\ (line.direction # "inbound" \/ line.srcIdentity = {}
                                                                      \/ line.dstIdentity = {}))
        THEN {}
        ELSE IF type = "learn"
        THEN {[NoAttributes EXCEPT !["type"] = {type}, !["dstName"] = line.dstName,
                                   !["dstNamespace"] = line.dstNamespace,
                                   !["dstPort"] = ExtractPort(line.dstAddr),
                                   !["srcIdentity"] = line.srcIdentity]}
        ELSE {[NoAttributes EXCEPT !["type"] = {type}, !["dstNamespacedName"] = line.workload,
                                   !["policy"] = line.policy, !["srcAddr"] = line.peer]}

(* The script of the log forwarder: to_otel and its helpers. *)
PolicyEvent(type, line) ==
    {[NoAttributes EXCEPT !["type"] = {type}, !["dstNamespacedName"] = line.workload,
                          !["policy"] = line.policy, !["srcAddr"] = line.peer]}

LearnEvent(line) ==
    {[NoAttributes EXCEPT !["type"] = {"learn"}, !["dstName"] = l.dstName,
                          !["dstNamespace"] = l.dstNamespace,
                          !["dstPort"] = UNION {a.port : a \in l.dstAddr},
                          !["srcIdentity"] = l.srcIdentity] :
        l \in {x \in {line} : x.direction = "inbound" /\ {} \notin {x.srcIdentity, x.dstIdentity}}}

\* Mutant: any message that starts as a dry run is a rejection.
ToOtelByPrefix(line) ==
    CASE line.message \in {"dry-run: deny policy match", "dry-run: no allow policies match",
                           "dry-run: allow policy match"} -> PolicyEvent("monitor", line)
      [] line.message \in {"deny policy match", "no allow policies matched"} ->
            PolicyEvent("protect", line)
      [] line.message = "connection complete" -> LearnEvent(line)
      [] OTHER -> {}

ToOtel(line) ==
    CASE line.message \in {"dry-run: deny policy match", "dry-run: no allow policies match"} ->
            PolicyEvent("monitor", line)
      [] line.message \in {"deny policy match", "no allow policies matched"} ->
            PolicyEvent("protect", line)
      [] line.message = "connection complete" -> LearnEvent(line)
      [] OTHER -> {}

(* mergeAttrMaps: what a record says itself wins over its resource. *)
MergeAttrMaps(base, override) ==
    [k \in Attributes |-> IF override[k] # {} THEN override[k] ELSE base[k]]

(***************************************************************************)
(* enqueueLearningEvent: the source is known by its principal, the          *)
(* destination must be a pod of a supported workload.                      *)
(***************************************************************************)
\* Mutant: any destination is learned.
LearnAnyKind(attrs, cache) ==
    UNION {{[kind |-> "learn", source |-> [WorkloadRef("", "", NoName) EXCEPT !.identity = {i.principal}],
             dest |-> dest, port |-> port, action |-> "", policy |-> {}] :
                i \in {x \in attrs["srcIdentity"] : x.spiffe},
                dest \in GetWorkload(ns, name, cache)} :
           port \in attrs["dstPort"] \cap 1 .. MaxValidPort,
           ns \in attrs["dstNamespace"], name \in attrs["dstName"]}

EnqueueLearningEvent(attrs, cache) ==
    UNION {{[kind |-> "learn", source |-> [WorkloadRef("", "", NoName) EXCEPT !.identity = {i.principal}],
             dest |-> dest, port |-> port, action |-> "", policy |-> {}] :
                i \in {x \in attrs["srcIdentity"] : x.spiffe},
                dest \in {w \in GetWorkload(ns, name, cache) : IsSupported(w)}} :
           port \in attrs["dstPort"] \cap 1 .. MaxValidPort,
           ns \in attrs["dstNamespace"], name \in attrs["dstName"]}

(***************************************************************************)
(* policyEventToObservation and Enrich.                                    *)
(***************************************************************************)

(* A value with an absent attribute is an empty string to the code. *)
RawRef(namespacedName) ==
    IF namespacedName = {} THEN WorkloadRef("", "", NoName)
    ELSE LET n == CHOOSE x \in namespacedName : TRUE IN WorkloadRef(n.namespace, "", n.name)

PolicyEventToObservation(attrs) ==
    [kind   |-> "violation",
     source |-> WorkloadRef("", "", attrs["srcAddr"]),
     dest   |-> RawRef(attrs["dstNamespacedName"]),
     port   |-> 0,
     action |-> IF attrs["type"] = {"monitor"} THEN "monitor" ELSE "protect",
     policy |-> attrs["policy"]]

WorkloadRefFromPod(pod) ==
    [GetNameAndKind(pod) EXCEPT !.identity = SpiffeIdentity(pod.namespace, pod.account)]

(* resolveSourceWorkload over the index of pod addresses; a pod without an  *)
(* address is not indexed.                                                 *)
PodsByIP(ip, cache) == {p \in cache.pods : ip # "" /\ p.ip = ip}

\* Mutant: the first of several pods at an address is taken.
AnyAtAddress(address, cache) ==
    LET found == UNION {PodsByIP(a.host, cache) : a \in {x \in address : x.port # {}}}
    IN  IF found = {} THEN {} ELSE {WorkloadRefFromPod(CHOOSE p \in found : TRUE)}

ResolveSourceWorkload(address, cache) ==
    LET found == UNION {PodsByIP(a.host, cache) : a \in {x \in address : x.port # {}}}
    IN  {WorkloadRefFromPod(p) : p \in {q \in found : found = {q}}}

ResolveDestWorkload(dest, cache) ==
    {p \in cache.pods : /\ dest.namespace # "" /\ dest.name # NoName
                        /\ p.namespace = dest.namespace /\ p.name = dest.name}

OneOf(set, otherwise) == IF set = {} THEN otherwise ELSE CHOOSE x \in set : TRUE

Enrich(obs, cache) ==
    LET source == OneOf(ResolveSourceWorkload(obs.source.name, cache), obs.source)
        pod == ResolveDestWorkload(obs.dest, cache)
        dest == OneOf({WorkloadRefFromPod(p) : p \in pod}, obs.dest)
        policy == IF pod = {} \/ obs.policy # {} THEN obs.policy
                  ELSE ResolveDenyingPolicy(dest, "Ingress", cache)
    IN  [obs EXCEPT !.source = source, !.dest = dest, !.policy = policy]

(* Export, for one record: nothing, a learning event or an observation. *)
Export(resource, attributes, cache) ==
    LET attrs == MergeAttrMaps(resource, attributes)
    IN  CASE attrs["type"] = {"learn"} -> EnqueueLearningEvent(attrs, cache)
          [] attrs["type"] \in {{"monitor"}, {"protect"}} ->
                {Enrich(PolicyEventToObservation(attrs), cache)}
          [] OTHER -> {}
=============================================================================
