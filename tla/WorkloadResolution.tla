------------------------- MODULE WorkloadResolution -------------------------
(***************************************************************************)
(* From a pod to the workload that owns it (internal/workload), as the     *)
(* scrapers see it: only through the cache, by names, owner references and *)
(* one label.                                                              *)
(*                                                                         *)
(* A name is a sequence of parts, the separator "-" being one of them, so  *)
(* that prefixes and suffixes mean what they mean to the code: web-h1 is   *)
(* <<"web", "-", "h1">>.  A cache is [pods, workloads, policies]:          *)
(*  - a pod is [namespace, name, generateName, owner, hash, account, ip],  *)
(*    owner its controller reference [kind, name] or {}, hash the value of *)
(*    the label pod-template-hash or "";                                   *)
(*  - a workload is [namespace, kind, name, selector];                     *)
(*  - a policy is [namespace, name, kind, target, direction].              *)
(* What a lookup may not find is a set with at most one element.           *)
(***************************************************************************)
EXTENDS Naturals, Sequences

Supported == {"Deployment", "StatefulSet", "DaemonSet"}

Unknown == {}     \* no identity, no selector
NoName == << >>

MaxValidPort == 65535  \* of every scraper

WorkloadRef(namespace, kind, name) ==
    [namespace |-> namespace, kind |-> kind, name |-> name,
     selector |-> Unknown, identity |-> Unknown]

IsSupported(ref) == ref.kind \in Supported

(* spiffeIdentity: the principal of a service account in the default trust  *)
(* domain.                                                                 *)
SpiffeIdentity(namespace, account) ==
    {<<namespace, IF account = "" THEN "default" ELSE account>>}

\* Mutant: the name of the Deployment ends at the first dash.
CutAtFirstDash(pod) ==
    IF pod.owner = {}
    THEN WorkloadRef(pod.namespace, "Pod", pod.name)
    ELSE LET ref == CHOOSE r \in pod.owner : TRUE
         IN  IF ref.kind = "ReplicaSet" /\ pod.hash # ""
             THEN WorkloadRef(pod.namespace, "Deployment", SubSeq(ref.name, 1, 1))
             ELSE WorkloadRef(pod.namespace, ref.kind, ref.name)

HasSuffix(name, suffix) ==
    Len(suffix) <= Len(name) /\ SubSeq(name, Len(name) - Len(suffix) + 1, Len(name)) = suffix

(* GetNameAndKind: a ReplicaSet whose name ends in the pod's template hash  *)
(* stands for the Deployment of the rest of its name.                      *)
GetNameAndKind(pod) ==
    IF pod.owner = {}
    THEN WorkloadRef(pod.namespace, "Pod", pod.name)
    ELSE LET ref == CHOOSE r \in pod.owner : TRUE
         IN  IF ref.kind = "ReplicaSet" /\ pod.hash # "" /\ HasSuffix(ref.name, <<pod.hash>>)
             THEN WorkloadRef(pod.namespace, "Deployment",
                              IF HasSuffix(ref.name, <<"-", pod.hash>>)
                              THEN SubSeq(ref.name, 1, Len(ref.name) - 2)
                              ELSE ref.name)
             ELSE WorkloadRef(pod.namespace, ref.kind, ref.name)

(* LookupPodSelectorForWorkload: the reference with the selector of the     *)
(* cached workload, unless it is not cached, not supported or selects all. *)
LookupPodSelectorForWorkload(ref, cache) ==
    {[ref EXCEPT !.selector = w.selector] :
        w \in {x \in cache.workloads :
                  /\ IsSupported(ref)
                  /\ x.namespace = ref.namespace /\ x.kind = ref.kind /\ x.name = ref.name
                  /\ x.selector # Unknown}}

(* Get: the workload of a named pod, with its selector if it is supported. *)
GetWorkload(namespace, name, cache) ==
    UNION {LET ref == GetNameAndKind(pod)
           IN  IF IsSupported(ref) THEN LookupPodSelectorForWorkload(ref, cache) ELSE {ref} :
               pod \in {p \in cache.pods : p.namespace = namespace /\ p.name = name}}

(* IndexWNPByTarget and the lookup over it: the policy of a workload and a  *)
(* direction, when there is exactly one.                                   *)
ResolveDenyingPolicy(ref, direction, cache) ==
    LET found == {p \in cache.policies :
                     /\ p.namespace = ref.namespace /\ p.direction = direction
                     /\ p.kind = ref.kind /\ p.target = ref.name}
    IN  {[namespace |-> p.namespace, name |-> p.name] : p \in {q \in found : found = {q}}}
=============================================================================
