----------------------------- MODULE Attribution -----------------------------
(***************************************************************************)
(* To which WorkloadNetworkPolicy the status synchroniser attributes an    *)
(* observed violation.  A cycle works with three views of the cluster that *)
(* were read one after the other: the policies listed at its start         *)
(* (snapshot), the owners of the NetworkPolicies listed next, and, for     *)
(* each observation, whatever the cache holds by then (live).              *)
(*                                                                         *)
(* A policy is the (targetRef, direction) it is for; snapshot and live map *)
(* the names of policies to None or {policy}.  objects maps the name of a  *)
(* data-plane object to None or {the name in its WorkloadNetworkPolicy     *)
(* controller reference}, with NoController for an object of someone else. *)
(***************************************************************************)
EXTENDS Naturals, FiniteSets

CONSTANTS Names, Unsupported

None == {}
NoController == "no controller"
NoReport == "no report"

(* The reasons for leaving an observation unattributed. *)
UnknownSubject == "unknown_subject"
NoTargetPolicy == "no_target_policy"
DuplicateTargetPolicy == "duplicate_target_policy"

(* The workload a violated policy selects: the source of egress and the     *)
(* destination of ingress, if it is of a supported kind.                   *)
ViolationSubject(obs) ==
    {w \in (IF obs.direction = "Egress" THEN {obs.source}
            ELSE IF obs.direction = "Ingress" THEN {obs.dest} ELSE {}) : w \notin Unsupported}

Targets(list, subject, direction) ==
    {n \in Names : [workload |-> subject, direction |-> direction] \in list[n]}

(* The entry of the ownership index for an object: the known policy in its   *)
(* controller reference, if there is one.                                  *)
FindWNPOwnerRef(object, snapshot) == {n \in Names : n \in object /\ snapshot[n] # None}

(* The policy behind the enforcing object the data plane named: an          *)
(* AuthorizationPolicy must be controlled by the policy of its name; a      *)
(* NetworkPolicy by any known policy, and one that does not exist stands   *)
(* for the policy of that name.                                            *)
ReportedOwningWNP(obs, snapshot, objects) ==
    LET reported == obs.reported
    IN  {n \in Names :
            /\ reported # NoReport
            /\ snapshot[n] # None
            /\ IF obs.provider = "istio" \/ objects[reported] = None
               THEN n = reported /\ (obs.provider = "istio" => objects[n] = {n})
               ELSE n \in FindWNPOwnerRef(objects[reported], snapshot)}

(* The outcome: attributed to a policy, or the reason why not. *)
To(n) == [policy |-> {n}, reason |-> ""]
Unattributed(reason) == [policy |-> {}, reason |-> reason]

(* Step 1 of the chain: the reported policy, if it is for the subject in    *)
(* this direction, unless the cache shows a competitor.                    *)
AttributeReportedPolicy(n, subject, direction, live) ==
    IF Cardinality(Targets(live, subject, direction)) >= 2
    THEN Unattributed(DuplicateTargetPolicy)
    ELSE To(n)

(* Step 2: the policy the target index holds, if the snapshot has it too. *)
LookupWNPByTarget(subject, direction, snapshot, live) ==
    LET found == Targets(live, subject, direction)
    IN  CASE found = {} -> Unattributed(NoTargetPolicy)
          [] Cardinality(found) >= 2 -> Unattributed(DuplicateTargetPolicy)
          [] Cardinality(found) = 1 ->
                IF \E n \in found : snapshot[n] # None
                THEN To(CHOOSE n \in found : TRUE)
                ELSE Unattributed(NoTargetPolicy)

\* Mutant: the reported policy need not target the subject.
ReportTrusted(obs, snapshot, objects, live) ==
    LET reported == ReportedOwningWNP(obs, snapshot, objects)
    IN  IF \E subject \in ViolationSubject(obs) : TRUE
        THEN LET subject == CHOOSE w \in ViolationSubject(obs) : TRUE
             IN  CASE Cardinality(Targets(snapshot, subject, obs.direction)) >= 2 ->
                         Unattributed(DuplicateTargetPolicy)
                   [] Cardinality(Targets(snapshot, subject, obs.direction)) < 2 ->
                         IF reported # {}
                         THEN AttributeReportedPolicy(CHOOSE n \in reported : TRUE,
                                                      subject, obs.direction, live)
                         ELSE LookupWNPByTarget(subject, obs.direction, snapshot, live)
        ELSE Unattributed(UnknownSubject)

(* The whole chain.  The reported policy counts only when it targets the    *)
(* subject of the violation.                                               *)
AttributeViolation(obs, snapshot, objects, live) ==
    IF ViolationSubject(obs) = {}
    THEN Unattributed(UnknownSubject)
    ELSE LET subject == CHOOSE w \in ViolationSubject(obs) : TRUE
             targeting == Targets(snapshot, subject, obs.direction)
             reported == ReportedOwningWNP(obs, snapshot, objects) \cap targeting
         IN  CASE Cardinality(targeting) >= 2 -> Unattributed(DuplicateTargetPolicy)
               [] Cardinality(targeting) < 2 ->
                     IF reported # {}
                     THEN AttributeReportedPolicy(CHOOSE n \in reported : TRUE,
                                                  subject, obs.direction, live)
                     ELSE LookupWNPByTarget(subject, obs.direction, snapshot, live)
==============================================================================
