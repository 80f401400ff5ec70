------------------------- MODULE AttributionDecision -------------------------
(***************************************************************************)
(* Questions about the policy an observation belongs to: every observation, *)
(* for every combination of two policies as listed, as cached later, and    *)
(* of their data-plane objects.                                            *)
(***************************************************************************)
EXTENDS Attribution, Decision

CONSTANTS Workloads, External

Directions == {"Ingress", "Egress"}
Lists == [Names -> {None} \cup {{[workload |-> w, direction |-> d]} : w \in Workloads, d \in Directions}]
Owners == [Names -> {None} \cup {{o} : o \in Names \cup {NoController}}]

(* The two policies are interchangeable: a report names the same one. *)
Observations ==
    {obs \in [provider : {"kubernetes", "istio"}, direction : Directions \cup {""},
              source : Workloads \cup {External}, dest : Workloads \cup {External},
              reported : {CHOOSE n \in Names : TRUE, NoReport}] : obs.source # obs.dest}

ViolationQuestions ==
    [about : {"violation"}, snapshot : Lists, live : Lists, objects : Owners, obs : Observations]

Correlate ==
    Decide("violation", {AttributeViolation(question.obs, question.snapshot,
                                            question.objects, question.live)})

-----------------------------------------------------------------------------
(* The policies of one view that are for what the observation violated. *)
For(list) ==
    {n \in Names : \E p \in list[n] :
        /\ p.direction = question.obs.direction
        /\ p.workload = IF p.direction = "Egress" THEN question.obs.source ELSE question.obs.dest}

(* A violation is never recorded on a policy for another workload or for    *)
(* the other direction, whatever object the data plane named and however    *)
(* policies moved during the cycle; and never while the cycle sees more     *)
(* than one policy for the target (attributeViolation).                    *)
OnlyToItsPolicy ==
    About("violation") =>
        \A outcome \in answer :
            outcome.policy # {} =>
                /\ outcome.policy \subseteq For(question.snapshot) \cup For(question.live)
                /\ Cardinality(For(question.snapshot)) < 2
                /\ Cardinality(For(question.live)) < 2
                /\ \A n \in outcome.policy : question.snapshot[n] # None

(* As long as one policy is for the target, at the start of the cycle and   *)
(* when the observation is looked at, the violation reaches it: neither a   *)
(* missing nor a misleading report loses it or sends it elsewhere           *)
(* (attributeViolation, reportedOwningWNP).                                *)
AlwaysToItsPolicy ==
    About("violation") =>
        \A n \in Names :
            For(question.snapshot) = {n} /\ For(question.live) = {n} => answer \subseteq {To(n)}

(* A violation reaches the policy it violates and no other. *)
GoesToItsPolicy == OnlyToItsPolicy /\ AlwaysToItsPolicy
=============================================================================
