--------------------------- MODULE DecisionProofs ---------------------------
(***************************************************************************)
(* Decisions that are right whatever their size: the scope of a policy, in  *)
(* a namespace with any number of workloads, ReplicaSets and pods; the      *)
(* policy of a violation, among any number of policies; the rule learned    *)
(* into rules an operator edited, and the violations those rules clear,     *)
(* whatever the rules; and the security of every hop, whatever the flags    *)
(* point to.                                                               *)
(***************************************************************************)
EXTENDS ScopeDecision, AttributionDecision, RuleDecision, TLSDecision,
        FiniteSetTheorems, WellFoundedInduction, TLAPS

USE SMTT(30), ZenonT(20)

-----------------------------------------------------------------------------
(* The scope of a policy (checkSelectorScope). *)

(* What the API server guarantees: objects of one kind have different names, *)
(* and an owner reference has its three fields.                            *)
WellFormed(c) ==
    /\ \A t, u \in c.templates : t.target = u.target => t = u
    /\ \A t \in c.templates : t.target = [kind |-> t.target.kind, name |-> t.target.name]
    /\ \A r, s \in c.replicaSets : r.name = s.name => r = s
    /\ \A x \in c.pods \cup c.replicaSets :
          x.owner = [kind |-> x.owner.kind, name |-> x.owner.name, uid |-> x.owner.uid]

(* Every question about the scope, and its answer. *)
ScopeInit ==
    /\ question.about = "scope" /\ answer = {}
    /\ question.backend \in {"kubernetes", "istio"}
    /\ question.selector = [labels |-> question.selector.labels, exprs |-> question.selector.exprs]
    /\ WellFormed(question.cluster)

ScopeSpec == ScopeInit /\ [][Judge]_asked

RenderedSelector == Rendered(question.selector, question.backend)

\* The selector that is checked is the one that is enforced.
LEMMA EnforcedIsSelected ==
  ASSUME question.backend \in {"kubernetes", "istio"},
         question.selector = [labels |-> question.selector.labels, exprs |-> question.selector.exprs],
         NEW labels
  PROVE  Selects(RenderedSelector, labels) <=> Enforced(labels)
<1>1. CASE question.backend = "kubernetes"
  BY <1>1 DEF RenderedSelector, Rendered, Selects, Enforced
<1>2. CASE question.backend = "istio"
  <2>1. RenderedSelector.labels = question.selector.labels /\ RenderedSelector.exprs = {}
    BY <1>2 DEF RenderedSelector, Rendered
  <2>. QED BY <1>2, <2>1 DEF Selects, Enforced
<1>. QED BY <1>1, <1>2

\* The owner that is found is the target exactly when the owner references
\* lead there, UID by UID.
LEMMA OwnerIsAncestor ==
  ASSUME NEW c, c = question.cluster, WellFormed(c),
         NEW pod \in c.pods, NEW t \in c.templates, t.target = Target
  PROVE  PodOwnerMatchesTarget(PodWorkloadOwner(pod, c), Target, c.templates) <=> Descends(pod, t)
<1>. DEFINE viaRS == {rs \in c.replicaSets :
                         /\ pod.owner.kind = "ReplicaSet"
                         /\ rs.name = pod.owner.name
                         /\ rs.uid = pod.owner.uid
                         /\ rs.owner.kind = "Deployment"}
            ref == [kind |-> "Deployment", name |-> "a", uid |-> t.uid]
<1>1. \A owner : owner = [kind |-> owner.kind, name |-> owner.name, uid |-> owner.uid]
          => (PodOwnerMatchesTarget(owner, Target, c.templates) <=> owner = ref)
  BY DEF PodOwnerMatchesTarget, WellFormed, Target
<1>2. Descends(pod, t) <=>
         \/ pod.owner = ref
         \/ \E rs \in c.replicaSets :
               /\ pod.owner = [kind |-> "ReplicaSet", name |-> rs.name, uid |-> rs.uid]
               /\ rs.owner = ref
  BY DEF Descends, Target
<1>3. CASE viaRS = {}
  <2>1. PodWorkloadOwner(pod, c) = pod.owner
    BY <1>3 DEF PodWorkloadOwner
  <2>2. ~\E rs \in c.replicaSets :
            /\ pod.owner = [kind |-> "ReplicaSet", name |-> rs.name, uid |-> rs.uid]
            /\ rs.owner = ref
    <3>. SUFFICES ASSUME NEW rs \in c.replicaSets, rs.owner = ref,
                         pod.owner = [kind |-> "ReplicaSet", name |-> rs.name, uid |-> rs.uid]
                  PROVE  rs \in viaRS
      BY <1>3, ZenonT(30)
    <3>1. rs.owner.kind = "Deployment"
      OBVIOUS
    <3>2. pod.owner.kind = "ReplicaSet" /\ pod.owner.name = rs.name /\ pod.owner.uid = rs.uid
      OBVIOUS
    <3>. QED BY <3>1, <3>2
  <2>. QED BY <1>1, <1>2, <2>1, <2>2, ZenonT(30) DEF WellFormed
<1>4. CASE viaRS # {}
  <2>1. PICK rs \in viaRS : PodWorkloadOwner(pod, c) = rs.owner
    BY <1>4, ZenonT(30) DEF PodWorkloadOwner
  <2>2. pod.owner = [kind |-> "ReplicaSet", name |-> rs.name, uid |-> rs.uid]
    BY <2>1 DEF WellFormed
  <2>3. pod.owner # ref
    BY <2>2
  <2>4. \A s \in c.replicaSets : pod.owner = [kind |-> "ReplicaSet", name |-> s.name, uid |-> s.uid] => s = rs
    BY <2>1, <2>2 DEF WellFormed
  <2>5. Descends(pod, t) <=> rs.owner = ref
    BY <1>2, <2>1, <2>2, <2>3, <2>4, ZenonT(30)
  <2>. QED BY <1>1, <2>1, <2>5, ZenonT(30) DEF WellFormed
<1>. QED BY <1>3, <1>4

\* The template of the target is one, and the overlaps that are found are the
\* templates and pods of other workloads that are enforced.
LEMMA OverlapsAreEnforced ==
  ASSUME question.backend \in {"kubernetes", "istio"},
         question.selector = [labels |-> question.selector.labels, exprs |-> question.selector.exprs],
         WellFormed(question.cluster),
         NEW t \in question.cluster.templates, t.target = Target
  PROVE  /\ \A u \in question.cluster.templates : u.target = Target <=> u = t
         /\ TemplateOverlaps(RenderedSelector, Target, question.cluster.templates) = {}
               <=> \A u \in question.cluster.templates \ {t} : ~Enforced(u.labels)
         /\ PodSelectorOverlaps(RenderedSelector, Target, question.cluster) = {}
               <=> \A pod \in question.cluster.pods : Enforced(pod.labels) => Descends(pod, t)
<1>1. \A labels : Selects(RenderedSelector, labels) <=> Enforced(labels)
  BY EnforcedIsSelected
<1>2. \A u \in question.cluster.templates : u.target = Target <=> u = t
  BY DEF WellFormed
<1>3. TemplateOverlaps(RenderedSelector, Target, question.cluster.templates) = {}
         <=> \A u \in question.cluster.templates \ {t} : ~Enforced(u.labels)
  BY <1>1, <1>2 DEF TemplateOverlaps
<1>4. PodSelectorOverlaps(RenderedSelector, Target, question.cluster) = {}
         <=> \A pod \in question.cluster.pods : Enforced(pod.labels) => Descends(pod, t)
  BY <1>1, OwnerIsAncestor DEF PodSelectorOverlaps
<1>. QED BY <1>2, <1>3, <1>4

\* The verdict, whatever the namespace holds.
LEMMA ValidIffExclusive ==
  ASSUME question.backend \in {"kubernetes", "istio"},
         question.selector = [labels |-> question.selector.labels, exprs |-> question.selector.exprs],
         WellFormed(question.cluster)
  PROVE  CheckSelectorScope(RenderedSelector, Target, question.cluster) = ScopeValid <=> Exclusive
<1>. DEFINE c == question.cluster
            own == {t \in c.templates : t.target = Target}
<1>1. \A labels : Selects(RenderedSelector, labels) <=> Enforced(labels)
  BY EnforcedIsSelected
<1>2. CheckSelectorScope(RenderedSelector, Target, c) = ScopeValid <=>
         /\ own # {}
         /\ \A t \in own : Selects(RenderedSelector, t.labels)
         /\ TemplateOverlaps(RenderedSelector, Target, c.templates) = {}
         /\ PodSelectorOverlaps(RenderedSelector, Target, c) = {}
  BY DEF CheckSelectorScope, ScopeValid, Mismatch, Overlaps, TargetNotFound
<1>3. CASE own = {}
  BY <1>2, <1>3 DEF Exclusive
<1>4. CASE own # {}
  <2>1. PICK t \in c.templates : t.target = Target
    BY <1>4
  <2>2. /\ \A u \in c.templates : u.target = Target <=> u = t
        /\ TemplateOverlaps(RenderedSelector, Target, c.templates) = {}
              <=> \A u \in c.templates \ {t} : ~Enforced(u.labels)
        /\ PodSelectorOverlaps(RenderedSelector, Target, c) = {}
              <=> \A pod \in c.pods : Enforced(pod.labels) => Descends(pod, t)
    BY <2>1, OverlapsAreEnforced
  <2>3. Exclusive <=> /\ Enforced(t.labels)
                      /\ \A u \in c.templates \ {t} : ~Enforced(u.labels)
                      /\ \A pod \in c.pods : Enforced(pod.labels) => Descends(pod, t)
    BY <2>1, <2>2 DEF Exclusive
  <2>. QED BY <1>1, <1>2, <2>1, <2>2, <2>3
<1>. QED BY <1>3, <1>4

\* A policy is Ready exactly when what its data-plane object selects is the
\* target and nothing else, in every namespace the API server admits
\* (checkSelectorScope).
THEOREM ReadyMeansExclusive == ScopeSpec => []ReadyIffExclusive
<1>. DEFINE Inv == /\ question.backend \in {"kubernetes", "istio"}
                   /\ question.selector = [labels |-> question.selector.labels,
                                           exprs |-> question.selector.exprs]
                   /\ WellFormed(question.cluster)
                   /\ ReadyIffExclusive
<1>1. ScopeInit => Inv
  BY DEF ScopeInit, ReadyIffExclusive
<1>2. Inv /\ [Judge]_asked => Inv'
  <2>. SUFFICES ASSUME Inv, [Judge]_asked PROVE Inv'
    OBVIOUS
  <2>1. question' = question
    BY DEF Judge, Decide, asked
  <2>2. Exclusive' <=> Exclusive
    BY <2>1 DEF Exclusive, Enforced, Descends
  <2>3. CASE Judge
    <3>1. \A verdict \in answer' :
              verdict.scope = CheckSelectorScope(RenderedSelector, Target, question.cluster)
      BY <2>3 DEF Judge, Decide, RenderedSelector
    <3>. QED BY <2>1, <2>2, <3>1, ValidIffExclusive DEF ReadyIffExclusive, About
  <2>4. CASE UNCHANGED asked
    BY <2>1, <2>2, <2>4 DEF asked, ReadyIffExclusive, About
  <2>. QED BY <2>3, <2>4
<1>3. Inv => ReadyIffExclusive
  OBVIOUS
<1>. QED BY <1>1, <1>2, <1>3, PTL DEF ScopeSpec

\* The reason given for a policy that left its target says whether the object
\* it keeps enforces a template or pod of another workload, in every namespace
\* where the target is live (checkRetainedPolicyScope).
THEOREM KeptOverlapsFound == ScopeSpec => []KeptOverlapReported
<1>. DEFINE Inv == /\ question.backend \in {"kubernetes", "istio"}
                   /\ question.selector = [labels |-> question.selector.labels,
                                           exprs |-> question.selector.exprs]
                   /\ WellFormed(question.cluster)
                   /\ KeptOverlapReported
<1>1. ScopeInit => Inv
  BY DEF ScopeInit, KeptOverlapReported
<1>2. Inv /\ [Judge]_asked => Inv'
  <2>. SUFFICES ASSUME Inv, [Judge]_asked PROVE Inv'
    OBVIOUS
  <2>1. question' = question
    BY DEF Judge, Decide, asked
  <2>2. /\ \A labels : Enforced(labels)' <=> Enforced(labels)
        /\ \A pod, t : Descends(pod, t)' <=> Descends(pod, t)
    BY <2>1 DEF Enforced, Descends
  <2>3. CASE Judge
    <3>1. \A verdict \in answer' :
              verdict.kept = CheckRetainedPolicyScope({RenderedSelector}, Target, question.cluster)
      BY <2>3 DEF Judge, Decide, RenderedSelector
    <3>2. CheckRetainedPolicyScope({RenderedSelector}, Target, question.cluster) = Overlaps
             <=> \/ TemplateOverlaps(RenderedSelector, Target, question.cluster.templates) # {}
                 \/ PodSelectorOverlaps(RenderedSelector, Target, question.cluster) # {}
      BY DEF CheckRetainedPolicyScope, Overlaps, Mismatch
    <3>. QED BY <2>1, <2>2, <3>1, <3>2, OverlapsAreEnforced DEF KeptOverlapReported
  <2>4. CASE UNCHANGED asked
    BY <2>1, <2>2, <2>4 DEF asked, KeptOverlapReported, About
  <2>. QED BY <2>3, <2>4
<1>3. Inv => KeptOverlapReported
  OBVIOUS
<1>. QED BY <1>1, <1>2, <1>3, PTL DEF ScopeSpec

-----------------------------------------------------------------------------
(* The policy of a violation (attributeViolation). *)

(* A view of the policies. *)
IsView(list) ==
    \A n \in Names : list[n] = None \/ \E w, d : list[n] = {[workload |-> w, direction |-> d]}

(* There are finitely many policies, and none is for a workload of a kind   *)
(* that is not supported.                                                  *)
Asked ==
    /\ IsFiniteSet(Names)
    /\ IsView(question.snapshot) /\ IsView(question.live)
    /\ question.obs.direction \in Directions \cup {""}
    /\ \A n \in Names : \A p \in question.snapshot[n] :
          p.direction \in Directions /\ p.workload \notin Unsupported

(* Every question about an observation, and its answer. *)
ViolationInit == question.about = "violation" /\ answer = {} /\ Asked
ViolationSpec == ViolationInit /\ [][Correlate]_asked

TheSubject == CHOOSE w \in ViolationSubject(question.obs) : TRUE
TargetsIn(list) == Targets(list, TheSubject, question.obs.direction)

\* When there is a subject, the policies targeting it are those the violation
\* is for.
LEMMA TargetsAreFor ==
  ASSUME Asked, ViolationSubject(question.obs) # {}, NEW list, IsView(list)
  PROVE  TargetsIn(list) = For(list)
<1>1. /\ question.obs.direction \in Directions
      /\ TheSubject = IF question.obs.direction = "Egress" THEN question.obs.source ELSE question.obs.dest
  BY DEF Asked, ViolationSubject, TheSubject, Directions
<1>2. ASSUME NEW n \in Names
      PROVE  [workload |-> TheSubject, direction |-> question.obs.direction] \in list[n]
             <=> \E p \in list[n] : p.direction = question.obs.direction /\ p.workload = TheSubject
  BY DEF IsView, None
<1>. QED BY <1>1, <1>2 DEF For, TargetsIn, Targets

\* Sets of policies are finite.
LEMMA ForFinite ==
  ASSUME Asked, NEW list
  PROVE  IsFiniteSet(For(list)) /\ Cardinality(For(list)) \in Nat
<1>1. For(list) \subseteq Names
  BY DEF For
<1>2. IsFiniteSet(For(list))
  BY <1>1, FS_Subset DEF Asked
<1>. QED BY <1>2, FS_CardinalityType

Outcome == AttributeViolation(question.obs, question.snapshot, question.objects, question.live)

\* The policy an attributed violation gets.
LEMMA AttributedTo ==
  ASSUME Asked, Outcome.policy # {}
  PROVE  /\ Cardinality(For(question.snapshot)) < 2 /\ Cardinality(For(question.live)) < 2
         /\ \E n \in For(question.snapshot) \cup For(question.live) :
               Outcome = To(n) /\ question.snapshot[n] # None
<1>. DEFINE targeting == TargetsIn(question.snapshot)
            found == TargetsIn(question.live)
            reported == ReportedOwningWNP(question.obs, question.snapshot, question.objects) \cap targeting
<1>1. ViolationSubject(question.obs) # {}
  BY DEF Outcome, AttributeViolation, Unattributed
<1>2. targeting = For(question.snapshot) /\ found = For(question.live)
  BY <1>1, TargetsAreFor DEF Asked
<1>3. Cardinality(targeting) \in Nat /\ Cardinality(found) \in Nat /\ IsFiniteSet(found)
  BY <1>2, ForFinite
<1>4. Cardinality(targeting) < 2
  BY <1>1, <1>3 DEF Outcome, AttributeViolation, Unattributed, TargetsIn, TheSubject
<1>5. CASE reported # {}
  <2>. DEFINE n == CHOOSE m \in reported : TRUE
  <2>1. n \in reported
    BY <1>5
  <2>2. Outcome = AttributeReportedPolicy(n, TheSubject, question.obs.direction, question.live)
    BY <1>1, <1>3, <1>4, <1>5 DEF Outcome, AttributeViolation, TargetsIn, TheSubject
  <2>. HIDE DEF n
  <2>3. Outcome = To(n) /\ Cardinality(found) < 2
    BY <1>3, <2>2 DEF AttributeReportedPolicy, Unattributed, TargetsIn
  <2>4. question.snapshot[n] # None
    BY <2>1 DEF ReportedOwningWNP
  <2>. QED BY <1>2, <1>4, <2>1, <2>3, <2>4
<1>6. CASE reported = {}
  <2>1. Outcome = LookupWNPByTarget(TheSubject, question.obs.direction, question.snapshot, question.live)
    BY <1>1, <1>3, <1>4, <1>6 DEF Outcome, AttributeViolation, TargetsIn, TheSubject
  <2>2. Cardinality(found) < 2 /\ found # {}
    BY <1>3, <2>1 DEF LookupWNPByTarget, Unattributed, TargetsIn
  <2>3. PICK n : found = {n}
    <3>1. Cardinality(found) # 0
      BY <1>3, <2>2, FS_EmptySet
    <3>2. Cardinality(found) = 1
      BY <1>3, <2>2, <3>1
    <3>. QED BY <1>3, <3>2, FS_Singleton, ZenonT(30)
  <2>4. Cardinality(found) = 1
    BY <2>3, FS_Singleton, ZenonT(30)
  <2>5. Outcome = To(n) /\ question.snapshot[n] # None
    BY <2>1, <2>2, <2>3, <2>4 DEF LookupWNPByTarget, Unattributed, TargetsIn
  <2>. QED BY <1>2, <1>4, <2>2, <2>3, <2>5
<1>. QED BY <1>5, <1>6

\* The only policy there is gets the violation.
LEMMA ReachesTheOnlyPolicy ==
  ASSUME Asked, NEW n \in Names, For(question.snapshot) = {n}, For(question.live) = {n}
  PROVE  Outcome = To(n)
<1>. DEFINE targeting == TargetsIn(question.snapshot)
            found == TargetsIn(question.live)
            reported == ReportedOwningWNP(question.obs, question.snapshot, question.objects) \cap targeting
<1>1. ViolationSubject(question.obs) # {}
  <2>1. PICK p \in question.snapshot[n] :
            /\ p.direction = question.obs.direction
            /\ p.workload = IF p.direction = "Egress" THEN question.obs.source ELSE question.obs.dest
    BY DEF For
  <2>2. p.direction \in Directions /\ p.workload \notin Unsupported
    BY DEF Asked
  <2>. QED BY <2>1, <2>2 DEF ViolationSubject, Directions
<1>2. targeting = {n} /\ found = {n}
  BY <1>1, TargetsAreFor DEF Asked
<1>3. Cardinality(targeting) = 1 /\ Cardinality(found) = 1
  BY <1>2, FS_Singleton, ZenonT(30)
<1>4. question.snapshot[n] # None
  BY DEF For, None
<1>5. CASE reported # {}
  <2>1. reported = {n}
    BY <1>2, <1>5
  <2>2. Outcome = AttributeReportedPolicy(n, TheSubject, question.obs.direction, question.live)
    BY <1>1, <1>3, <2>1 DEF Outcome, AttributeViolation, TargetsIn, TheSubject
  <2>. QED BY <1>3, <2>2 DEF AttributeReportedPolicy, TargetsIn
<1>6. CASE reported = {}
  <2>1. Outcome = LookupWNPByTarget(TheSubject, question.obs.direction, question.snapshot, question.live)
    BY <1>1, <1>3, <1>6 DEF Outcome, AttributeViolation, TargetsIn, TheSubject
  <2>. QED BY <1>2, <1>3, <1>4, <2>1 DEF LookupWNPByTarget, TargetsIn
<1>. QED BY <1>5, <1>6

\* No violation is recorded on a policy of another workload or direction, or
\* while the target is contested; and the only policy of a target gets its
\* violations (attributeViolation).
THEOREM AttributionRight == ViolationSpec => []GoesToItsPolicy
<1>. DEFINE Inv == Asked /\ OnlyToItsPolicy /\ AlwaysToItsPolicy
<1>1. ViolationInit => Inv
  BY DEF ViolationInit, OnlyToItsPolicy, AlwaysToItsPolicy, About
<1>2. Inv /\ [Correlate]_asked => Inv'
  <2>. SUFFICES ASSUME Inv, [Correlate]_asked PROVE Inv'
    OBVIOUS
  <2>1. question' = question
    BY DEF Correlate, Decide, asked
  <2>2. Asked' /\ \A list : For(list)' = For(list)
    BY <2>1 DEF Asked, For, IsView
  <2>3. CASE Correlate
    <3>1. answer' = {Outcome}
      BY <2>3 DEF Correlate, Decide, Outcome
    <3>2. OnlyToItsPolicy'
      <4>1. For(question.snapshot)' = For(question.snapshot) /\ For(question.live)' = For(question.live)
        BY <2>1 DEF For
      <4>2. ASSUME Outcome.policy # {}
            PROVE  /\ Outcome.policy \subseteq For(question.snapshot) \cup For(question.live)
                   /\ Cardinality(For(question.snapshot)) < 2
                   /\ Cardinality(For(question.live)) < 2
                   /\ \A n \in Outcome.policy : question.snapshot[n] # None
        <5>1. /\ Cardinality(For(question.snapshot)) < 2 /\ Cardinality(For(question.live)) < 2
              /\ \E n \in For(question.snapshot) \cup For(question.live) :
                    Outcome = To(n) /\ question.snapshot[n] # None
          BY <4>2, AttributedTo
        <5>2. PICK n \in For(question.snapshot) \cup For(question.live) :
                  Outcome = To(n) /\ question.snapshot[n] # None
          BY <5>1
        <5>3. Outcome.policy = {n}
          BY <5>2 DEF To
        <5>. QED BY <5>1, <5>2, <5>3
      <4>. QED BY <2>1, <3>1, <4>1, <4>2 DEF OnlyToItsPolicy
    <3>3. AlwaysToItsPolicy'
      BY <2>1, <2>2, <3>1, ReachesTheOnlyPolicy DEF AlwaysToItsPolicy
    <3>. QED BY <2>2, <3>2, <3>3
  <2>4. CASE UNCHANGED asked
    BY <2>1, <2>2, <2>4 DEF asked, OnlyToItsPolicy, AlwaysToItsPolicy, About
  <2>. QED BY <2>3, <2>4
<1>3. Inv => GoesToItsPolicy
  BY DEF GoesToItsPolicy
<1>. QED BY <1>1, <1>2, <1>3, PTL DEF ViolationSpec

-----------------------------------------------------------------------------
(* The rules of a policy that an operator edits. *)

(* Rules of any number, with any peers and ports. *)
RulesOf(peers, ports) == [peers : Seq(peers), ports : Seq(ports)]
AreRules(rules) == \E peers, ports : rules \in Seq(RulesOf(peers, ports))

\* The first index with a property has it, and none before it does.
LEMMA LeastIsOne ==
  ASSUME NEW S \in SUBSET Nat, S # {}
  PROVE  Least(S) \in S /\ \A j \in S : Least(S) <= j
<1>. DEFINE R == {ss \in Nat \X Nat : ss[1] < ss[2]}
<1>1. IsWellFoundedOn(R, Nat)
  BY NatLessThanWellFounded DEF OpToRel
<1>2. PICK x \in S : \A y \in S : ~(<<y, x>> \in R)
  <2>. HIDE DEF R
  <2>. QED BY <1>1, WFMin, ZenonT(30)
<1>3. ASSUME NEW y \in S PROVE x <= y
  <2>1. x \in Nat /\ y \in Nat
    OBVIOUS
  <2>2. <<y, x>> \in R <=> y < x
    BY <2>1
  <2>. HIDE DEF R
  <2>. QED BY <1>2, <2>1, <2>2
<1>. QED BY <1>3, ZenonT(30) DEF Least

\* The peer built for a workload lets that workload through and no other.
LEMMA OnlyThePeer ==
  ASSUME NEW w \in Peers, NEW u \in Peers, NEW p, PolicyPeerEqual(p, BuildPeer(w))
  PROVE  PeerPermits(p, "ns1", u) <=> u = w
<1>1. p.ipBlock = {}
  BY DEF PolicyPeerEqual, BuildPeer
<1>2. p.namespaces \ {{}} = {{NamespaceName(w.namespace)}}
  BY DEF PolicyPeerEqual, BuildPeer, SelectorEqual, Formatted
<1>3. p.pods \ {{}} = {w.selector}
  BY DEF PolicyPeerEqual, BuildPeer, SelectorEqual, Formatted, Peers, WorkloadA, WorkloadB, WorkloadC
<1>4. p.namespaces # {}
  BY <1>2, ZenonT(30)
<1>5. Matches(p.namespaces, {NamespaceName(u.namespace)}) <=> u.namespace = w.namespace
  BY <1>2, ZenonT(30) DEF Matches, NamespaceName
<1>6. Matches(p.pods, PodLabels(u)) <=> w.selector \subseteq PodLabels(u)
  BY <1>3 DEF Matches
<1>7. PeerPermits(p, "ns1", u) <=> u.namespace = w.namespace /\ w.selector \subseteq PodLabels(u)
  BY <1>1, <1>4, <1>5, <1>6 DEF PeerPermits
<1>8. u.namespace = w.namespace /\ w.selector \subseteq PodLabels(u) <=> u = w
  BY DEF Peers, WorkloadA, WorkloadB, WorkloadC, PodLabels
<1>. QED BY <1>7, <1>8

\* The port built for a flow lets that port and protocol through and no other.
LEMMA OnlyThePort ==
  ASSUME NEW m \in PeerMessages, NEW n \in PeerMessages
  PROVE  PortPermits(PolicyPort(m[1], m[2]), n[1], n[2]) <=> n = m
<1>1. (CHOOSE x \in {m[1]} : TRUE) = m[1]
  OBVIOUS
<1>2. PortPermits(PolicyPort(m[1], m[2]), n[1], n[2]) <=> n[1] = m[1] /\ n[2] = m[2]
  BY <1>1 DEF PortPermits, PolicyPort
<1>. QED BY <1>2 DEF PeerMessages

\* What is appended is added.
LEMMA AppendedTo ==
  ASSUME NEW S, NEW s \in Seq(S), NEW x, NEW t, t = Append(s, x)
  PROVE  /\ DOMAIN t = DOMAIN s \cup {Len(s) + 1} /\ t[Len(s) + 1] = x
         /\ \A k \in DOMAIN s : t[k] = s[k]
         /\ t # << >>
OBVIOUS

\* Appending adds one element to the range.
LEMMA AppendedSet ==
  ASSUME NEW S, NEW s \in Seq(S), NEW x, NEW t, t = Append(s, x)
  PROVE  t # << >> /\ Range(t) = Range(s) \cup {x}
<1>1. /\ DOMAIN t = DOMAIN s \cup {Len(s) + 1} /\ t[Len(s) + 1] = x
      /\ \A k \in DOMAIN s : t[k] = s[k]
      /\ t # << >>
  BY AppendedTo
<1>. QED BY <1>1 DEF Range

\* What a rule permits of the flows, and a list of them.
LEMMA ListPermits ==
  ASSUME NEW rules, NEW home, NEW f
  PROVE  Permits(rules, home, f[1], f[2][1], f[2][2]) <=>
            \E i \in DOMAIN rules : RulePermits(rules[i], home, f[1], f[2][1], f[2][2])
BY DEF Permits, Range

Flow == Peers \X PeerMessages

\* A rule for one peer permits that peer on its ports.
LEMMA RuleOfPeer ==
  ASSUME NEW w \in Peers, NEW r, Len(r.peers) = 1, PolicyPeerEqual(r.peers[1], BuildPeer(w)),
         NEW PP, r.peers \in Seq(PP), NEW f \in Flow
  PROVE  RulePermits(r, "ns1", f[1], f[2][1], f[2][2]) <=>
            f[1] = w /\ (r.ports = << >> \/ \E p \in Range(r.ports) : PortPermits(p, f[2][1], f[2][2]))
<1>1. Range(r.peers) = {r.peers[1]} /\ r.peers # << >>
  BY DEF Range
<1>2. PeerPermits(r.peers[1], "ns1", f[1]) <=> f[1] = w
  BY OnlyThePeer DEF Flow
<1>. QED BY <1>1, <1>2 DEF RulePermits

\* upsertRuleByPeer adds the flow to what the rules permit, and nothing else.
LEMMA UpsertAdds ==
  ASSUME NEW rules, AreRules(rules), NEW w \in Peers, NEW m \in PeerMessages,
         \A i \in ForPeer(rules, BuildPeer(w)) : rules[i].ports # << >>,
         NEW f \in Flow
  PROVE  Permits(UpsertRuleByPeer(rules, BuildPeer(w), PolicyPort(m[1], m[2])), "ns1", f[1], f[2][1], f[2][2])
         <=> Permits(rules, "ns1", f[1], f[2][1], f[2][2]) \/ f = <<w, m>>
<1>. DEFINE peer == BuildPeer(w)
            port == PolicyPort(m[1], m[2])
            new == UpsertRuleByPeer(rules, peer, port)
            found == ForPeer(rules, peer)
            i == Least(found)
            On(r) == RulePermits(r, "ns1", f[1], f[2][1], f[2][2])
            PortOn(p) == PortPermits(p, f[2][1], f[2][2])
<1>0. PICK PP, QQ : rules \in Seq(RulesOf(PP, QQ))
  BY DEF AreRules
<1>1. f[1] \in Peers /\ f[2] \in PeerMessages /\ (f = <<w, m>> <=> f[1] = w /\ f[2] = m)
  BY DEF Flow
<1>2. PortOn(port) <=> f[2] = m
  BY <1>1, OnlyThePort
<1>3. SUFFICES (\E k \in DOMAIN new : On(new[k])) <=> (\E k \in DOMAIN rules : On(rules[k])) \/ f = <<w, m>>
  BY ListPermits, ZenonT(30)
<1>5. CASE found = {}
  <2>. DEFINE rule == [peers |-> <<peer>>, ports |-> <<port>>]
  <2>1. new = Append(rules, rule)
    BY <1>5 DEF UpsertRuleByPeer
  <2>2. On(rule) <=> f = <<w, m>>
    <3>1. /\ rule.peers = <<peer>> /\ rule.ports = <<port>> /\ rule.ports # << >>
          /\ Range(rule.ports) = {port}
      BY DEF Range
    <3>2. /\ rule.peers \in Seq({peer}) /\ Len(rule.peers) = 1
          /\ PolicyPeerEqual(rule.peers[1], BuildPeer(w))
      BY <3>1 DEF PolicyPeerEqual, SelectorEqual
    <3>. HIDE DEF rule, peer, port
    <3>3. On(rule) <=> f[1] = w /\ (rule.ports = << >> \/ \E p \in Range(rule.ports) : PortOn(p))
      BY <3>2, RuleOfPeer, ZenonT(30)
    <3>. QED BY <1>1, <1>2, <3>1, <3>3
  <2>3. /\ DOMAIN new = DOMAIN rules \cup {Len(rules) + 1} /\ new[Len(rules) + 1] = rule
        /\ \A k \in DOMAIN rules : new[k] = rules[k]
    BY <1>0, <2>1, AppendedTo
  <2>. HIDE DEF new, rule, On
  <2>. QED BY <2>2, <2>3
<1>6. CASE found # {}
  <2>1. i \in DOMAIN rules /\ i \in found
    <3>1. found \in SUBSET Nat /\ found \subseteq DOMAIN rules
      BY <1>0 DEF ForPeer
    <3>. HIDE DEF found
    <3>. QED BY <1>6, <3>1, LeastIsOne, ZenonT(30)
  <2>2. /\ Len(rules[i].peers) = 1 /\ PolicyPeerEqual(rules[i].peers[1], peer)
        /\ rules[i].ports # << >> /\ rules[i].peers \in Seq(PP) /\ rules[i].ports \in Seq(QQ)
    <3>. HIDE DEF i
    <3>1. /\ Len(rules[i].peers) = 1 /\ PolicyPeerEqual(rules[i].peers[1], peer)
          /\ rules[i].ports # << >>
      BY <2>1 DEF ForPeer
    <3>2. rules[i] \in RulesOf(PP, QQ)
      BY <1>0, <2>1
    <3>. QED BY <3>1, <3>2 DEF RulesOf
  <2>3. On(rules[i]) <=> f[1] = w /\ \E p \in Range(rules[i].ports) : PortOn(p)
    <3>. HIDE DEF i
    <3>. QED BY <2>2, RuleOfPeer, ZenonT(30)
  <2>4. CASE HasPort(rules[i], port)
    <3>1. new = rules
      BY <1>6, <2>4 DEF UpsertRuleByPeer
    <3>2. port \in Range(rules[i].ports)
      BY <2>4 DEF HasPort, PolicyPortEqual, Range
    <3>3. f = <<w, m>> => On(rules[i])
      BY <1>1, <1>2, <2>3, <3>2
    <3>. HIDE DEF new, On, i
    <3>. QED BY <2>1, <3>1, <3>3
  <2>5. CASE ~HasPort(rules[i], port)
    <3>. DEFINE rule == [rules[i] EXCEPT !.ports = Append(@, port)]
    <3>1. new = [rules EXCEPT ![i] = rule]
      BY <1>6, <2>5 DEF UpsertRuleByPeer
    <3>2. rule.peers = rules[i].peers /\ rule.ports = Append(rules[i].ports, port)
      <4>. HIDE DEF i
      <4>1. rules[i] \in RulesOf(PP, QQ)
        BY <1>0, <2>1
      <4>. QED BY <4>1 DEF RulesOf
    <3>3. rule.ports # << >> /\ Range(rule.ports) = Range(rules[i].ports) \cup {port}
      <4>. HIDE DEF rule, port, i
      <4>. QED BY <2>2, <3>2, AppendedSet, ZenonT(30)
    <3>4. On(rule) <=> f[1] = w /\ \E p \in Range(rule.ports) : PortOn(p)
      <4>. HIDE DEF rule, i
      <4>. QED BY <2>2, <3>2, <3>3, RuleOfPeer, ZenonT(30)
    <3>5. On(rule) <=> On(rules[i]) \/ f = <<w, m>>
      <4>. HIDE DEF rule, i, On, PortOn
      <4>. QED BY <1>1, <1>2, <2>3, <3>3, <3>4
    <3>6. DOMAIN new = DOMAIN rules /\ \A k \in DOMAIN rules : new[k] = IF k = i THEN rule ELSE rules[k]
      <4>. HIDE DEF rule, new, i
      <4>. QED BY <1>0, <2>1, <3>1
    <3>. HIDE DEF new, rule, On, i
    <3>. QED BY <2>1, <3>5, <3>6
  <2>. QED BY <2>4, <2>5
<1>. QED BY <1>5, <1>6

\* A flow that monitoring does not report is permitted.
LEMMA ContainedIsPermitted ==
  ASSUME NEW rules, AreRules(rules), NEW w \in Peers, NEW m \in PeerMessages,
         ContainsPeerPort(rules, BuildPeer(w), PolicyPort(m[1], m[2]))
  PROVE  Permits(rules, "ns1", w, m[1], m[2])
<1>. DEFINE port == PolicyPort(m[1], m[2])
            f == <<w, m>>
<1>0. PICK PP, QQ : rules \in Seq(RulesOf(PP, QQ))
  BY DEF AreRules
<1>1. PICK i \in DOMAIN rules : /\ Len(rules[i].peers) = 1 /\ PolicyPeerEqual(rules[i].peers[1], BuildPeer(w))
                                /\ HasPort(rules[i], port)
  BY DEF ContainsPeerPort, ForPeer
<1>2. port \in Range(rules[i].ports) /\ rules[i].peers \in Seq(PP)
  <2>1. rules[i] \in RulesOf(PP, QQ)
    BY <1>0, <1>1
  <2>2. port \in Range(rules[i].ports)
    BY <1>1 DEF HasPort, PolicyPortEqual, Range
  <2>. QED BY <2>1, <2>2 DEF RulesOf
<1>3. PortPermits(port, m[1], m[2])
  BY OnlyThePort
<1>4. f \in Flow /\ f[1] = w /\ f[2] = m
  BY DEF Flow
<1>. HIDE DEF port, f
<1>5. RulePermits(rules[i], "ns1", f[1], f[2][1], f[2][2])
  BY <1>1, <1>2, <1>3, <1>4, RuleOfPeer, ZenonT(30)
<1>. QED BY <1>1, <1>4, <1>5 DEF Permits, Range

\* A list of one element equals a list of one element.
LEMMA OneTaken ==
  ASSUME NEW A, NEW left \in Seq(A), Len(left) = 1, NEW B, NEW right \in Seq(B), NEW equal,
         EqualUnordered(left, right, equal)
  PROVE  Len(right) = 1 /\ <<1, 1>> \in equal
<1>. DEFINE Rest(g, i) == LET matches == {j \in g[i - 1] : <<i, j>> \in equal}
                          IN  IF matches = {} THEN g[i - 1] ELSE g[i - 1] \ {Least(matches)}
            Body(g) == [i \in 0 .. Len(left) |-> IF i = 0 THEN DOMAIN right ELSE Rest(g, i)]
            free == CHOOSE g : g = Body(g)
<1>1. Len(left) = Len(right) /\ free[Len(left)] = {}
  BY ZenonT(30) DEF EqualUnordered
<1>2. DOMAIN right = {1} /\ Len(right) = 1
  <2>. HIDE DEF free
  <2>1. Len(right) = 1
    BY <1>1, ZenonT(30)
  <2>. QED BY <2>1
<1>3. SUFFICES ASSUME <<1, 1>> \notin equal PROVE FALSE
  BY <1>2
<1>4. ASSUME NEW g, g[0] = {1} PROVE Rest(g, 1) = {1}
  <2>1. g[1 - 1] = {1}
    BY <1>4
  <2>2. {j \in g[1 - 1] : <<1, j>> \in equal} = {}
    BY <1>3, <2>1
  <2>. QED BY <2>1, <2>2
<1>. HIDE DEF Rest
<1>5. 0 .. Len(left) = {0, 1}
  OBVIOUS
<1>6. \E g : g = Body(g)
  <2>1. PICK g : g = [i \in 0 .. Len(left) |-> {1}]
    BY ZenonT(30)
  <2>2. g[0] = {1}
    BY <2>1, <1>5
  <2>3. Rest(g, 1) = {1}
    BY <1>4, <2>2
  <2>4. \A i \in 0 .. Len(left) : (IF i = 0 THEN DOMAIN right ELSE Rest(g, i)) = {1}
    BY <1>2, <1>5, <2>3
  <2>5. Body(g) = [i \in 0 .. Len(left) |-> {1}]
    BY <2>4
  <2>. QED BY <2>1, <2>5, ZenonT(30)
<1>7. free = Body(free)
  BY <1>6
<1>. HIDE DEF free
<1>8. free[0] = {1} /\ free[1] = Rest(free, 1)
  BY <1>2, <1>5, <1>7
<1>9. free[1] = {1}
  BY <1>4, <1>8
<1>. QED BY <1>1, <1>9, ZenonT(30)

\* A rule that equals the one of a violation permits its flow, whichever pod
\* of the namespace it was.
LEMMA EqualRulePermits ==
  ASSUME NEW namespace, NEW v, NEW PP, NEW QQ, NEW r \in RulesOf(PP, QQ), RuleEqual(ToRule(namespace, v), r),
         NEW home, NEW w, w.namespace = namespace
  PROVE  RulePermits(r, home, w, v.proto, v.port)
<1>1. PICK peer, port : /\ peer = [namespaces |-> {{NamespaceName(namespace)}}, pods |-> {}, ipBlock |-> {}]
                        /\ port = PolicyPort(v.proto, v.port)
  BY ZenonT(30)
<1>2. PICK peers, ports : peers = <<peer>> /\ ports = <<port>>
  BY ZenonT(30)
<1>3. ToRule(namespace, v).peers = peers /\ ToRule(namespace, v).ports = ports
  BY <1>1, <1>2, ZenonT(30) DEF ToRule
<1>4. /\ peers \in Seq({peer}) /\ Len(peers) = 1 /\ peers[1] = peer
      /\ ports \in Seq({port}) /\ Len(ports) = 1 /\ ports[1] = port
  BY <1>2
<1>5. r.peers \in Seq(PP) /\ r.ports \in Seq(QQ)
  BY DEF RulesOf
<1>6. PeersEqual(peers, r.peers) /\ PortsEqual(ports, r.ports)
  BY <1>3 DEF RuleEqual
<1>7. Len(r.peers) = 1 /\ PolicyPeerEqual(peer, r.peers[1])
  <2>. DEFINE equal == {p \in (DOMAIN peers) \X (DOMAIN r.peers) : PolicyPeerEqual(peers[p[1]], r.peers[p[2]])}
  <2>1. EqualUnordered(peers, r.peers, equal)
    BY <1>6 DEF PeersEqual
  <2>2. Len(r.peers) = 1 /\ <<1, 1>> \in equal
    <3>. HIDE DEF equal
    <3>. QED BY <1>4, <1>5, <2>1, OneTaken
  <2>. QED BY <1>4, <2>2
<1>8. Len(r.ports) = 1 /\ r.ports[1] = port
  <2>. DEFINE equal == {p \in (DOMAIN ports) \X (DOMAIN r.ports) : PolicyPortEqual(ports[p[1]], r.ports[p[2]])}
  <2>1. EqualUnordered(ports, r.ports, equal)
    BY <1>6 DEF PortsEqual
  <2>2. Len(r.ports) = 1 /\ <<1, 1>> \in equal
    <3>. HIDE DEF equal
    <3>. QED BY <1>4, <1>5, <2>1, OneTaken
  <2>. QED BY <1>4, <2>2 DEF PolicyPortEqual
<1>9. PeerPermits(r.peers[1], home, w)
  <2>1. PICK found : found = r.peers[1]
    OBVIOUS
  <2>2. PolicyPeerEqual(peer, found)
    BY <1>7, <2>1
  <2>3. /\ found.namespaces \ {{}} = {{NamespaceName(namespace)}}
        /\ found.pods \ {{}} = {}
        /\ found.ipBlock = {}
    BY <1>1, <2>2 DEF PolicyPeerEqual, SelectorEqual, Formatted
  <2>4. found.namespaces # {} /\ Matches(found.namespaces, {NamespaceName(w.namespace)})
    BY <2>3, ZenonT(30) DEF Matches
  <2>5. Matches(found.pods, PodLabels(w))
    BY <2>3 DEF Matches
  <2>. QED BY <2>1, <2>3, <2>4, <2>5 DEF PeerPermits
<1>10. PortPermits(port, v.proto, v.port)
  BY <1>1 DEF PortPermits, PolicyPort
<1>11. r.peers[1] \in Range(r.peers) /\ r.ports[1] \in Range(r.ports)
  BY <1>5, <1>7, <1>8 DEF Range
<1>. QED BY <1>8, <1>9, <1>10, <1>11 DEF RulePermits

\* What clears a violation permits its flow for every pod of the namespace.
LEMMA ClearedPermits ==
  ASSUME NEW rules, AreRules(rules), NEW namespace, NEW v, NEW home, NEW w, w.namespace = namespace,
         NEW i \in DOMAIN rules, RuleEqual(ToRule(namespace, v), rules[i])
  PROVE  Permits(rules, home, w, v.proto, v.port)
<1>1. PICK PP, QQ : rules \in Seq(RulesOf(PP, QQ))
  BY DEF AreRules
<1>2. PICK r : r = rules[i]
  OBVIOUS
<1>3. r \in RulesOf(PP, QQ) /\ r \in Range(rules)
  BY <1>1, <1>2 DEF Range
<1>4. RulePermits(r, home, w, v.proto, v.port)
  BY <1>2, <1>3, EqualRulePermits
<1>. QED BY <1>3, <1>4 DEF Permits

\* And lists of one element are equal when their elements are.
LEMMA OneTakes ==
  ASSUME NEW A, NEW left \in Seq(A), Len(left) = 1, NEW B, NEW right \in Seq(B), Len(right) = 1,
         NEW equal, <<1, 1>> \in equal
  PROVE  EqualUnordered(left, right, equal)
<1>. DEFINE Rest(g, i) == LET matches == {j \in g[i - 1] : <<i, j>> \in equal}
                          IN  IF matches = {} THEN g[i - 1] ELSE g[i - 1] \ {Least(matches)}
            Body(g) == [i \in 0 .. Len(left) |-> IF i = 0 THEN DOMAIN right ELSE Rest(g, i)]
            free == CHOOSE g : g = Body(g)
<1>1. DOMAIN right = {1} /\ 0 .. Len(left) = {0, 1}
  OBVIOUS
<1>2. ASSUME NEW g, g[0] = {1} PROVE Rest(g, 1) = {}
  <2>1. g[1 - 1] = {1}
    BY <1>2
  <2>2. {j \in g[1 - 1] : <<1, j>> \in equal} = {1}
    BY <2>1
  <2>3. Least({1}) = 1
    BY DEF Least
  <2>. QED BY <2>1, <2>2, <2>3
<1>. HIDE DEF Rest
<1>3. \E g : g = Body(g)
  <2>1. PICK g : g = [i \in 0 .. Len(left) |-> IF i = 0 THEN {1} ELSE {}]
    BY ZenonT(30)
  <2>2. g[0] = {1} /\ g[1] = {}
    BY <2>1, <1>1
  <2>3. Rest(g, 1) = {}
    BY <1>2, <2>2
  <2>4. \A i \in 0 .. Len(left) : (IF i = 0 THEN DOMAIN right ELSE Rest(g, i)) = IF i = 0 THEN {1} ELSE {}
    BY <1>1, <2>3
  <2>5. Body(g) = [i \in 0 .. Len(left) |-> IF i = 0 THEN {1} ELSE {}]
    BY <2>4
  <2>. QED BY <2>1, <2>5, ZenonT(30)
<1>4. free = Body(free)
  BY <1>3
<1>5. Len(left) = Len(right) /\ free[Len(left)] = {}
  <2>. HIDE DEF free
  <2>1. free[0] = {1} /\ free[1] = Rest(free, 1)
    BY <1>1, <1>4
  <2>. QED BY <1>2, <2>1
<1>. USE DEF Rest
<1>. QED BY <1>5, ZenonT(30) DEF EqualUnordered

\* A rule for the namespace and the port of a violation equals the one made
\* from it, whether it leaves the pods out or selects all of them.
LEMMA SameRuleEquals ==
  ASSUME NEW namespace, NEW v, NEW r, NEW pods \in {{}, {{}}},
         r.peers = <<[namespaces |-> {{NamespaceName(namespace)}}, pods |-> pods, ipBlock |-> {}]>>,
         r.ports = <<[proto |-> {v.proto}, port |-> {v.port}, endPort |-> {}]>>
  PROVE  RuleEqual(ToRule(namespace, v), r)
<1>1. PICK peer, found, port :
         /\ peer = [namespaces |-> {{NamespaceName(namespace)}}, pods |-> {}, ipBlock |-> {}]
         /\ found = [namespaces |-> {{NamespaceName(namespace)}}, pods |-> pods, ipBlock |-> {}]
         /\ port = [proto |-> {v.proto}, port |-> {v.port}, endPort |-> {}]
  BY ZenonT(30)
<1>2. PICK peers, ports, theirs : peers = <<peer>> /\ ports = <<port>> /\ theirs = <<found>>
  BY ZenonT(30)
<1>3. /\ ToRule(namespace, v).peers = peers /\ ToRule(namespace, v).ports = ports
      /\ r.peers = theirs /\ r.ports = ports
  BY <1>1, <1>2, ZenonT(30) DEF ToRule, PolicyPort
<1>4. /\ peers \in Seq({peer}) /\ Len(peers) = 1 /\ peers[1] = peer
      /\ theirs \in Seq({found}) /\ Len(theirs) = 1 /\ theirs[1] = found
      /\ ports \in Seq({port}) /\ Len(ports) = 1 /\ ports[1] = port
  BY <1>2
<1>5. PolicyPeerEqual(peer, found)
  BY <1>1 DEF PolicyPeerEqual, SelectorEqual, Formatted
<1>6. PeersEqual(peers, theirs)
  <2>. DEFINE equal == {p \in (DOMAIN peers) \X (DOMAIN theirs) : PolicyPeerEqual(peers[p[1]], theirs[p[2]])}
  <2>1. <<1, 1>> \in equal
    BY <1>4, <1>5
  <2>2. EqualUnordered(peers, theirs, equal)
    <3>. HIDE DEF equal
    <3>. QED BY <1>4, <2>1, OneTakes
  <2>. QED BY <2>2 DEF PeersEqual
<1>7. PortsEqual(ports, ports)
  <2>. DEFINE equal == {p \in (DOMAIN ports) \X (DOMAIN ports) : PolicyPortEqual(ports[p[1]], ports[p[2]])}
  <2>1. <<1, 1>> \in equal
    BY <1>4 DEF PolicyPortEqual
  <2>2. EqualUnordered(ports, ports, equal)
    <3>. HIDE DEF equal
    <3>. QED BY <1>4, <2>1, OneTakes
  <2>. QED BY <2>2 DEF PortsEqual
<1>. QED BY <1>3, <1>6, <1>7 DEF RuleEqual

(* Rules of a mesh, of any number, with any principals and ports. *)
MeshRulesOf(principals, ports) == [from : Seq(Seq(principals)), to : Seq(Seq(ports))]
AreMeshRules(rules) == \E principals, ports : rules \in Seq(MeshRulesOf(principals, ports))

(* Every rule of this principal alone names its ports. *)
NamesPorts(rules, principal) ==
    \A r \in Range(rules) : r.from = <<<<principal>>>> => r.to # << >> /\ << >> \notin Range(r.to)

\* What clears a violation is what permits its flow.
LEMMA ClearedIsPermitted ==
  ASSUME NEW rules, NEW v \in MeshFlows
  PROVE  ClearedIstio(rules, v) <=> \E r \in Range(rules) : MeshPermits(r, v)
<1>1. ASSUME NEW r
      PROVE  MeshPermits(r, v) <=> IstioRuleAllowsSource(r, v.identity) /\ IstioRuleAllowsPort(r, v.port)
  <2>1. (\E principals \in Range(r.from) : principals = << >> \/ Range(principals) \cap {"*", v.identity} # {})
        <=> \E i \in DOMAIN r.from : r.from[i] = << >> \/ {"*", v.identity} \cap Range(r.from[i]) # {}
    <3>. DEFINE Admits(principals) == principals = << >> \/ Range(principals) \cap {"*", v.identity} # {}
    <3>1. \A principals : Admits(principals) <=>
                              principals = << >> \/ {"*", v.identity} \cap Range(principals) # {}
      OBVIOUS
    <3>2. (\E principals \in Range(r.from) : Admits(principals)) <=> \E i \in DOMAIN r.from : Admits(r.from[i])
      <4>. HIDE DEF Admits
      <4>. QED BY DEF Range
    <3>. QED BY <3>1, <3>2, ZenonT(30)
  <2>2. ASSUME NEW range
        PROVE  IstioPortMatches(range, v.port) <=> Covers(range, v.port)
    <3>1. CASE range = << >>
      BY <3>1 DEF IstioPortMatches, ParseIstioPortRange, Covers
    <3>2. CASE range # << >>
      <4>1. PICK bounds : bounds = <<range[1], range[Len(range)]>>
        BY ZenonT(30)
      <4>2. bounds[1] = range[1] /\ bounds[2] = range[Len(range)]
        BY <4>1
      <4>3. ParseIstioPortRange(range) = {bounds}
        BY <3>2, <4>1 DEF ParseIstioPortRange
      <4>. QED BY <3>2, <4>2, <4>3 DEF IstioPortMatches, Covers
    <3>. QED BY <3>1, <3>2
  <2>3. ASSUME NEW ports
        PROVE  (\E range \in Range(ports) : Covers(range, v.port))
               <=> \E k \in DOMAIN ports : IstioPortMatches(ports[k], v.port)
    BY <2>2 DEF Range
  <2>. DEFINE Open(ports) == ports = << >> \/ \E k \in DOMAIN ports : IstioPortMatches(ports[k], v.port)
  <2>4. (\E ports \in Range(r.to) :
            ports = << >> \/ \E range \in Range(ports) : Covers(range, v.port))
        <=> \E ports \in Range(r.to) : Open(ports)
    BY <2>3
  <2>5. (\E ports \in Range(r.to) : Open(ports)) <=> \E i \in DOMAIN r.to : Open(r.to[i])
    <3>. HIDE DEF Open
    <3>. QED BY DEF Range
  <2>6. IstioRuleAllowsPort(r, v.port) <=> r.to = << >> \/ \E i \in DOMAIN r.to : Open(r.to[i])
    BY DEF IstioRuleAllowsPort
  <2>7. IstioRuleAllowsPort(r, v.port) <=>
           r.to = << >> \/ \E ports \in Range(r.to) :
               ports = << >> \/ \E range \in Range(ports) : Covers(range, v.port)
    <3>. HIDE DEF Open
    <3>. QED BY <2>4, <2>5, <2>6
  <2>. QED BY <2>1, <2>7, ZenonT(30) DEF MeshPermits, IstioRuleAllowsSource
<1>. QED BY <1>1 DEF ClearedIstio, Range

\* A rule for one principal permits that principal on its ports.
LEMMA RuleOfPrincipal ==
  ASSUME NEW principal \in {"p", "q"}, NEW r, r.from = <<<<principal>>>>, r.to # << >>, NEW v \in MeshFlows
  PROVE  MeshPermits(r, v) <=>
            /\ v.identity = principal
            /\ \E ports \in Range(r.to) : ports = << >> \/ \E range \in Range(ports) : Covers(range, v.port)
<1>. DEFINE one == <<principal>>
<1>1. Range(one) = {principal} /\ one # << >>
  BY DEF Range
<1>2. r.from # << >> /\ Range(r.from) = {one}
  BY DEF Range
<1>3. Range(one) \cap {"*", v.identity} # {} <=> v.identity = principal
  BY <1>1
<1>. HIDE DEF one
<1>. QED BY <1>1, <1>2, <1>3 DEF MeshPermits

\* A single port covers itself.
LEMMA CoversItself ==
  ASSUME NEW port \in Nat, NEW other \in Nat, NEW range, range = <<port>>
  PROVE  Covers(range, other) <=> other = port
<1>1. range # << >> /\ range[1] = port /\ Len(range) = 1
  OBVIOUS
<1>. QED BY <1>1 DEF Covers

\* upsertIstioLearnedRule adds the principal and port, and nothing else.
LEMMA MeshUpsertAdds ==
  ASSUME NEW rules, AreMeshRules(rules), NEW principal \in {"p", "q"}, NEW port \in {80, 85, 90},
         NamesPorts(rules, principal), NEW v \in MeshFlows
  PROVE  (\E r \in Range(UpsertIstioLearnedRule(rules, principal, <<port>>)) : MeshPermits(r, v))
         <=> (\E r \in Range(rules) : MeshPermits(r, v)) \/ v = [identity |-> principal, port |-> port]
<1>. DEFINE new == UpsertIstioLearnedRule(rules, principal, <<port>>)
            found == {k \in DOMAIN rules : rules[k].from = <<<<principal>>>>}
            i == Least(found)
            On(r) == MeshPermits(r, v)
            Open(ports) == ports = << >> \/ \E range \in Range(ports) : Covers(range, v.port)
            added == v = [identity |-> principal, port |-> port]
<1>0. PICK PP, QQ : rules \in Seq(MeshRulesOf(PP, QQ))
  BY DEF AreMeshRules
<1>1. /\ v.port \in Nat /\ port \in Nat
      /\ added <=> v.identity = principal /\ v.port = port
  <2>1. v = [identity |-> v.identity, port |-> v.port] /\ v.port \in {80, 85, 90}
    BY DEF MeshFlows
  <2>. QED BY <2>1
<1>2. PICK range : range = <<port>>
  BY ZenonT(30)
<1>3. Covers(range, v.port) <=> v.port = port
  BY <1>1, <1>2, CoversItself
<1>4. PICK list : list = <<range>>
  BY ZenonT(30)
<1>5. Open(list) <=> v.port = port
  <2>1. Range(list) = {range} /\ list # << >>
    BY <1>4 DEF Range
  <2>. QED BY <1>3, <2>1
<1>6. SUFFICES (\E k \in DOMAIN new : On(new[k])) <=> (\E k \in DOMAIN rules : On(rules[k])) \/ added
  <2>1. \A s : (\E r \in Range(s) : On(r)) <=> \E k \in DOMAIN s : On(s[k])
    <3>. HIDE DEF On
    <3>. QED BY DEF Range
  <2>. HIDE DEF On
  <2>2. (\E r \in Range(new) : On(r)) <=> (\E r \in Range(rules) : On(r)) \/ added
    <3>. HIDE DEF new, added
    <3>. QED BY <1>6, <2>1
  <2>. QED BY <2>2 DEF On
<1>7. CASE found = {}
  <2>1. PICK rule : rule = [from |-> <<<<principal>>>>, to |-> <<list>>]
    BY ZenonT(30)
  <2>2. new = Append(rules, rule)
    BY <1>2, <1>4, <1>7, <2>1, ZenonT(30) DEF UpsertIstioLearnedRule
  <2>3. On(rule) <=> added
    <3>1. rule.from = <<<<principal>>>> /\ rule.to = <<list>>
      BY <2>1
    <3>2. rule.to # << >> /\ Range(rule.to) = {list}
      BY <3>1 DEF Range
    <3>3. On(rule) <=> v.identity = principal /\ \E ports \in Range(rule.to) : Open(ports)
      BY <3>1, <3>2, RuleOfPrincipal
    <3>. HIDE DEF Open, On, added
    <3>. QED BY <1>1, <1>5, <3>2, <3>3
  <2>4. /\ DOMAIN new = DOMAIN rules \cup {Len(rules) + 1} /\ new[Len(rules) + 1] = rule
        /\ \A k \in DOMAIN rules : new[k] = rules[k]
    <3>. HIDE DEF new
    <3>. QED BY ONLY <1>0, <2>2, AppendedTo
  <2>. HIDE DEF new, On, added
  <2>. QED BY <2>3, <2>4
<1>8. CASE found # {}
  <2>1. i \in DOMAIN rules /\ i \in found
    <3>1. found \in SUBSET Nat /\ found \subseteq DOMAIN rules
      BY <1>0
    <3>. HIDE DEF found
    <3>. QED BY <1>8, <3>1, LeastIsOne, ZenonT(30)
  <2>2. PICK old : old = rules[i]
    BY ZenonT(30)
  <2>3. /\ old.from = <<<<principal>>>> /\ old.to # << >> /\ << >> \notin Range(old.to)
        /\ old \in MeshRulesOf(PP, QQ)
    <3>1. old.from = <<<<principal>>>>
      BY <2>1, <2>2, ZenonT(30)
    <3>2. old \in Range(rules)
      <4>. HIDE DEF i
      <4>. QED BY <2>1, <2>2 DEF Range
    <3>3. old \in MeshRulesOf(PP, QQ)
      <4>. HIDE DEF i
      <4>. QED BY <1>0, <2>1, <2>2
    <3>. QED BY <3>1, <3>2, <3>3 DEF NamesPorts
  <2>4. On(old) <=> v.identity = principal /\ \E ports \in Range(old.to) : Open(ports)
    BY <2>3, RuleOfPrincipal
  <2>5. CASE \E k \in DOMAIN old.to : range \in Range(old.to[k])
    <3>1. new = rules
      BY <1>2, <1>8, <2>2, <2>3, <2>5, ZenonT(30) DEF UpsertIstioLearnedRule
    <3>2. PICK k \in DOMAIN old.to : range \in Range(old.to[k])
      BY <2>5
    <3>3. old.to[k] \in Range(old.to)
      BY <3>2 DEF Range
    <3>4. v.port = port => Open(old.to[k])
      BY <1>3, <3>2
    <3>5. added => On(old)
      <4>. HIDE DEF Open, On, added
      <4>. QED BY <1>1, <2>4, <3>3, <3>4
    <3>. HIDE DEF new, On, i, added
    <3>. QED BY <2>1, <2>2, <3>1, <3>5
  <2>6. CASE ~\E k \in DOMAIN old.to : range \in Range(old.to[k])
    <3>0. old.to \in Seq(Seq(QQ))
      BY <2>3 DEF MeshRulesOf
    <3>1. 1 \in DOMAIN old.to /\ old.to[1] \in Seq(QQ) /\ old.to[1] # << >>
      <4>1. 1 \in DOMAIN old.to
        BY <2>3, <3>0
      <4>2. old.to[1] \in Range(old.to)
        BY <4>1 DEF Range
      <4>. QED BY <2>3, <3>0, <4>1, <4>2
    <3>2. PICK ports : ports = Append(old.to[1], range)
      BY ZenonT(30)
    <3>3. ports # << >> /\ Range(ports) = Range(old.to[1]) \cup {range}
      <4>1. PICK first : first = old.to[1]
        OBVIOUS
      <4>2. first \in Seq(QQ) /\ ports = Append(first, range)
        BY <3>1, <3>2, <4>1
      <4>3. ports # << >> /\ Range(ports) = Range(first) \cup {range}
        BY ONLY <4>2, AppendedSet, ZenonT(30)
      <4>. QED BY <4>1, <4>3
    <3>4. Open(ports) <=> Open(old.to[1]) \/ v.port = port
      BY <1>3, <3>1, <3>3
    <3>5. PICK to : to = [old.to EXCEPT ![1] = ports]
      BY ZenonT(30)
    <3>6. DOMAIN to = DOMAIN old.to /\ \A k \in DOMAIN old.to : to[k] = IF k = 1 THEN ports ELSE old.to[k]
      BY <3>0, <3>1, <3>5
    <3>7. (\E x \in Range(to) : Open(x)) <=> (\E x \in Range(old.to) : Open(x)) \/ v.port = port
      <4>. HIDE DEF Open
      <4>. QED BY <3>1, <3>4, <3>6 DEF Range
    <3>8. PICK rule : rule = [old EXCEPT !.to = to]
      BY ZenonT(30)
    <3>9. rule.from = <<<<principal>>>> /\ rule.to = to /\ to # << >>
      BY <2>3, <3>1, <3>6, <3>8 DEF MeshRulesOf
    <3>10. On(rule) <=> v.identity = principal /\ \E x \in Range(to) : Open(x)
      BY <3>9, RuleOfPrincipal
    <3>11. On(rule) <=> On(old) \/ added
      <4>. HIDE DEF Open, On, added
      <4>. QED BY <1>1, <2>4, <3>7, <3>10
    <3>12. new = [rules EXCEPT ![i] = rule]
      <4>1. new = [rules EXCEPT ![i].to[1] = Append(@, <<port>>)]
        BY <1>2, <1>8, <2>2, <2>3, <2>6, ZenonT(30) DEF UpsertIstioLearnedRule
      <4>. HIDE DEF new, i
      <4>. QED BY <1>0, <1>2, <2>1, <2>2, <3>2, <3>5, <3>8, <4>1
    <3>13. DOMAIN new = DOMAIN rules /\ \A k \in DOMAIN rules : new[k] = IF k = i THEN rule ELSE rules[k]
      <4>. HIDE DEF new, i
      <4>. QED BY <1>0, <2>1, <3>12
    <3>. HIDE DEF new, On, i, added
    <3>. QED BY <2>1, <2>2, <3>11, <3>13
  <2>. QED BY <2>5, <2>6
<1>. QED BY <1>7, <1>8

-----------------------------------------------------------------------------
(* Every question about edited rules, and its answer. *)
RuleAsked ==
    \/ /\ question.about = "edit" /\ AreRules(question.rules)
       /\ question.peer \in Peers /\ question.message \in PeerMessages
    \/ /\ question.about = "meshEdit" /\ AreMeshRules(question.rules)
       /\ question.principal \in {"p", "q"} /\ question.port \in {80, 85, 90}
    \/ /\ question.about = "clear" /\ AreRules(question.rules)
       /\ question.direction \in PeerDirections

RuleSpec == RuleAsked /\ answer = {} /\ [][LearnIntoEdited \/ LearnIntoEditedMesh \/ Clear]_asked

Peered == BuildPeer(question.peer)
Messaged == PolicyPort(question.message[1], question.message[2])
Template == [ingress |-> IF question.direction = "Ingress" THEN question.rules ELSE << >>,
             egress |-> IF question.direction = "Egress" THEN question.rules ELSE << >>]

RuleAnswered ==
    \/ answer = {}
    \/ question.about = "edit" /\ \E a : /\ answer = {a}
                                       /\ a.rules = UpsertRuleByPeer(question.rules, Peered, Messaged)
                                       /\ a.contained = ContainsPeerPort(question.rules, Peered, Messaged)
    \/ question.about = "meshEdit" /\
          \E a : /\ answer = {a}
                /\ a.rules = UpsertIstioLearnedRule(question.rules, question.principal, <<question.port>>)
                /\ a.cleared = {v \in MeshFlows : ClearedIstio(question.rules, v)}
    \/ question.about = "clear" /\ answer = {ClearedKubernetes(Template, question.violation)}

\* Each step gives the answer the code gives.
LEMMA RulesAnswered == RuleSpec => [](RuleAsked /\ RuleAnswered)
<1>1. RuleAsked /\ answer = {} => RuleAsked /\ RuleAnswered
  BY DEF RuleAnswered
<1>2. ASSUME RuleAsked, RuleAnswered, [LearnIntoEdited \/ LearnIntoEditedMesh \/ Clear]_asked
      PROVE  RuleAsked' /\ RuleAnswered'
  <2>1. question' = question
    BY <1>2 DEF LearnIntoEdited, LearnIntoEditedMesh, Clear, Decide, asked
  <2>2. RuleAsked'
    BY <1>2, <2>1 DEF RuleAsked
  <2>3. CASE UNCHANGED asked
    BY <1>2, <2>2, <2>3 DEF RuleAnswered, Peered, Messaged, Template, asked
  <2>4. CASE LearnIntoEdited
    <3>1. /\ question.about = "edit"
          /\ answer' = {[rules |-> UpsertRuleByPeer(question.rules, Peered, Messaged),
                         contained |-> ContainsPeerPort(question.rules, Peered, Messaged)]}
      BY <2>4 DEF LearnIntoEdited, Decide, Peered, Messaged
    <3>2. Peered' = Peered /\ Messaged' = Messaged
      BY <2>1 DEF Peered, Messaged
    <3>. QED BY <2>1, <2>2, <3>1, <3>2 DEF RuleAnswered
  <2>5. CASE LearnIntoEditedMesh
    <3>1. /\ question.about = "meshEdit"
          /\ answer' = {[rules |-> UpsertIstioLearnedRule(question.rules, question.principal, <<question.port>>),
                         cleared |-> {v \in MeshFlows : ClearedIstio(question.rules, v)}]}
      BY <2>5 DEF LearnIntoEditedMesh, Decide
    <3>. QED BY <2>1, <2>2, <3>1 DEF RuleAnswered
  <2>6. CASE Clear
    <3>1. question.about = "clear" /\ answer' = {ClearedKubernetes(Template, question.violation)}
      BY <2>6 DEF Clear, Decide, Template
    <3>2. Template' = Template
      BY <2>1 DEF Template
    <3>. QED BY <2>1, <2>2, <3>1, <3>2 DEF RuleAnswered
  <2>. QED BY <1>2, <2>3, <2>4, <2>5, <2>6
<1>. QED BY <1>1, <1>2, PTL DEF RuleSpec

\* Into rules of any number and shape, learning adds the flow it saw and
\* nothing else; and what monitoring finds in them is permitted.
THEOREM LearningAddsTheFlow == RuleSpec => []LearningAddsOnlyTheFlow
<1>1. ASSUME RuleAsked, RuleAnswered PROVE LearningAddsOnlyTheFlow
  <2>1. CASE answer = {} \/ question.about = "clear"
    BY <2>1 DEF LearningAddsOnlyTheFlow, About
  <2>2. CASE answer # {} /\ question.about = "edit"
    <3>1. PICK a : /\ answer = {a}
                   /\ a.rules = UpsertRuleByPeer(question.rules, Peered, Messaged)
                   /\ a.contained = ContainsPeerPort(question.rules, Peered, Messaged)
      BY <1>1, <2>2 DEF RuleAnswered
    <3>2. PICK rules, w, m : rules = question.rules /\ w = question.peer /\ m = question.message
      OBVIOUS
    <3>3. AreRules(rules) /\ w \in Peers /\ m \in PeerMessages
      BY <1>1, <2>2, <3>2 DEF RuleAsked
    <3>4. a.contained => <<w, m>> \in PermittedBy(rules, "ns1")
      <4>1. a.contained => Permits(rules, "ns1", w, m[1], m[2])
        BY <3>1, <3>2, <3>3, ContainedIsPermitted, ZenonT(30) DEF Peered, Messaged
      <4>. QED BY <3>3, <4>1 DEF PermittedBy
    <3>5. ASSUME \A i \in ForPeer(rules, BuildPeer(w)) : rules[i].ports # << >>
          PROVE  PermittedBy(a.rules, "ns1") = PermittedBy(rules, "ns1") \cup {<<w, m>>}
      <4>1. PICK new : new = a.rules
        OBVIOUS
      <4>2. new = UpsertRuleByPeer(rules, BuildPeer(w), PolicyPort(m[1], m[2]))
        BY <3>1, <3>2, <4>1 DEF Peered, Messaged
      <4>3. \A f \in Flow : Permits(new, "ns1", f[1], f[2][1], f[2][2]) <=>
                            Permits(rules, "ns1", f[1], f[2][1], f[2][2]) \/ f = <<w, m>>
        BY <3>3, <3>5, <4>2, UpsertAdds
      <4>4. <<w, m>> \in Flow
        BY <3>3 DEF Flow
      <4>. QED BY <4>1, <4>3, <4>4 DEF PermittedBy, Flow
    <3>. QED BY <2>2, <3>1, <3>2, <3>4, <3>5 DEF LearningAddsOnlyTheFlow, About
  <2>3. CASE answer # {} /\ question.about = "meshEdit"
    <3>1. PICK a : /\ answer = {a}
                   /\ a.rules = UpsertIstioLearnedRule(question.rules, question.principal, <<question.port>>)
      BY <1>1, <2>3 DEF RuleAnswered
    <3>2. PICK rules, principal, port :
             rules = question.rules /\ principal = question.principal /\ port = question.port
      OBVIOUS
    <3>3. AreMeshRules(rules) /\ principal \in {"p", "q"} /\ port \in {80, 85, 90}
      BY <1>1, <2>3, <3>2 DEF RuleAsked
    <3>4. ASSUME \A r \in Range(rules) : r.from = <<<<principal>>>> => r.to # << >> /\ << >> \notin Range(r.to)
          PROVE  MeshPermittedBy(a.rules) =
                    MeshPermittedBy(rules) \cup {[identity |-> principal, port |-> port]}
      <4>0. NamesPorts(rules, principal)
        BY <3>4 DEF NamesPorts
      <4>1. PICK new, flow : new = a.rules /\ flow = [identity |-> principal, port |-> port]
        BY ZenonT(30)
      <4>2. new = UpsertIstioLearnedRule(rules, principal, <<port>>)
        BY <3>1, <3>2, <4>1
      <4>3. \A v \in MeshFlows : (\E r \in Range(new) : MeshPermits(r, v)) <=>
                                 (\E r \in Range(rules) : MeshPermits(r, v)) \/ v = flow
        <5>1. ASSUME NEW v \in MeshFlows
              PROVE  (\E r \in Range(UpsertIstioLearnedRule(rules, principal, <<port>>)) : MeshPermits(r, v))
                     <=> (\E r \in Range(rules) : MeshPermits(r, v)) \/ v = [identity |-> principal, port |-> port]
          BY ONLY <3>3, <4>0, <5>1, MeshUpsertAdds
        <5>. QED BY <4>1, <4>2, <5>1
      <4>4. flow \in MeshFlows
        BY <3>3, <4>1 DEF MeshFlows
      <4>. QED BY <4>1, <4>3, <4>4 DEF MeshPermittedBy
    <3>. QED BY <2>3, <3>1, <3>2, <3>4 DEF LearningAddsOnlyTheFlow, About
  <2>. QED BY <1>1, <2>1, <2>2, <2>3 DEF RuleAsked
<1>. QED BY <1>1, RulesAnswered, PTL

\* From rules of any number and shape, a violation is cleared only when they
\* permit its flow for every pod it may have been, and always when one of them
\* is for its namespace and port; in a mesh, exactly when they permit it.
THEOREM ClearedIsAllowed == RuleSpec => []ClearsOnlyPermitted
<1>1. ASSUME RuleAsked, RuleAnswered PROVE ClearsOnlyPermitted
  <2>1. CASE answer = {} \/ question.about = "edit"
    BY <2>1, ZenonT(30) DEF ClearsOnlyPermitted, About
  <2>2. CASE answer # {} /\ question.about = "meshEdit"
    <3>1. PICK a : answer = {a} /\ a.cleared = {v \in MeshFlows : ClearedIstio(question.rules, v)}
      BY <1>1, <2>2 DEF RuleAnswered
    <3>2. a.cleared = MeshPermittedBy(question.rules)
      BY <3>1, ClearedIsPermitted DEF MeshPermittedBy
    <3>. QED BY <2>2, <3>1, <3>2 DEF ClearsOnlyPermitted, About
  <2>3. CASE answer # {} /\ question.about = "clear"
    <3>. DEFINE v == question.violation
                home == IF question.direction = "Ingress" THEN v.destNamespace ELSE v.sourceNamespace
                peer == IF question.direction = "Ingress" THEN v.sourceNamespace ELSE v.destNamespace
    <3>1. /\ answer = {ClearedKubernetes(Template, v)}
          /\ AreRules(question.rules) /\ question.direction \in {"Egress", "Ingress"}
      BY <1>1, <2>3 DEF RuleAsked, RuleAnswered, PeerDirections
    <3>2. ASSUME TRUE \in answer, NEW selector
          PROVE  Permits(question.rules, home, [namespace |-> peer, selector |-> selector], v.proto, v.port)
      <4>1. ClearedKubernetes(Template, v)
        BY <3>1, <3>2, ZenonT(30)
      <4>2. \E i \in DOMAIN question.rules : RuleEqual(ToRule(peer, v), question.rules[i])
        BY <3>1, <4>1 DEF ClearedKubernetes, Template
      <4>3. PICK w : w = [namespace |-> peer, selector |-> selector]
        BY ZenonT(30)
      <4>4. w.namespace = peer
        BY <4>3
      <4>5. Permits(question.rules, home, w, v.proto, v.port)
        <5>. HIDE DEF home, peer, v
        <5>. QED BY <3>1, <4>2, <4>4, ClearedPermits, ZenonT(30)
      <4>. QED BY <4>3, <4>5
    <3>3. ASSUME NEW r \in Range(question.rules), NEW pods \in {{}, {{}}},
                 r.peers = <<[namespaces |-> {{NamespaceName(peer)}}, pods |-> pods, ipBlock |-> {}]>>,
                 r.ports = <<[proto |-> {v.proto}, port |-> {v.port}, endPort |-> {}]>>
          PROVE  TRUE \in answer
      <4>1. RuleEqual(ToRule(peer, v), r)
        <5>. HIDE DEF peer, v
        <5>. QED BY <3>3, SameRuleEquals
      <4>2. \E i \in DOMAIN question.rules : RuleEqual(ToRule(peer, v), question.rules[i])
        <5>. HIDE DEF peer, v
        <5>. QED BY <4>1, ZenonT(30) DEF Range
      <4>3. ClearedKubernetes(Template, v)
        BY <3>1, <4>2 DEF ClearedKubernetes, Template
      <4>. QED BY <3>1, <4>3, ZenonT(30)
    <3>. QED BY <2>3, <3>2, <3>3, ZenonT(30) DEF ClearsOnlyPermitted, About
  <2>. QED BY <1>1, <2>1, <2>2, <2>3 DEF RuleAsked
<1>. QED BY <1>1, RulesAnswered, PTL

-----------------------------------------------------------------------------
(* The security of a hop (tlsutil, grpcexporter, the collector). *)

(* A Secret has its three fields, perhaps empty. *)
HasFields(contents) ==
    /\ contents = [n \in DOMAIN contents |-> contents[n]]
    /\ {"ca.crt", "tls.crt", "tls.key"} \subseteq DOMAIN contents

(* Any flags, and any contents of the places they point to. *)
TLSInit ==
    /\ question.about = "tls" /\ answer = {}
    /\ HasFields(question.world.secret)

TLSSpec == TLSInit /\ [][Connect]_asked

\* What flags that pass the validation at start-up have in common.
LEMMA ValidatedFlags ==
  ASSUME NEW flags, NEW world, Validate(flags, world), flags.mode # "insecure"
  PROVE  /\ flags.mode \in {"issuer", "existingSecret"}
         /\ (flags.dir # "") # (flags.secret # << >>)
         /\ flags.dir # "" => flags.configMap = << >> /\ KeyPair(world.files["tls.crt"], world.files["tls.key"])
         /\ flags.secret # << >> =>
              /\ flags.mode = "existingSecret"
              /\ IsNamespacedName(flags.secret)
              /\ flags.configMap # << >> => IsNamespacedName(flags.configMap)
BY DEF Validate, ValidateIssuer, ValidateExistingSecret, ValidateCertDir

\* What is read is what the flags point to, or nothing if a part is missing.
LEMMA MaterialIsWanted ==
  ASSUME NEW flags, NEW world, HasFields(world.secret),
         (flags.dir # "") # (flags.secret # << >>), 
         flags.dir # "" => flags.configMap = << >>
  PROVE  LET wanted == Wanted(flags, world)
             m == [ca |-> wanted["ca.crt"], cert |-> wanted["tls.crt"], key |-> wanted["tls.key"]]
         IN  GetMaterial(flags, world) = IF "" \in {m.ca, m.cert, m.key} THEN {} ELSE {m}
<1>. DEFINE wanted == Wanted(flags, world)
            from == IF flags.dir # "" THEN world.files ELSE world.secret
            ca == IF flags.dir = "" /\ flags.configMap # << >>
                  THEN CAFromConfigMap(flags, world) ELSE from["ca.crt"]
            m == [ca |-> ca, cert |-> from["tls.crt"], key |-> from["tls.key"]]
<1>1. wanted["ca.crt"] = ca /\ wanted["tls.crt"] = from["tls.crt"] /\ wanted["tls.key"] = from["tls.key"]
  <2>1. CASE flags.secret = << >>
    BY <2>1 DEF Wanted
  <2>2. CASE flags.secret # << >> /\ flags.configMap = << >>
    BY <2>2 DEF Wanted
  <2>3. CASE flags.secret # << >> /\ flags.configMap # << >>
    <3>1. wanted = [world.secret EXCEPT !["ca.crt"] = CAFromConfigMap(flags, world)]
      BY <2>3 DEF Wanted, CAFromConfigMap
    <3>2. flags.dir = ""
      BY <2>3
    <3>. HIDE DEF wanted
    <3>3. /\ wanted["ca.crt"] = CAFromConfigMap(flags, world)
          /\ wanted["tls.crt"] = world.secret["tls.crt"] /\ wanted["tls.key"] = world.secret["tls.key"]
      BY <3>1 DEF HasFields
    <3>. QED BY <2>3, <3>2, <3>3
  <2>. QED BY <2>1, <2>2, <2>3
<1>2. GetMaterial(flags, world) = {x \in {m} : "" \notin {x.ca, x.cert, x.key}}
  BY DEF GetMaterial
<1>3. GetMaterial(flags, world) = IF "" \in {m.ca, m.cert, m.key} THEN {} ELSE {m}
  BY <1>2
<1>. HIDE DEF wanted, ca, from
<1>. QED BY <1>1, <1>3 DEF wanted

\* A client is secured exactly when its material is complete and it knows
\* whom to expect, and then with that material.
LEMMA ClientSecured ==
  ASSUME NEW flags, NEW world, NEW wanted, wanted = Wanted(flags, world), HasFields(world.secret),
         (flags.dir # "") # (flags.secret # << >>), 
         flags.dir # "" => flags.configMap = << >>
  PROVE  IF Complete(wanted) /\ (flags.serverName # "" \/ flags.endpoint.host # "")
         THEN ClientCredentials(flags, world) = Hop("tls", wanted["ca.crt"], wanted["tls.crt"], ServerName(flags))
         ELSE ClientCredentials(flags, world) = Failing
<1>. DEFINE m == [ca |-> wanted["ca.crt"], cert |-> wanted["tls.crt"], key |-> wanted["tls.key"]]
            usable == {x \in GetMaterial(flags, world) : Parses(x.ca) /\ KeyPair(x.cert, x.key)}
<1>1. GetMaterial(flags, world) = IF "" \in {m.ca, m.cert, m.key} THEN {} ELSE {m}
  BY MaterialIsWanted
<1>2. usable = IF Complete(wanted) THEN {m} ELSE {}
  <2>1. Complete(wanted) <=> Parses(m.ca) /\ KeyPair(m.cert, m.key)
    BY DEF Complete, Parses, KeyPair
  <2>2. Complete(wanted) => "" \notin {m.ca, m.cert, m.key}
    BY DEF Complete
  <2>. HIDE DEF m
  <2>3. CASE Complete(wanted)
    BY <1>1, <2>1, <2>2, <2>3
  <2>4. CASE ~Complete(wanted)
    BY <1>1, <2>1, <2>4
  <2>. QED BY <2>3, <2>4
<1>3. ServerName(flags) = "" <=> flags.serverName = "" /\ flags.endpoint.host = ""
  BY DEF ServerName
<1>4. ClientCredentials(flags, world) =
         IF usable = {} \/ ServerName(flags) = "" THEN Failing
         ELSE LET x == CHOOSE x \in usable : TRUE IN Hop("tls", x.ca, x.cert, ServerName(flags))
  BY DEF ClientCredentials
<1>5. CASE Complete(wanted)
  <2>. HIDE DEF usable
  <2>1. usable = {m}
    BY <1>2, <1>5
  <2>. HIDE DEF m
  <2>2. usable # {} /\ (CHOOSE x \in usable : TRUE) = m
    BY <2>1
  <2>3. m.ca = wanted["ca.crt"] /\ m.cert = wanted["tls.crt"]
    BY DEF m
  <2>. QED BY <1>3, <1>4, <1>5, <2>2, <2>3
<1>6. CASE ~Complete(wanted)
  BY <1>2, <1>4, <1>6
<1>. QED BY <1>5, <1>6

\* A server is secured exactly when its directory is complete.
LEMMA ServerSecured ==
  ASSUME NEW flags, NEW world, flags.secret = << >>, NEW wanted, wanted = Wanted(flags, world)
  PROVE  IF Complete(wanted)
         THEN \E name : ServerCredentials(world) = Hop("tls", wanted["ca.crt"], wanted["tls.crt"], name)
         ELSE ServerCredentials(world) = Refused
<1>1. wanted = world.files
  BY DEF Wanted
<1>. QED BY <1>1 DEF ServerCredentials, ValidateCertDir, KeyPair, Parses, Complete

\* A hop that was not refused answers to what was asked.
LEMMA HopAsAsked ==
  ASSUME NEW flags, NEW world, HasFields(world.secret), NEW wanted, wanted = Wanted(flags, world),
         NEW hop, hop = SetupProviderScraper(flags, world)
  PROVE  PlainAsAsked(flags, hop) /\ SecuredAsAsked(flags, wanted, hop)
<1>. USE DEF PlainAsAsked, SecuredAsAsked
<1>0. /\ Refused.status = "refused" /\ Failing.status = "failing" /\ Plaintext.status = "plaintext"
      /\ \A ca, cert, name : /\ Hop("tls", ca, cert, name).status = "tls"
                             /\ Hop("tls", ca, cert, name).ca = ca
                             /\ Hop("tls", ca, cert, name).cert = cert
                             /\ Hop("tls", ca, cert, name).serverName = name
  BY DEF Hop, Refused, Failing, Plaintext
<1>1. CASE ~Validate(flags, world)
  <2>1. hop = Refused
    BY <1>1 DEF SetupProviderScraper
  <2>2. ~(flags.mode \in {"issuer", "existingSecret"} /\ Consistent(flags) /\ Complete(wanted))
    <3>. SUFFICES ASSUME flags.mode \in {"issuer", "existingSecret"}, Consistent(flags), Complete(wanted)
                  PROVE  FALSE
      OBVIOUS
    <3>1. flags.secret = << >> => KeyPair(world.files["tls.crt"], world.files["tls.key"])
      BY DEF Complete, Wanted, KeyPair, Parses
    <3>2. CASE flags.mode = "issuer"
      BY <1>1, <3>1, <3>2 DEF Validate, ValidateIssuer, ValidateCertDir, Consistent
    <3>3. CASE flags.mode = "existingSecret"
      BY <1>1, <3>1, <3>3 DEF Validate, ValidateExistingSecret, ValidateCertDir, Consistent, IsNamespacedName
    <3>. QED BY <3>2, <3>3
  <2>. QED BY <1>0, <2>1, <2>2
<1>2. CASE Validate(flags, world) /\ flags.mode = "insecure"
  <2>1. flags.dir = "" /\ flags.secret = << >> /\ flags.configMap = << >> /\ flags.serverName = ""
    BY <1>2 DEF Validate
  <2>2. (hop = Plaintext /\ flags.provider \in {"istio", "cilium"}) \/ hop = Refused
    BY <1>2, <2>1 DEF SetupProviderScraper, NewProviderCertSource
  <2>. QED BY <1>0, <1>2, <2>1, <2>2
<1>3. CASE Validate(flags, world) /\ flags.mode # "insecure"
  <2>1. /\ flags.mode \in {"issuer", "existingSecret"}
        /\ (flags.dir # "") # (flags.secret # << >>)
        /\ flags.dir # "" => flags.configMap = << >>
        /\ flags.secret # << >> =>
              /\ flags.mode = "existingSecret"
              /\ IsNamespacedName(flags.secret)
              /\ flags.configMap # << >> => IsNamespacedName(flags.configMap)
    BY <1>3, ValidatedFlags
  <2>2. Consistent(flags) <=>
           IF flags.provider = "istio"
           THEN flags.secret = << >> /\ flags.endpoint.host = "" /\ flags.endpoint.port # 0
           ELSE flags.serverName # "" \/ flags.endpoint.host # ""
    BY <2>1 DEF Consistent, IsNamespacedName
  <2>3. CASE flags.provider = "istio"
    <3>1. CASE flags.dir = "" \/ flags.endpoint.host # "" \/ flags.endpoint.port = 0
      <4>1. hop = Refused
        BY <1>3, <2>3, <3>1 DEF SetupProviderScraper
      <4>. QED BY <1>0, <2>1, <2>2, <2>3, <3>1, <4>1
    <3>2. CASE flags.dir # "" /\ flags.endpoint.host = "" /\ flags.endpoint.port # 0
      <4>1. hop = ServerCredentials(world)
        BY <1>3, <2>3, <3>2 DEF SetupProviderScraper
      <4>2. IF Complete(wanted) THEN \E name : hop = Hop("tls", wanted["ca.crt"], wanted["tls.crt"], name)
            ELSE hop = Refused
        BY <2>1, <3>2, <4>1, ServerSecured
      <4>3. CASE Complete(wanted)
        <5>1. hop.status = "tls" /\ hop.ca = wanted["ca.crt"] /\ hop.cert = wanted["tls.crt"]
          BY <1>0, <4>2, <4>3
        <5>. QED BY <2>1, <2>2, <2>3, <3>2, <4>3, <5>1
      <4>4. CASE ~Complete(wanted)
        <5>1. hop.status = "refused"
          BY <1>0, <4>2, <4>4
        <5>. QED BY <4>4, <5>1
      <4>. QED BY <4>3, <4>4
    <3>. QED BY <3>1, <3>2
  <2>4. CASE flags.provider \in {"cilium", "calico"}
    <3>1. hop = ClientCredentials(flags, world)
      BY <1>3, <2>1, <2>4 DEF SetupProviderScraper, NewProviderCertSource
    <3>2. IF Complete(wanted) /\ Consistent(flags)
          THEN hop = Hop("tls", wanted["ca.crt"], wanted["tls.crt"], ServerName(flags))
          ELSE hop = Failing
      BY <2>1, <2>2, <2>4, <3>1, ClientSecured
    <3>3. CASE Complete(wanted) /\ Consistent(flags)
      <4>1. /\ hop.status = "tls" /\ hop.ca = wanted["ca.crt"] /\ hop.cert = wanted["tls.crt"]
            /\ hop.serverName = ServerName(flags)
        BY <1>0, <3>2, <3>3
      <4>. QED BY <2>1, <2>4, <3>3, <4>1 DEF ServerName
    <3>4. CASE ~(Complete(wanted) /\ Consistent(flags))
      <4>1. hop.status = "failing"
        BY <1>0, <3>2, <3>4
      <4>. QED BY <3>4, <4>1
    <3>. QED BY <3>3, <3>4
  <2>5. CASE flags.provider \notin {"istio", "cilium", "calico"}
    <3>1. hop = Refused
      BY <1>3, <2>5 DEF SetupProviderScraper
    <3>. QED BY <1>0, <2>5, <3>1
  <2>. QED BY <2>3, <2>4, <2>5, ZenonT(30)
<1>. QED BY <1>1, <1>2, <1>3

\* Whatever the flags say and wherever they point, the hop to the provider is
\* plain or secured as they ask, and never with other material
\* (setupProviderScraper).
THEOREM HopsAreAsAsked == TLSSpec => []TLSAsAsked
<1>. DEFINE Inv == HasFields(question.world.secret) /\ TLSAsAsked
<1>1. TLSInit => Inv
  BY DEF TLSInit, TLSAsAsked, About
<1>2. Inv /\ [Connect]_asked => Inv'
  <2>. SUFFICES ASSUME Inv, [Connect]_asked PROVE Inv'
    OBVIOUS
  <2>1. question' = question
    BY DEF Connect, Decide, asked
  <2>2. CASE Connect
    <3>1. answer' = {SetupProviderScraper(question.flags, question.world)}
      BY <2>2 DEF Connect, Decide
    <3>. QED BY <2>1, <3>1, HopAsAsked DEF TLSAsAsked
  <2>3. CASE UNCHANGED asked
    BY <2>1, <2>3 DEF asked, TLSAsAsked, About
  <2>. QED BY <2>1, <2>2, <2>3
<1>. QED BY <1>1, <1>2, PTL DEF TLSSpec

=============================================================================
