------------------------------ MODULE Promotion ------------------------------
(***************************************************************************)
(* From observed traffic to a policy, for one direction of one workload:   *)
(* the learning controller turns flows into the rules of a proposal, a     *)
(* user labels the proposal, and the proposal controller makes a policy of *)
(* it and deletes it.  The workload may be deleted and recreated under     *)
(* them, and the garbage collector follows owner references.               *)
(*                                                                         *)
(* A proposal is [rules, label, owner]: the flows it permits, the mode it  *)
(* is to be promoted in or NoLabel, and the UID of the workload its        *)
(* controller reference names, NoOwner without one.  A policy for that     *)
(* workload and direction is [name, rules, mode, promoted]: it has the     *)
(* name of the proposal or another one, and promoted says whether it has   *)
(* the promoted-from label.  A workload is its UID.  Caches lag as module  *)
(* Watched says; all the policies are in one.                              *)
(***************************************************************************)
EXTENDS FiniteSets, Watched

CONSTANTS
    Flows,       \* flows that are observed, each a peer and a port
    Modes,       \* modes a user promotes in
    NameLengths, \* lengths the name of the proposal may have
    MaxInputs,   \* bound on what users do and on learning events
    MaxFaults    \* bound on failed calls and restarts

ASSUME PromotionAssumption ==
    /\ Modes \subseteq {"monitor", "protect"}
    /\ NameLengths \subseteq Nat
    /\ MaxInputs \in Nat /\ MaxFaults \in Nat

VARIABLES
    nameLength,  \* length of the name of the proposal
    proposal, policy, workload,   \* the proposal, the policies, the workload
    flows,       \* queue of the learning controller
    learner,     \* the flow it is about to write, as a set
    queued,      \* is the proposal in the queue of the proposal controller?
    job,         \* what the proposal controller is doing
    reported,    \* flows reported as violations of the monitored policy
    uids, inputs, faults

vars == <<nameLength, proposal, policy, workload, flows, learner, queued, job, reported, uids, inputs, faults>>

NoLabel == ""
SameName == "same"
OtherName == "other"
MaxLabelValueLength == 63    \* of Kubernetes
NoOwner == 0
Idle == [step |-> "idle", proposal |-> {}, orphan |-> FALSE]

NewProposal(f) == [rules |-> {f}, label |-> NoLabel, owner |-> NoOwner]

Init ==
    /\ nameLength \in NameLengths
    /\ proposal = <<None>>
    /\ policy = <<None>>
    /\ workload = <<{1}>>
    /\ flows = {}
    /\ learner = {}
    /\ queued = FALSE
    /\ job = Idle
    /\ reported = {}
    /\ uids = 1
    /\ inputs = 0
    /\ faults = 0

Store(state) == Accepts(proposal, state) /\ proposal' = Changed(proposal, state)
StorePolicy(state) == Accepts(policy, state) /\ policy' = Changed(policy, state)
StoreWorkload(state) == Accepts(workload, state) /\ workload' = Changed(workload, state)

Named(name, state) == {q \in state : q.name = name}

(* checkExistingPolicy: policies are listed by the promoted-from label. *)
Promoted(state) == {q \in state : q.promoted}

(* validateUniqueTarget refuses a policy when one of another name has its   *)
(* target, as far as the cache knows.                                      *)
Conflicts(name) == {q \in Cached(policy) : q.name # name}

(***************************************************************************)
(* Users, traffic, and Kubernetes.                                         *)
(***************************************************************************)
ControllersIdle == UNCHANGED <<nameLength, learner, queued, job, reported, faults>>
UserActs == inputs < MaxInputs /\ inputs' = inputs + 1 /\ UNCHANGED flows /\ ControllersIdle

LabelProposal(mode) ==
    /\ \E p \in Now(proposal) : p.label # mode /\ Store({[p EXCEPT !.label = mode]})
    /\ UserActs /\ UNCHANGED <<policy, workload, uids>>

(* A policy that was not promoted, of either name. *)
CreatePolicy(name) ==
    /\ Named(name, Now(policy)) = {} /\ Conflicts(name) = {}
    /\ StorePolicy(Now(policy) \cup {[name |-> name, rules |-> {}, mode |-> "monitor", promoted |-> FALSE]})
    /\ UserActs /\ UNCHANGED <<proposal, workload, uids>>

DeletePolicy(name) ==
    /\ Named(name, Now(policy)) # {}
    /\ StorePolicy(Now(policy) \ Named(name, Now(policy)))
    /\ UserActs /\ UNCHANGED <<proposal, workload, uids>>

DeleteWorkload ==
    /\ Now(workload) # None
    /\ StoreWorkload(None)
    /\ UserActs /\ UNCHANGED <<proposal, policy, uids>>

DeployWorkload ==
    /\ Now(workload) = None
    /\ StoreWorkload({uids + 1})
    /\ uids' = uids + 1
    /\ UserActs /\ UNCHANGED <<proposal, policy>>

(* A scraper hands over a flow; when the channel is full it never gets here. *)
EnqueueEvent(f) ==
    /\ inputs < MaxInputs
    /\ inputs' = inputs + 1
    /\ flows' = flows \cup {f}
    /\ ControllersIdle /\ UNCHANGED <<proposal, policy, workload, uids>>

CollectGarbage ==
    /\ \E p \in Now(proposal) : p.owner # NoOwner /\ p.owner \notin Now(workload)
    /\ Store(None)
    /\ ControllersIdle /\ UNCHANGED <<policy, workload, flows, uids, inputs>>

(* Only proposals are watched for their own sake. *)
Delivered == UNCHANGED <<nameLength, flows, learner, job, reported, uids, inputs, faults>>
DeliverProposal ==
    /\ \E k \in Later(proposal) : proposal' = From(proposal, k)
    /\ queued' = TRUE
    /\ Delivered /\ UNCHANGED <<policy, workload>>
DeliverPolicy ==
    /\ \E k \in Later(policy) : policy' = From(policy, k)
    /\ Delivered /\ UNCHANGED <<proposal, workload, queued>>
DeliverWorkload ==
    /\ \E k \in Later(workload) : workload' = From(workload, k)
    /\ Delivered /\ UNCHANGED <<proposal, policy, queued>>

(* The periodic resync announces every cached object again. *)
Resync ==
    /\ Cached(proposal) # None
    /\ queued' = TRUE
    /\ Delivered /\ UNCHANGED <<proposal, policy, workload>>

(***************************************************************************)
(* The learning controller.                                                *)
(***************************************************************************)
LearnerOnly == UNCHANGED <<nameLength, policy, workload, queued, job, uids, inputs, faults>>

(* evaluateMonitorViolation: in protect mode the data plane reports. *)
Violates(f, q) == q.mode = "monitor" /\ f \notin q.rules

(* checkExistingPolicy: a promoted policy ends learning; a monitored one    *)
(* gets a violation for a flow it does not permit.                         *)
Learn(f) ==
    /\ learner = {}
    /\ f \in flows
    /\ flows' = flows \ {f}
    /\ LET promoted == Promoted(Cached(policy))
       IN  /\ learner' = IF promoted = {} THEN {f} ELSE {}
           /\ reported' = reported \cup {g \in {f} : \E q \in promoted : Violates(g, q)}
    /\ LearnerOnly /\ UNCHANGED proposal

\* Mutant: without the resource version.
UpdateUnlocked(f, p, current) ==
    {q \in {[p EXCEPT !.rules = @ \cup {f}]} : current # None}

(* CreateOrUpdate, from the cached proposal: the one it leaves behind.      *)
(* The update carries the resource version of what was read.               *)
Update(f, p, current) ==
    {q \in {[p EXCEPT !.rules = @ \cup {f}]} : current = {p}}

\* Mutant: the cached proposal is not looked at.
CreateAlways(f, cached, current) ==
    {p \in {NewProposal(f)} : current = None}

Upsert(f, cached, current) ==
    IF cached = None
    THEN {p \in {NewProposal(f)} : current = None}
    ELSE UNION {IF f \in p.rules THEN {p} ELSE Update(f, p, current) : p \in cached}

(* No state is left behind when the call fails.  The owner reference is     *)
(* looked up after the write and not written; without the workload the     *)
(* event is an error all the same, and errors are retried.                 *)
LearnFlow(f) ==
    /\ f \in learner
    /\ learner' = {}
    /\ LET left == Upsert(f, Cached(proposal), Now(proposal))
           known == \E p \in Cached(proposal) : f \in p.rules
           owned == \E p \in left : p.owner # NoOwner \/ Cached(workload) # None
       IN  /\ IF left = {} \/ known THEN UNCHANGED proposal ELSE Store(left)
           /\ flows' = IF owned THEN flows ELSE flows \cup {f}
    /\ LearnerOnly /\ UNCHANGED reported

(***************************************************************************)
(* The proposal controller.                                                *)
(***************************************************************************)
WorkerOnly == UNCHANGED <<nameLength, workload, flows, learner, reported, uids, inputs, faults>>

Promoting(p, orphan) == [step |-> "promote", proposal |-> {p}, orphan |-> orphan]
Done == job' = Idle /\ UNCHANGED queued
Retry == job' = Idle /\ queued' = TRUE

(* Reconcile up to reconcileOwnership: a proposal without its workload is   *)
(* deleted; when it is gone already, the reconciliation goes on.  A wrong   *)
(* owner reference is patched, and the answer replaces what was read.       *)
Reconcile ==
    /\ queued /\ job = Idle
    /\ \/ /\ Cached(proposal) = None
          /\ job' = Idle /\ queued' = FALSE
          /\ UNCHANGED proposal
       \/ \E p \in Cached(proposal) :
             IF Cached(workload) = None
             THEN /\ Store(None)
                  /\ job' = IF Now(proposal) = None THEN Promoting(p, TRUE) ELSE Idle
                  /\ queued' = FALSE
             ELSE IF p.owner \in Cached(workload)
             THEN /\ job' = Promoting(p, FALSE)
                  /\ queued' = FALSE
                  /\ UNCHANGED proposal
             ELSE IF Now(proposal) = None
             THEN Retry /\ UNCHANGED proposal
             ELSE \E u \in Cached(workload), q \in Now(proposal) :
                     /\ Store({[q EXCEPT !.owner = u]})
                     /\ job' = Promoting([q EXCEPT !.owner = u], FALSE)
                     /\ queued' = FALSE
    /\ WorkerOnly /\ UNCHANGED policy

\* Mutant: the leftover is noticed but not deleted.
LeftoverKept ==
    /\ job.step = "promote"
    /\ Done
    /\ Promoted(Cached(policy)) # {}
    /\ WorkerOnly /\ UNCHANGED <<policy, proposal>>

(* A proposal whose promoted policy exists is a leftover and is deleted. A  *)
(* labelled one becomes a policy, unless a policy has that name.            *)
DeleteLeftover ==
    /\ job.step = "promote"
    /\ Promoted(Cached(policy)) # {}
    /\ Store(None)
    /\ Done
    /\ WorkerOnly /\ UNCHANGED policy

Unpromoted == job.step = "promote" /\ Promoted(Cached(policy)) = {}
HasPromotionLabel == \E p \in job.proposal : p.label # NoLabel

\* Mutant: the longest label is refused.
LongestRefused == nameLength >= MaxLabelValueLength

(* A name that is too long for a label. *)
SetPromotedLabelFails == nameLength > MaxLabelValueLength

Refused == SetPromotedLabelFails \/ Conflicts(SameName) # {}

(* There is nothing to do, or a policy has the name already. *)
LeaveProposal ==
    /\ Unpromoted
    /\ HasPromotionLabel => ~Refused /\ Named(SameName, Now(policy)) # {}
    /\ Done
    /\ WorkerOnly /\ UNCHANGED <<policy, proposal>>

(* The label cannot be set, or the webhook refuses the policy. *)
PromotionFails ==
    /\ Unpromoted /\ HasPromotionLabel
    /\ Refused
    /\ Retry
    /\ WorkerOnly /\ UNCHANGED <<policy, proposal>>

PolicyOf(p) == [name |-> SameName, rules |-> p.rules, mode |-> p.label, promoted |-> TRUE]

\* Mutant: the label is not checked.
PromoteUnlabelled ==
    /\ Unpromoted
    /\ ~Refused /\ Named(SameName, Now(policy)) = {}
    /\ \E p \in job.proposal : StorePolicy(Now(policy) \cup {PolicyOf(p)})
    /\ job' = [job EXCEPT !.step = "delete"]
    /\ WorkerOnly /\ UNCHANGED <<proposal, queued>>

Promote ==
    /\ Unpromoted /\ HasPromotionLabel
    /\ ~Refused /\ Named(SameName, Now(policy)) = {}
    /\ \E p \in job.proposal : StorePolicy(Now(policy) \cup {PolicyOf(p)})
    /\ job' = [job EXCEPT !.step = "delete"]
    /\ WorkerOnly /\ UNCHANGED <<proposal, queued>>

DeletePromoted ==
    /\ job.step = "delete"
    /\ Store(None)
    /\ Done
    /\ WorkerOnly /\ UNCHANGED policy

(* A call of the proposal controller fails and is retried, or the manager   *)
(* restarts with fresh caches; flows that were not learned are lost then.   *)
CallFails ==
    /\ faults < MaxFaults
    /\ job # Idle
    /\ faults' = faults + 1
    /\ Retry
    /\ UNCHANGED <<nameLength, proposal, policy, workload, flows, learner, reported, uids, inputs>>

Restart ==
    /\ faults < MaxFaults
    /\ faults' = faults + 1
    /\ proposal' = <<Now(proposal)>>
    /\ policy' = <<Now(policy)>>
    /\ workload' = <<Now(workload)>>
    /\ flows' = {}
    /\ learner' = {}
    /\ job' = Idle
    /\ queued' = (Now(proposal) # None)
    /\ UNCHANGED <<nameLength, reported, uids, inputs>>

User ==
    \/ \E mode \in Modes : LabelProposal(mode)
    \/ \E name \in {SameName, OtherName} : CreatePolicy(name) \/ DeletePolicy(name)
    \/ DeleteWorkload \/ DeployWorkload
    \/ \E f \in Flows : EnqueueEvent(f)

Kubernetes == CollectGarbage \/ DeliverProposal \/ DeliverPolicy \/ DeliverWorkload \/ Resync

Learning == \E f \in Flows : Learn(f) \/ LearnFlow(f)

GoOn == DeleteLeftover \/ LeaveProposal \/ PromotionFails \/ Promote \/ DeletePromoted

Promotion == Reconcile \/ GoOn

Next == User \/ Kubernetes \/ Learning \/ Promotion \/ CallFails \/ Restart

Spec == Init /\ [][Next]_vars

(* Watches stay connected and are resynced, and both controllers run: what  *)
(* they have begun goes on, and since an event or a reconciliation waits    *)
(* for others that are begun in between, strong fairness starts it.        *)
FairSpec ==
    /\ Spec
    /\ WF_vars(CollectGarbage)
    /\ WF_vars(DeliverProposal) /\ WF_vars(DeliverPolicy) /\ WF_vars(DeliverWorkload)
    /\ WF_vars(Resync)
    /\ \A f \in Flows : SF_vars(Learn(f))
    /\ WF_vars(\E f \in Flows : LearnFlow(f))
    /\ SF_vars(Reconcile)
    /\ WF_vars(GoOn)

(***************************************************************************)
(* Properties.                                                             *)
(***************************************************************************)
Proposals == [rules : SUBSET Flows, label : Modes \cup {NoLabel}, owner : Nat]
Policies == [name : {SameName, OtherName}, rules : SUBSET Flows, mode : Modes \cup {"monitor"}, promoted : BOOLEAN]

TypeOK ==
    /\ \A k \in DOMAIN proposal : \A p \in proposal[k] : p \in Proposals /\ proposal[k] = {p}
    /\ \A k \in DOMAIN policy : \A q \in policy[k] : q \in Policies /\ Named(q.name, policy[k]) = {q}
    /\ \A k \in DOMAIN workload : workload[k] \subseteq 1 .. uids
    /\ flows \subseteq Flows /\ learner \subseteq Flows /\ reported \subseteq Flows
    /\ queued \in BOOLEAN
    /\ job.step \in {"idle", "promote", "delete"} /\ job.proposal \subseteq Proposals

(* While a proposal exists, nothing that was learned and no label a user    *)
(* set is lost, though the learning controller, the proposal controller and *)
(* users write it from different copies (CreateOrUpdate sends the resource  *)
(* version, the ownership patch only the owner references).                 *)
NoLostUpdate ==
    [][\A p \in Now(proposal), q \in Now(proposal') :
          /\ p.rules \subseteq q.rules
          /\ p.label # NoLabel => q.label # NoLabel]_vars

(* Once a promoted policy exists for good, so that learning has ended, its  *)
(* proposal is gone for good: one that was recreated meanwhile, or whose    *)
(* deletion failed, is recognised as a leftover, at the latest on a resync. *)
LeftoversGo == <>[](Promoted(Now(policy)) # {}) => <>[](Now(proposal) = None)

(* A labelled proposal whose name fits a label does not stay, unless other  *)
(* policies do: it becomes a policy, or it turns out that one has its name  *)
(* or its target, or that the proposal was deleted.  Once the policy that   *)
(* was in the way is gone, a retry promotes the proposal.                   *)
LabelsTakeEffect ==
    (nameLength <= MaxLabelValueLength /\ \E p \in Now(proposal) : p.label # NoLabel)
        ~> (Now(policy) # None \/ Now(proposal) = None)

(* While the workload is there to stay, every learning event is dealt with: *)
(* failed writes and lookups that raced another writer are retried from a   *)
(* newer cache until one succeeds (LearningReconciler.Reconcile).           *)
EventsSettle == <>[](Now(workload) # None) => <>[](flows \cup learner = {})

(* A reconciliation that found the workload of the proposal missing makes   *)
(* no policy of it (reconcileOwnership reports the proposal as deleted).    *)
OrphansNotPromoted == [][Promote => ~job.orphan]_vars
==============================================================================
