-------------------------- MODULE PromotionProofs ---------------------------
(***************************************************************************)
(* No writer of a proposal undoes what another one wrote, and all that the *)
(* three objects and the two controllers ever hold is well-formed, for any *)
(* set of flows, any name, any number of edits, events and faults, and     *)
(* caches that are any number of changes behind.                           *)
(***************************************************************************)
EXTENDS Promotion, TLAPS

USE SMTT(30), ZenonT(20)

(* What a watched object always is: a sequence of states, with at least one. *)
Logs(S) == Seq(S) \ {<<>>}

\* The newest and the cached state are states.
LEMMA LogEnds ==
  ASSUME NEW S, NEW log \in Logs(S)
  PROVE  Now(log) \in S /\ Cached(log) \in S /\ \A k \in DOMAIN log : log[k] \in S
<1>1. log \in Seq(S) /\ Len(log) \in Nat \ {0} /\ DOMAIN log = 1 .. Len(log)
  BY DEF Logs
<1>. QED BY <1>1 DEF Now, Cached

\* A write adds a state, unless it changes nothing.
LEMMA WrittenLog ==
  ASSUME NEW S, NEW log \in Logs(S), NEW state \in S
  PROVE  Changed(log, state) \in Logs(S) /\ Now(Changed(log, state)) = state
<1>1. CASE state = Now(log)
  BY <1>1 DEF Changed
<1>2. CASE state # Now(log)
  <2>1. log \in Seq(S) /\ Len(log) \in Nat
    BY DEF Logs
  <2>2. /\ Append(log, state) \in Seq(S) /\ Len(Append(log, state)) = Len(log) + 1
        /\ Append(log, state)[Len(log) + 1] = state
    BY <2>1
  <2>3. Append(log, state) # <<>>
    BY <2>1, <2>2
  <2>. QED BY <1>2, <2>2, <2>3 DEF Changed, Logs, Now
<1>. QED BY <1>1, <1>2

\* A delivery drops states from the front and keeps the newest.
LEMMA ReadLog ==
  ASSUME NEW S, NEW log \in Logs(S), NEW k \in Later(log)
  PROVE  From(log, k) \in Logs(S) /\ Now(From(log, k)) = Now(log)
<1>1. log \in Seq(S) /\ Len(log) \in Nat /\ k \in 2 .. Len(log)
  BY DEF Logs, Later
<1>2. /\ From(log, k) \in Seq(S) /\ Len(From(log, k)) = Len(log) - k + 1
      /\ \A i \in 1 .. Len(log) - k + 1 : From(log, k)[i] = log[k + i - 1]
  BY <1>1 DEF From
<1>3. Len(log) - k + 1 \in 1 .. Len(log) - k + 1 /\ k + (Len(log) - k + 1) - 1 = Len(log)
  BY <1>1
<1>4. From(log, k) # <<>>
  BY <1>1, <1>2
<1>. QED BY <1>2, <1>3, <1>4 DEF Logs, Now

\* After a restart the cache holds the current state and nothing else.
LEMMA CurrentLog ==
  ASSUME NEW S, NEW state \in S
  PROVE  <<state>> \in Logs(S) /\ Now(<<state>>) = state
BY DEF Logs, Now

-----------------------------------------------------------------------------

(* Types: what TypeOK says, as membership in sets. *)
ProposalState == {None} \cup {{p} : p \in Proposals}
PolicyState == {state \in SUBSET Policies : \A q \in state : Named(q.name, state) = {q}}
WorkloadState(n) == SUBSET (1 .. n)
Jobs == {Idle} \cup [step : {"promote", "delete"}, proposal : {{p} : p \in Proposals}, orphan : BOOLEAN]

(* The UIDs of workloads were given out.  The proposal that the worker holds *)
(* is typed although it may have been deleted or written since.            *)
IInv ==
    /\ proposal \in Logs(ProposalState)
    /\ policy \in Logs(PolicyState)
    /\ workload \in Logs(WorkloadState(uids)) /\ uids \in Nat
    /\ flows \subseteq Flows /\ learner \subseteq Flows /\ reported \subseteq Flows
    /\ queued \in BOOLEAN
    /\ job \in Jobs

(* What a step may do to a proposal that stays, as NoLostUpdate says it. *)
Kept(old, new) ==
    \A p \in old, q \in new :
        /\ p.rules \subseteq q.rules
        /\ p.label # NoLabel => q.label # NoLabel

StepKeeps == Kept(Now(proposal), Now(proposal'))

(* What a step makes of the proposal. *)
ProposalKept == proposal' \in Logs(ProposalState) /\ StepKeeps

\* The newest and the cached proposal are proposals, and at most one each.
LEMMA OneProposal ==
  ASSUME IInv
  PROVE  /\ Now(proposal) \in ProposalState /\ Cached(proposal) \in ProposalState
         /\ \A p \in Now(proposal) : p \in Proposals /\ Now(proposal) = {p}
         /\ \A p \in Cached(proposal) : p \in Proposals /\ Cached(proposal) = {p}
<1>1. Now(proposal) \in ProposalState /\ Cached(proposal) \in ProposalState
  BY LogEnds DEF IInv
<1>2. \A state \in ProposalState : \A p \in state : p \in Proposals /\ state = {p}
  BY DEF ProposalState, None
<1>. QED BY <1>1, <1>2

\* Writing a state that keeps what is there.
LEMMA Stored ==
  ASSUME IInv, NEW state \in ProposalState, Kept(Now(proposal), state), Store(state)
  PROVE  ProposalKept
<1>1. proposal' = Changed(proposal, state)
  BY DEF Store
<1>2. proposal' \in Logs(ProposalState) /\ Now(proposal') = state
  BY <1>1, WrittenLog DEF IInv
<1>. QED BY <1>2 DEF ProposalKept, StepKeeps

\* The newest state stays the same.
LEMMA Untouched ==
  ASSUME IInv, proposal' \in Logs(ProposalState), Now(proposal') = Now(proposal)
  PROVE  ProposalKept
<1>1. ASSUME NEW p \in Now(proposal), NEW q \in Now(proposal)
      PROVE  p = q
  BY <1>1, OneProposal
<1>. QED BY <1>1 DEF ProposalKept, StepKeeps, Kept

\* Steps that do not write the proposal at all.
LEMMA NotWritten ==
  ASSUME IInv, UNCHANGED proposal
  PROVE  ProposalKept
BY Untouched DEF IInv

\* A deletion leaves nothing to compare.
LEMMA Deleted ==
  ASSUME IInv, Store(None)
  PROVE  ProposalKept
<1>1. None \in ProposalState /\ Kept(Now(proposal), None)
  BY DEF ProposalState, Kept, None
<1>. QED BY <1>1, Stored

\* Setting the rules leaves the label.
LEMMA RulesSet ==
  ASSUME NEW p \in Proposals, NEW x \in SUBSET Flows, NEW q, q = [p EXCEPT !.rules = x]
  PROVE  q \in Proposals /\ q.rules = x /\ q.label = p.label
BY DEF Proposals

\* Setting the label leaves the rules.
LEMMA LabelSet ==
  ASSUME NEW p \in Proposals, NEW x \in Modes, NEW q, q = [p EXCEPT !.label = x]
  PROVE  q \in Proposals /\ q.rules = p.rules /\ q.label = x
BY DEF Proposals

\* Setting the owner leaves both.
LEMMA OwnerSet ==
  ASSUME NEW p \in Proposals, NEW x \in Nat, NEW q, q = [p EXCEPT !.owner = x]
  PROVE  q \in Proposals /\ q.rules = p.rules /\ q.label = p.label
BY DEF Proposals

\* A workload that is cached or current has a UID that was given out.
LEMMA UIDsGivenOut ==
  ASSUME IInv
  PROVE  Now(workload) \in WorkloadState(uids) /\ \A u \in Cached(workload) : u \in Nat
<1>1. Now(workload) \in WorkloadState(uids) /\ Cached(workload) \in WorkloadState(uids)
  BY LogEnds DEF IInv
<1>. QED BY <1>1 DEF WorkloadState

\* The proposal that the worker holds is one.
LEMMA HeldProposal ==
  ASSUME IInv, NEW p \in job.proposal
  PROVE  p \in Proposals /\ job.proposal = {p}
<1>1. job = Idle \/ job.proposal \in {{q} : q \in Proposals}
  BY DEF IInv, Jobs
<1>. QED BY <1>1 DEF Idle

\* A user labels the proposal, with a mode.
LEMMA Labelled ==
  ASSUME IInv, NEW mode \in Modes, LabelProposal(mode)
  PROVE  ProposalKept
<1>1. PICK p \in Now(proposal) : Store({[p EXCEPT !.label = mode]})
  BY DEF LabelProposal
<1>2. Now(proposal) = {p} /\ p \in Proposals
  BY <1>1, OneProposal
<1>3. PICK q : q = [p EXCEPT !.label = mode]
  BY ZenonT(30)
<1>4. q \in Proposals /\ q.rules = p.rules /\ q.label = mode
  BY <1>2, <1>3, LabelSet
<1>5. mode # NoLabel
  BY PromotionAssumption DEF NoLabel
<1>6. {q} \in ProposalState
  BY <1>4 DEF ProposalState
<1>7. Kept(Now(proposal), {q})
  BY <1>2, <1>4, <1>5 DEF Kept
<1>. QED BY <1>1, <1>3, <1>6, <1>7, Stored

\* The learning controller adds a flow, from a copy of any age.
LEMMA Learned ==
  ASSUME IInv, NEW f \in Flows, LearnFlow(f)
  PROVE  ProposalKept
<1>. DEFINE left == Upsert(f, Cached(proposal), Now(proposal))
<1>1. CASE UNCHANGED proposal
  BY <1>1, NotWritten
<1>2. CASE ~UNCHANGED proposal
  <2>1. Store(left) /\ left # {} /\ \A p \in Cached(proposal) : f \notin p.rules
    BY <1>2 DEF LearnFlow
  <2>2. CASE Cached(proposal) = None
    <3>1. left = {NewProposal(f)} /\ Now(proposal) = None
      BY <2>1, <2>2 DEF Upsert
    <3>2. NewProposal(f) \in Proposals
      BY DEF NewProposal, Proposals, NoOwner
    <3>3. left \in ProposalState /\ Kept(Now(proposal), left)
      BY <3>1, <3>2 DEF ProposalState, Kept, None
    <3>. QED BY <2>1, <3>3, Stored
  <2>3. CASE Cached(proposal) # None
    <3>1. left = UNION {IF f \in p.rules THEN {p} ELSE Update(f, p, Now(proposal)) : p \in Cached(proposal)}
      BY <2>3 DEF Upsert
    <3>. HIDE DEF left
    <3>2. ASSUME NEW q \in left
          PROVE  \E p : Now(proposal) = {p} /\ q = [p EXCEPT !.rules = p.rules \cup {f}]
      <4>1. PICK p \in Cached(proposal) : q \in Update(f, p, Now(proposal))
        BY <2>1, <3>1, <3>2
      <4>. QED BY <4>1 DEF Update
    <3>3. PICK q : q \in left
      BY <2>1
    <3>4. PICK p : Now(proposal) = {p} /\ q = [p EXCEPT !.rules = p.rules \cup {f}]
      BY <3>2, <3>3
    <3>5. left = {q}
      BY <3>2, <3>3, <3>4
    <3>6. p \in Proposals
      BY <3>4, OneProposal
    <3>7. PICK r \in SUBSET Flows : r = p.rules \cup {f}
      BY <3>6, ZenonT(30) DEF Proposals
    <3>8. q \in Proposals /\ q.rules = r /\ q.label = p.label
      BY <3>4, <3>6, <3>7, RulesSet
    <3>9. left \in ProposalState
      BY <3>5, <3>8 DEF ProposalState
    <3>10. Kept(Now(proposal), left)
      BY <3>4, <3>5, <3>7, <3>8, ZenonT(30) DEF Kept
    <3>. QED BY <2>1, <3>9, <3>10, Stored DEF left
  <2>. QED BY <2>2, <2>3
<1>. QED BY <1>1, <1>2

\* The proposal controller deletes an orphan or patches the owner of what is there.
LEMMA Reconciled ==
  ASSUME IInv, Reconcile
  PROVE  ProposalKept
<1>1. CASE UNCHANGED proposal
  BY <1>1, NotWritten
<1>2. CASE Store(None)
  BY <1>2, Deleted
<1>3. CASE \E u \in Cached(workload), q \in Now(proposal) : Store({[q EXCEPT !.owner = u]})
  <2>1. PICK u \in Cached(workload), p \in Now(proposal) : Store({[p EXCEPT !.owner = u]})
    BY <1>3
  <2>2. Now(proposal) = {p} /\ p \in Proposals /\ u \in Nat
    BY <2>1, OneProposal, UIDsGivenOut
  <2>3. PICK q : q = [p EXCEPT !.owner = u]
    BY ZenonT(30)
  <2>4. q \in Proposals /\ q.rules = p.rules /\ q.label = p.label
    BY <2>2, <2>3, OwnerSet
  <2>5. {q} \in ProposalState
    BY <2>4 DEF ProposalState
  <2>6. Kept(Now(proposal), {q})
    BY <2>2, <2>4 DEF Kept
  <2>. QED BY <2>1, <2>3, <2>5, <2>6, Stored
<1>. QED BY <1>1, <1>2, <1>3, ZenonT(30) DEF Reconcile

\* Every step leaves a typed proposal, its rules and its label.
LEMMA NextProposal ==
  ASSUME IInv, [Next]_vars
  PROVE  ProposalKept
<1>1. CASE UNCHANGED proposal
  BY <1>1, NotWritten
<1>2. CASE \E mode \in Modes : LabelProposal(mode)
  BY <1>2, Labelled
<1>3. CASE CollectGarbage \/ DeleteLeftover \/ DeletePromoted
  BY <1>3, Deleted DEF CollectGarbage, DeleteLeftover, DeletePromoted
<1>4. CASE DeliverProposal
  <2>1. PICK k \in Later(proposal) : proposal' = From(proposal, k)
    BY <1>4 DEF DeliverProposal
  <2>. QED BY <2>1, ReadLog, Untouched DEF IInv
<1>5. CASE \E f \in Flows : LearnFlow(f)
  BY <1>5, Learned
<1>6. CASE Reconcile
  BY <1>6, Reconciled
<1>7. CASE Restart
  <2>1. proposal' = <<Now(proposal)>>
    BY <1>7 DEF Restart
  <2>2. Now(proposal) \in ProposalState
    BY OneProposal
  <2>. QED BY <2>1, <2>2, CurrentLog, Untouched
<1>8. CASE User
  BY <1>1, <1>2, <1>8
     DEF User, CreatePolicy, DeletePolicy, DeleteWorkload, DeployWorkload, EnqueueEvent
<1>9. CASE Kubernetes
  BY <1>1, <1>3, <1>4, <1>9 DEF Kubernetes, DeliverPolicy, DeliverWorkload, Resync
<1>10. CASE Learning
  BY <1>1, <1>5, <1>10 DEF Learning, Learn
<1>11. CASE Promotion
  BY <1>1, <1>3, <1>6, <1>11 DEF Promotion, GoOn, LeaveProposal, PromotionFails, Promote
<1>12. CASE CallFails \/ UNCHANGED vars
  BY <1>1, <1>12 DEF CallFails, vars
<1>. QED BY <1>7, <1>8, <1>9, <1>10, <1>11, <1>12 DEF Next

\* A policy is created when none has its name.
LEMMA PolicyAdded ==
  ASSUME NEW state \in PolicyState, NEW q \in Policies, Named(q.name, state) = {}
  PROVE  state \cup {q} \in PolicyState
<1>1. ASSUME NEW p \in state
      PROVE  p.name # q.name /\ Named(p.name, state) = {p}
  BY <1>1 DEF PolicyState, Named
<1>2. ASSUME NEW p \in state \cup {q}
      PROVE  Named(p.name, state \cup {q}) = {p}
  BY <1>1 DEF Named
<1>. QED BY <1>2 DEF PolicyState

\* The policies of one name are deleted.
LEMMA PolicyRemoved ==
  ASSUME NEW state \in PolicyState, NEW name
  PROVE  state \ Named(name, state) \in PolicyState
<1>1. ASSUME NEW p \in state \ Named(name, state)
      PROVE  Named(p.name, state \ Named(name, state)) = {p}
  BY <1>1 DEF PolicyState, Named
<1>. QED BY <1>1 DEF PolicyState

\* Users create and delete policies, and a promotion creates one with the
\* rules and the label of a proposal.
LEMMA NextPolicy ==
  ASSUME IInv, [Next]_vars
  PROVE  policy' \in Logs(PolicyState)
<1>0. policy \in Logs(PolicyState) /\ Now(policy) \in PolicyState
  BY LogEnds DEF IInv
<1>1. CASE UNCHANGED policy
  BY <1>0, <1>1
<1>2. ASSUME NEW state \in PolicyState, StorePolicy(state)
      PROVE  policy' \in Logs(PolicyState)
  BY <1>0, <1>2, WrittenLog DEF StorePolicy
<1>3. ASSUME NEW name \in {SameName, OtherName}, CreatePolicy(name)
      PROVE  policy' \in Logs(PolicyState)
  <2>1. PICK q : q = [name |-> name, rules |-> {}, mode |-> "monitor", promoted |-> FALSE]
    BY ZenonT(30)
  <2>2. q \in Policies /\ q.name = name
    BY <2>1, ZenonT(30) DEF Policies
  <2>3. StorePolicy(Now(policy) \cup {q}) /\ Named(name, Now(policy)) = {}
    BY <1>3, <2>1 DEF CreatePolicy
  <2>. QED BY <1>0, <1>2, <2>2, <2>3, PolicyAdded
<1>4. ASSUME NEW name, DeletePolicy(name)
      PROVE  policy' \in Logs(PolicyState)
  BY <1>0, <1>2, <1>4, PolicyRemoved DEF DeletePolicy
<1>5. CASE DeliverPolicy
  <2>1. PICK k \in Later(policy) : policy' = From(policy, k)
    BY <1>5 DEF DeliverPolicy
  <2>. QED BY <1>0, <2>1, ReadLog
<1>6. CASE Promote
  <2>1. PICK p \in job.proposal : p.label # NoLabel
    BY <1>6 DEF Promote, HasPromotionLabel
  <2>2. p \in Proposals /\ job.proposal = {p}
    BY <2>1, HeldProposal
  <2>3. p.rules \in SUBSET Flows /\ p.label \in Modes
    BY <2>1, <2>2 DEF Proposals
  <2>4. PolicyOf(p) \in Policies /\ PolicyOf(p).name = SameName
    BY <2>3, ZenonT(30) DEF PolicyOf, Policies
  <2>5. StorePolicy(Now(policy) \cup {PolicyOf(p)}) /\ Named(SameName, Now(policy)) = {}
    BY <1>6, <2>2 DEF Promote
  <2>. QED BY <1>0, <1>2, <2>4, <2>5, PolicyAdded
<1>7. CASE Restart
  <2>1. policy' = <<Now(policy)>>
    BY <1>7 DEF Restart
  <2>. QED BY <1>0, <2>1, CurrentLog
<1>8. CASE User
  BY <1>1, <1>3, <1>4, <1>8, ZenonT(30)
     DEF User, LabelProposal, DeleteWorkload, DeployWorkload, EnqueueEvent, UserActs
<1>9. CASE Kubernetes
  BY <1>1, <1>5, <1>9 DEF Kubernetes, CollectGarbage, DeliverProposal, DeliverWorkload, Resync
<1>10. CASE Learning
  BY <1>1, <1>10 DEF Learning, Learn, LearnFlow, LearnerOnly
<1>11. CASE Promotion
  BY <1>1, <1>6, <1>11, ZenonT(30)
     DEF Promotion, GoOn, Reconcile, DeleteLeftover, LeaveProposal, PromotionFails, DeletePromoted
<1>12. CASE CallFails \/ UNCHANGED vars
  BY <1>1, <1>12 DEF CallFails, vars
<1>. QED BY <1>7, <1>8, <1>9, <1>10, <1>11, <1>12 DEF Next

\* The workload is created or deleted.
LEMMA WorkloadStored ==
  ASSUME NEW n \in Nat, workload \in Logs(WorkloadState(n)), NEW state \in WorkloadState(n),
         StoreWorkload(state)
  PROVE  workload' \in Logs(WorkloadState(n))
BY WrittenLog DEF StoreWorkload

\* A workload that is deployed again gets the next UID.
LEMMA NextWorkload ==
  ASSUME IInv, [Next]_vars
  PROVE  workload' \in Logs(WorkloadState(uids')) /\ uids' \in Nat
<1>0. workload \in Logs(WorkloadState(uids)) /\ uids \in Nat
  BY DEF IInv
<1>1. CASE UNCHANGED <<workload, uids>>
  BY <1>0, <1>1
<1>2. CASE DeployWorkload
  <2>1. PICK n, state : n = uids + 1 /\ state = {n}
    BY ZenonT(30)
  <2>2. n \in Nat /\ state \in WorkloadState(n) /\ WorkloadState(uids) \subseteq WorkloadState(n)
    BY <1>0, <2>1 DEF WorkloadState
  <2>3. workload \in Logs(WorkloadState(n))
    BY <1>0, <2>2 DEF Logs
  <2>4. StoreWorkload(state) /\ uids' = n
    BY <1>2, <2>1 DEF DeployWorkload
  <2>. QED BY <2>2, <2>3, <2>4, WorkloadStored
<1>3. CASE DeleteWorkload
  <2>1. None \in WorkloadState(uids)
    BY DEF None, WorkloadState
  <2>2. StoreWorkload(None) /\ uids' = uids
    BY <1>3 DEF DeleteWorkload
  <2>. QED BY <1>0, <2>1, <2>2, WorkloadStored
<1>4. CASE DeliverWorkload
  <2>1. PICK k \in Later(workload) : workload' = From(workload, k)
    BY <1>4 DEF DeliverWorkload
  <2>2. uids' = uids
    BY <1>4 DEF DeliverWorkload, Delivered
  <2>. QED BY <1>0, <2>1, <2>2, ReadLog
<1>5. CASE Restart
  <2>1. workload' = <<Now(workload)>> /\ uids' = uids
    BY <1>5 DEF Restart
  <2>. QED BY <1>0, <2>1, UIDsGivenOut, CurrentLog
<1>6. CASE User
  BY <1>1, <1>2, <1>3, <1>6 DEF User, LabelProposal, CreatePolicy, DeletePolicy, EnqueueEvent
<1>7. CASE Kubernetes
  BY <1>1, <1>4, <1>7 DEF Kubernetes, CollectGarbage, DeliverProposal, DeliverPolicy, Resync, Delivered
<1>8. CASE Learning
  BY <1>1, <1>8 DEF Learning, Learn, LearnFlow, LearnerOnly
<1>9. CASE Promotion
  BY <1>1, <1>9, ZenonT(30)
     DEF Promotion, GoOn, Reconcile, DeleteLeftover, LeaveProposal, PromotionFails, Promote, DeletePromoted, WorkerOnly
<1>10. CASE CallFails \/ UNCHANGED vars
  BY <1>1, <1>10 DEF CallFails, vars
<1>. QED BY <1>5, <1>6, <1>7, <1>8, <1>9, <1>10 DEF Next

\* What the two controllers hold between their steps.
LEMMA NextControllers ==
  ASSUME IInv, [Next]_vars
  PROVE  /\ flows' \subseteq Flows /\ learner' \subseteq Flows /\ reported' \subseteq Flows
         /\ queued' \in BOOLEAN /\ job' \in Jobs
<1>. DEFINE Held == /\ flows' \subseteq Flows /\ learner' \subseteq Flows /\ reported' \subseteq Flows
                    /\ queued' \in BOOLEAN /\ job' \in Jobs
<1>0. /\ flows \subseteq Flows /\ learner \subseteq Flows /\ reported \subseteq Flows
      /\ queued \in BOOLEAN /\ job \in Jobs /\ Idle \in Jobs
  BY DEF IInv, Jobs
<1>1. CASE UNCHANGED <<flows, learner, reported, queued, job>>
  BY <1>0, <1>1
<1>2. ASSUME NEW f \in Flows, EnqueueEvent(f)
      PROVE  Held
  BY <1>0, <1>2 DEF EnqueueEvent, ControllersIdle
<1>3. CASE DeliverProposal \/ Resync
  BY <1>0, <1>3, ZenonT(30) DEF DeliverProposal, Resync, Delivered
<1>4. ASSUME NEW f \in Flows, Learn(f) \/ LearnFlow(f)
      PROVE  Held
  <2>1. UNCHANGED <<queued, job>>
    BY <1>4 DEF Learn, LearnFlow, LearnerOnly
  <2>2. learner' \subseteq {f} /\ reported' \subseteq reported \cup {f} /\ flows' \subseteq flows \cup {f}
    BY <1>4 DEF Learn, LearnFlow
  <2>. QED BY <1>0, <2>1, <2>2
<1>5. CASE Reconcile
  <2>1. UNCHANGED <<flows, learner, reported>>
    BY <1>5 DEF Reconcile, WorkerOnly
  <2>2. queued' \in BOOLEAN
    BY <1>0, <1>5, ZenonT(30) DEF Reconcile, Retry
  <2>3. ASSUME NEW p \in Proposals, NEW orphan \in BOOLEAN
        PROVE  Promoting(p, orphan) \in Jobs
    BY <2>3 DEF Promoting, Jobs
  <2>4. \/ job' = Idle
        \/ \E p \in Cached(proposal), orphan \in BOOLEAN : job' = Promoting(p, orphan)
        \/ \E u \in Cached(workload), q \in Now(proposal) : job' = Promoting([q EXCEPT !.owner = u], FALSE)
    BY <1>5, ZenonT(30) DEF Reconcile, Retry
  <2>5. CASE \E p \in Cached(proposal), orphan \in BOOLEAN : job' = Promoting(p, orphan)
    BY <1>0, <2>1, <2>2, <2>3, <2>5, OneProposal
  <2>6. CASE \E u \in Cached(workload), q \in Now(proposal) : job' = Promoting([q EXCEPT !.owner = u], FALSE)
    <3>1. PICK u \in Cached(workload), q \in Now(proposal) : job' = Promoting([q EXCEPT !.owner = u], FALSE)
      BY <2>6, ZenonT(30)
    <3>2. PICK r : r = [q EXCEPT !.owner = u]
      BY ZenonT(30)
    <3>3. q \in Proposals /\ u \in Nat
      BY <3>1, OneProposal, UIDsGivenOut
    <3>4. r \in Proposals
      BY <3>2, <3>3, OwnerSet
    <3>. QED BY <1>0, <2>1, <2>2, <2>3, <3>1, <3>2, <3>4, ZenonT(30)
  <2>. QED BY <1>0, <2>1, <2>2, <2>4, <2>5, <2>6, ZenonT(30)
<1>6. CASE DeleteLeftover \/ LeaveProposal \/ PromotionFails \/ DeletePromoted
  BY <1>0, <1>6 DEF DeleteLeftover, LeaveProposal, PromotionFails, DeletePromoted, Done, Retry, WorkerOnly
<1>7. CASE Promote
  <2>1. UNCHANGED <<flows, learner, reported, queued>> /\ job' = [job EXCEPT !.step = "delete"]
    BY <1>7 DEF Promote, WorkerOnly
  <2>2. job.step = "promote"
    BY <1>7 DEF Promote, Unpromoted
  <2>3. job \in [step : {"promote", "delete"}, proposal : {{p} : p \in Proposals}, orphan : BOOLEAN]
    BY <1>0, <2>2 DEF Jobs, Idle
  <2>4. job' \in [step : {"promote", "delete"}, proposal : {{p} : p \in Proposals}, orphan : BOOLEAN]
    BY <2>1, <2>3
  <2>. QED BY <1>0, <2>1, <2>4 DEF Jobs
<1>8. CASE CallFails
  BY <1>0, <1>8 DEF CallFails, Retry
<1>9. CASE Restart
  BY <1>0, <1>9 DEF Restart
<1>10. CASE User
  BY <1>1, <1>2, <1>10
     DEF User, LabelProposal, CreatePolicy, DeletePolicy, DeleteWorkload, DeployWorkload, UserActs, ControllersIdle
<1>11. CASE Kubernetes
  BY <1>1, <1>3, <1>11
     DEF Kubernetes, CollectGarbage, DeliverPolicy, DeliverWorkload, Delivered, ControllersIdle
<1>12. CASE Learning
  BY <1>4, <1>12 DEF Learning
<1>13. CASE Promotion
  BY <1>5, <1>6, <1>7, <1>13 DEF Promotion, GoOn
<1>14. CASE UNCHANGED vars
  BY <1>1, <1>14 DEF vars
<1>. QED BY <1>8, <1>9, <1>10, <1>11, <1>12, <1>13, <1>14 DEF Next

\* The inductive invariant.
THEOREM PromotionInvariance == Spec => []IInv
<1>1. ASSUME Init
      PROVE  IInv
  <2>1. proposal \in Logs(ProposalState)
    <3>1. None \in ProposalState /\ proposal = <<None>>
      BY <1>1 DEF Init, ProposalState
    <3>. QED BY <3>1, CurrentLog
  <2>2. policy \in Logs(PolicyState)
    <3>1. None \in PolicyState /\ policy = <<None>>
      BY <1>1 DEF Init, PolicyState, None
    <3>. QED BY <3>1, CurrentLog
  <2>3. workload \in Logs(WorkloadState(uids)) /\ uids \in Nat
    <3>1. {1} \in WorkloadState(uids) /\ workload = <<{1}>> /\ uids = 1
      BY <1>1 DEF Init, WorkloadState
    <3>. QED BY <3>1, CurrentLog
  <2>4. job \in Jobs
    BY <1>1 DEF Init, Jobs
  <2>. QED BY <1>1, <2>1, <2>2, <2>3, <2>4, ZenonT(30) DEF Init, IInv
<1>2. IInv /\ [Next]_vars => IInv'
  <2>. SUFFICES ASSUME IInv, [Next]_vars PROVE IInv'
    OBVIOUS
  <2>1. proposal' \in Logs(ProposalState)
    BY NextProposal DEF ProposalKept
  <2>. QED BY <2>1, NextPolicy, NextWorkload, NextControllers DEF IInv
<1>. QED BY <1>1, <1>2, PTL DEF Spec

\* Everything that is stored, cached, queued or held by a worker is of the
\* kind the API declares: in particular a promoted policy has a mode, since
\* only a labelled proposal is promoted, and a job holds at most one proposal
\* (the reconcilers of WorkloadNetworkPolicyProposal).
THEOREM PromotionTypes == Spec => []TypeOK
<1>1. ASSUME IInv
      PROVE  TypeOK
  <2>1. /\ \A state \in ProposalState : \A p \in state : p \in Proposals /\ state = {p}
        /\ \A state \in PolicyState : \A q \in state : q \in Policies /\ Named(q.name, state) = {q}
    BY DEF ProposalState, PolicyState, None
  <2>2. \A k \in DOMAIN proposal : proposal[k] \in ProposalState
    BY <1>1, LogEnds DEF IInv
  <2>3. \A k \in DOMAIN policy : policy[k] \in PolicyState
    BY <1>1, LogEnds DEF IInv
  <2>4. \A k \in DOMAIN workload : workload[k] \subseteq 1 .. uids
    <3>1. \A k \in DOMAIN workload : workload[k] \in WorkloadState(uids)
      BY <1>1, LogEnds DEF IInv
    <3>. QED BY <3>1 DEF WorkloadState
  <2>5. job.step \in {"idle", "promote", "delete"}
    BY <1>1 DEF IInv, Jobs, Idle
  <2>6. job.proposal \subseteq Proposals
    BY <1>1, HeldProposal
  <2>. QED BY <1>1, <2>1, <2>2, <2>3, <2>4, <2>5, <2>6 DEF TypeOK, IInv
<1>. QED BY PromotionInvariance, <1>1, PTL

\* While a proposal exists, no step takes a learned flow or a label from it:
\* CreateOrUpdate of the learning controller sends the resource version it
\* read, and the ownership patch of the proposal controller names only the
\* owner references.
THEOREM UpdatesKept == Spec => NoLostUpdate
<1>1. IInv /\ [Next]_vars =>
         [\A p \in Now(proposal), q \in Now(proposal') :
             /\ p.rules \subseteq q.rules
             /\ p.label # NoLabel => q.label # NoLabel]_vars
  BY NextProposal DEF ProposalKept, StepKeeps, Kept
<1>. QED BY PromotionInvariance, <1>1, PTL DEF Spec, NoLostUpdate
=============================================================================
