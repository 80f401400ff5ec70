--------------------------- MODULE PolicyReconcile ---------------------------
(***************************************************************************)
(* The WorkloadNetworkPolicy controller: users and the garbage collector   *)
(* change objects in the API server, informers copy them into caches and   *)
(* call event handlers, handlers fill a work queue, and one worker takes   *)
(* names from the queue and reconciles them: it reads the caches, renders  *)
(* or deletes the data-plane object of the policy, then patches the Ready  *)
(* condition.  The validating webhook answers from the same cache.         *)
(*                                                                         *)
(* One namespace; the backend of a policy is immutable.                    *)
(* A data-plane object is the NetworkPolicy or AuthorizationPolicy with    *)
(* the name of its policy; its contents are its controller, the selector   *)
(* it was rendered from and whether Istio only dry-runs it.  The direction *)
(* of a policy is part of its target.  Caches lag as module Watched says.  *)
(***************************************************************************)
EXTENDS SelectorScope, Watched, Integers

CONSTANTS
    Names,        \* names of policies, ordered as strings.Compare orders them
    Specs,        \* specs of policies: [target, mode, selector]
    Clusters,     \* states of the workloads, ReplicaSets and pods
    Backends,     \* of "kubernetes" and "istio"
    Foreign,      \* controllers of objects that are not rendered by a policy
    OwnersSeen,   \* no relist steps over all the time an object had a controller
    MaxEdits,     \* bound on changes users make to policies
    MaxTouches,   \* bound on changes to workloads and data-plane objects
    MaxFaults     \* bound on failed API calls and on restarts

ASSUME ReconcileAssumption ==
    /\ Names \subseteq Nat /\ IsFiniteSet(Names)
    /\ Backends \subseteq {"kubernetes", "istio"}
    /\ \A spec \in Specs : spec.mode \in {"monitor", "protect"}
    /\ \A controller \in Foreign : controller \in Int /\ controller <= 0
    /\ OwnersSeen \in BOOLEAN
    /\ MaxEdits \in Nat /\ MaxTouches \in Nat /\ MaxFaults \in Nat

VARIABLES
    backend,      \* of the policies; it never changes
    policies,     \* the WorkloadNetworkPolicies
    objects,      \* the data-plane objects
    cluster,      \* the workloads, ReplicaSets and pods
    queue,        \* the work queue
    job,          \* what the worker is doing
    clock,        \* the second the last policy was created in
    uids,         \* UIDs given out
    edits,        \* changes of policies so far
    touches,      \* changes of workloads and data-plane objects so far
    faults        \* failed API calls and restarts so far

vars == <<backend, policies, objects, cluster, queue, job, clock, uids, edits, touches, faults>>

(***************************************************************************)
(* Data.                                                                   *)
(***************************************************************************)
CachedPolicies == [n \in Names |-> Cached(policies[n])]
CurrentPolicies == [n \in Names |-> Now(policies[n])]

Uncontrolled == 0                           \* no controller reference
(* Foreign controllers are negative, the UIDs of policies positive. *)

NoCondition == [reason |-> "", gen |-> 0]
Condition(reason, policy) == [reason |-> reason, gen |-> policy.gen]

NewPolicy(spec, uid, time) ==
    [uid |-> uid, created |-> time, spec |-> spec, gen |-> 1, condition |-> NoCondition]

(* The object rendered from a policy. *)
Desired(policy) ==
    [owner |-> policy.uid,
     selector |-> Rendered(policy.spec.selector, backend),
     dryRun |-> backend = "istio" /\ policy.spec.mode = "monitor"]

NothingToDo == [step |-> "idle", name |-> 0, policy |-> {}, condition |-> NoCondition, failed |-> FALSE]

DuplicateTarget == "DuplicateTarget"
OwnershipConflict == "PolicyOwnershipConflict"
ReconciliationFailed == "PolicyReconciliationFailed"

Init ==
    /\ backend \in Backends
    /\ policies = [n \in Names |-> <<None>>]
    /\ objects = [n \in Names |-> <<None>>]
    /\ cluster \in {<<c>> : c \in Clusters}
    /\ queue = {}
    /\ job = NothingToDo
    /\ clock = 1
    /\ uids = 0
    /\ edits = 0
    /\ touches = 0
    /\ faults = 0

(***************************************************************************)
(* Duplicate targets, in the policies a list returned.                     *)
(***************************************************************************)
Targeting(list, target) == {n \in Names : \E p \in list[n] : p.spec.target = target}

Older(list, m, n) ==
    \E p \in list[m], q \in list[n] :
        p.created < q.created \/ (p.created = q.created /\ m < n)

(* The policies whose target n conflicts over, and whether n renders. *)
CheckDuplicateTarget(list, n, policy) ==
    LET same == Targeting(list, policy.spec.target)
    IN  [conflicting |-> Cardinality(same) >= 2,
         winner |-> \A m \in same \ {n} : Older(list, n, m)]

(***************************************************************************)
(* The users, through the webhook, and the garbage collector.              *)
(***************************************************************************)
NothingElse == UNCHANGED <<backend, queue, job, faults>>

(* The webhook looks for another policy of the target in the cache. *)
ValidateUniqueTarget(n, spec) == Targeting(CachedPolicies, spec.target) \subseteq {n}

Store(n, state) ==
    /\ Accepts(policies[n], state)
    /\ policies' = [policies EXCEPT ![n] = Changed(@, state)]
StoreObject(n, state) ==
    /\ Accepts(objects[n], state)
    /\ objects' = [objects EXCEPT ![n] = Changed(@, state)]

CreatePolicy(n, spec) ==
    /\ edits < MaxEdits
    /\ Now(policies[n]) = None
    /\ ValidateUniqueTarget(n, spec)
    /\ \E time \in clock .. clock + 1 :
          /\ Store(n, {NewPolicy(spec, uids + 1, time)})
          /\ clock' = time
    /\ uids' = uids + 1
    /\ edits' = edits + 1
    /\ NothingElse /\ UNCHANGED <<objects, cluster, touches>>

UpdatePolicy(n, spec) ==
    /\ edits < MaxEdits
    /\ \E p \in Now(policies[n]) :
          /\ p.spec # spec
          /\ p.spec.target # spec.target => ValidateUniqueTarget(n, spec)
          /\ Store(n, {[p EXCEPT !.spec = spec, !.gen = @ + 1]})
    /\ edits' = edits + 1
    /\ NothingElse /\ UNCHANGED <<objects, cluster, clock, uids, touches>>

DeletePolicy(n) ==
    /\ edits < MaxEdits
    /\ Now(policies[n]) # None
    /\ Store(n, None)
    /\ edits' = edits + 1
    /\ NothingElse /\ UNCHANGED <<objects, cluster, clock, uids, touches>>

(* Workloads, ReplicaSets or pods change. *)
ChangeCluster(c) ==
    /\ touches < MaxTouches
    /\ c # Now(cluster) /\ Accepts(cluster, c)
    /\ cluster' = Changed(cluster, c)
    /\ touches' = touches + 1
    /\ NothingElse /\ UNCHANGED <<policies, objects, clock, uids, edits>>

(* What someone else can make of a data-plane object: delete it, change a  *)
(* rendered one, or create one of their own.                               *)
Touched(object) ==
    LET selectors == {spec.selector : spec \in Specs}
    IN  CASE object = None ->
                {{[owner |-> f, selector |-> s, dryRun |-> FALSE]} : f \in Foreign, s \in selectors}
          [] object # None ->
                {None} \cup {{[o EXCEPT !.selector = s]} : o \in object, s \in selectors}

TouchObject(n) ==
    /\ touches < MaxTouches
    /\ \E object \in Touched(Now(objects[n])) \ {Now(objects[n])} : StoreObject(n, object)
    /\ touches' = touches + 1
    /\ NothingElse /\ UNCHANGED <<policies, cluster, clock, uids, edits>>

Orphaned(n) ==
    \E o \in Now(objects[n]) : o.owner > 0 /\ \A p \in Now(policies[n]) : p.uid # o.owner

CollectGarbage(n) ==
    /\ Orphaned(n)
    /\ StoreObject(n, None)
    /\ NothingElse /\ UNCHANGED <<policies, cluster, clock, uids, edits, touches>>

(***************************************************************************)
(* Informers and event handlers.                                           *)
(***************************************************************************)
Unhandled == UNCHANGED <<backend, job, clock, uids, edits, touches, faults>>

(* selectorScopeWorkloadChanges: an update counts when the UID or the       *)
(* generation changed, a creation or a deletion always.                    *)
WorkloadChanges(old, new) ==
    \A p \in old, q \in new : p.uid # q.uid \/ p.gen # q.gen

\* Mutant: the policies of the target it had are not told.
NewTargetOnly(list, n, old, new) ==
    UNION {Targeting(list, p.spec.target) \ {n} : p \in new}

(* duplicateTargetHandler: the other policies of the target the policy had  *)
(* and of the one it has.                                                  *)
DuplicateTargetPolicies(list, n, old, new) ==
    UNION {Targeting(list, p.spec.target) \ {n} : p \in old \cup new}

(* For(WorkloadNetworkPolicy) has no predicate: a change of the status      *)
(* brings the policy back too.  The list a handler works on already holds  *)
(* the change.                                                             *)
PolicyRequests(list, n, old, new) ==
    {n} \cup (IF WorkloadChanges(old, new) THEN DuplicateTargetPolicies(list, n, old, new) ELSE {})

DeliverPolicy(n) ==
    /\ \E k \in Later(policies[n]) :
          LET list == [CachedPolicies EXCEPT ![n] = policies[n][k]]
          IN  /\ policies' = [policies EXCEPT ![n] = From(@, k)]
              /\ queue' = queue \cup PolicyRequests(list, n, Cached(policies[n]), policies[n][k])
    /\ Unhandled /\ UNCHANGED <<objects, cluster>>

\* Mutant: the UID of the controller is taken for its name.
ByOwnerUID(n, old, new) == {o.owner : o \in old \cup new}

(* Owns: the policy that controls the object, or did before the change. *)
ObjectRequests(n, old, new) == {m \in {n} : \E o \in old \cup new : o.owner > 0}

(* A relist that steps over the time an object had a controlling policy     *)
(* tells nobody of it.                                                     *)
Owned(object) == \E o \in object : o.owner > 0
OwnerMissed(log, k) ==
    (\E i \in 1 .. k : Owned(log[i])) /\ ~Owned(Cached(log)) /\ ~Owned(log[k])

DeliverObject(n) ==
    /\ \E k \in Later(objects[n]) :
          /\ OwnersSeen => ~OwnerMissed(objects[n], k)
          /\ objects' = [objects EXCEPT ![n] = From(@, k)]
          /\ queue' = queue \cup ObjectRequests(n, Cached(objects[n]), objects[n][k])
    /\ Unhandled /\ UNCHANGED <<policies, cluster>>

(* policiesForWorkload; every change to the labels, owners or identity of   *)
(* what cluster holds passes the predicates.                               *)
DeliverCluster ==
    /\ \E k \in Later(cluster) : cluster' = From(cluster, k)
    /\ queue' = queue \cup {n \in Names : Cached(policies[n]) # None}
    /\ Unhandled /\ UNCHANGED <<policies, objects>>

(***************************************************************************)
(* The worker.                                                             *)
(***************************************************************************)
WorkerOnly == UNCHANGED <<backend, cluster, clock, uids, edits, touches>>

Patching(n, policy, reason, failed) ==
    [step |-> "patch", name |-> n, policy |-> {policy},
     condition |-> Condition(reason, policy), failed |-> failed]

(* The condition reconcilePolicy and Reconcile settle on: a conflict over   *)
(* the target hides the result of the winner.                              *)
Outcome(n, policy, conflict, reason, failed) ==
    Patching(n, policy, IF conflict.conflicting THEN DuplicateTarget ELSE reason, failed)

(* reconcilePolicy up to its first write: what the worker does next. *)
ReconcilePolicy(n, policy, conflict) ==
    LET spec == policy.spec
        reason == CheckSelectorScope(Rendered(spec.selector, backend), spec.target, Cached(cluster))
        own == {o \in Cached(objects[n]) : o.owner = policy.uid}
    IN  CASE reason = Mismatch /\ spec.mode # "monitor" ->
                Outcome(n, policy, conflict,
                        CheckRetainedPolicyScope({o.selector : o \in own}, spec.target, Cached(cluster)),
                        FALSE)
          [] (reason # Mismatch \/ spec.mode = "monitor") /\ Cached(objects[n]) # own ->
                Outcome(n, policy, conflict, OwnershipConflict, TRUE)
          [] (reason # Mismatch \/ spec.mode = "monitor") /\ Cached(objects[n]) = own ->
                IF backend = "kubernetes" /\ spec.mode = "monitor" /\ own = {}
                THEN Outcome(n, policy, conflict, reason, FALSE)
                ELSE [Outcome(n, policy, conflict, reason, FALSE) EXCEPT !.step = "render"]

\* Mutant: a younger competitor is an error.
YoungerFails(n) ==
    /\ job = NothingToDo
    /\ queue' = queue \ {n}
    /\ IF Cached(policies[n]) = None
       THEN UNCHANGED job
       ELSE \E p \in Cached(policies[n]) :
               LET conflict == CheckDuplicateTarget(CachedPolicies, n, p)
               IN  job' = IF conflict.conflicting /\ ~conflict.winner
                          THEN Patching(n, p, DuplicateTarget, TRUE)
                          ELSE ReconcilePolicy(n, p, conflict)
    /\ WorkerOnly /\ UNCHANGED <<policies, objects, faults>>

(* Reconcile, from the cache: a younger policy of a contested target only   *)
(* gets its condition.                                                     *)
Reconcile(n) ==
    /\ job = NothingToDo
    /\ queue' = queue \ {n}
    /\ IF Cached(policies[n]) = None
       THEN UNCHANGED job
       ELSE \E p \in Cached(policies[n]) :
               LET conflict == CheckDuplicateTarget(CachedPolicies, n, p)
               IN  job' = IF conflict.conflicting /\ ~conflict.winner
                          THEN Patching(n, p, DuplicateTarget, FALSE)
                          ELSE ReconcilePolicy(n, p, conflict)
    /\ WorkerOnly /\ UNCHANGED <<policies, objects, faults>>

(* An API call: whether it succeeds and the object it leaves. *)
Answer(ok, object) == [ok |-> ok, object |-> object]

(* CreateOrUpdate and CreateOrPatch read the cache again and stop at an     *)
(* object with another controller; without a difference they do not write. *)
(* An Update carries the resource version that was read; a merge patch     *)
(* carries only the fields that differ from what was read.                 *)
Update(seen, wanted, object) ==
    IF object = {seen} THEN Answer(TRUE, {wanted}) ELSE Answer(FALSE, object)

\* Mutant: the annotation is never removed.
DryRunKept(seen, wanted, object) ==
    Answer(object # None,
           {[f \in DOMAIN o |-> IF seen[f] # wanted[f] /\ f # "dryRun" THEN wanted[f] ELSE o[f]] : o \in object})

MergePatch(seen, wanted, object) ==
    Answer(object # None,
           {[f \in DOMAIN o |-> IF seen[f] # wanted[f] THEN wanted[f] ELSE o[f]] : o \in object})

\* Mutant: SetControllerReference is not asked whose object it is.
CreateOrSeize(wanted, cached, object) ==
    IF cached = None
    THEN IF object = None THEN Answer(TRUE, {wanted}) ELSE Answer(FALSE, object)
    ELSE LET seen == CHOOSE o \in cached : TRUE
         IN  CASE seen = wanted -> Answer(TRUE, object)
               [] OTHER -> IF backend = "kubernetes"
                           THEN Update(seen, wanted, object)
                           ELSE MergePatch(seen, wanted, object)

(* reconcileProtect and the CreateOrPatch of reconcileIstioPolicy. *)
CreateOrWrite(wanted, cached, object) ==
    IF cached = None
    THEN IF object = None THEN Answer(TRUE, {wanted}) ELSE Answer(FALSE, object)
    ELSE LET seen == CHOOSE o \in cached : TRUE
         IN  CASE seen.owner \notin {Uncontrolled, wanted.owner} -> Answer(FALSE, object)
               [] seen = wanted -> Answer(TRUE, object)
               [] OTHER -> IF backend = "kubernetes"
                           THEN Update(seen, wanted, object)
                           ELSE MergePatch(seen, wanted, object)

(* The Delete of reconcileK8sPolicy names the object and nothing else. *)
Delete(object) == Answer(object # None, None)

Write(policy, cached, object) ==
    IF backend = "kubernetes" /\ policy.spec.mode = "monitor"
    THEN Delete(object)
    ELSE CreateOrWrite(Desired(policy), cached, object)

(* The worker goes on to the condition, of the failure if there was one. *)
Rendering(ok) ==
    [job EXCEPT !.step = "patch",
                !.failed = ~ok,
                !.condition.reason = IF ok \/ @ = DuplicateTarget THEN @ ELSE ReconciliationFailed]

(* The call can fail before or after it took effect. *)
Render ==
    /\ job.step = "render"
    /\ \E p \in job.policy :
          LET n == job.name
              answer == Write(p, Cached(objects[n]), Now(objects[n]))
          IN  \/ /\ StoreObject(n, answer.object)
                 /\ job' = Rendering(answer.ok)
                 /\ UNCHANGED faults
              \/ /\ faults < MaxFaults
                 /\ faults' = faults + 1
                 /\ StoreObject(n, answer.object) \/ UNCHANGED objects
                 /\ job' = Rendering(FALSE)
    /\ WorkerOnly /\ UNCHANGED <<policies, queue>>

(* The reconciliation ends; with an error its name goes back to the queue. *)
Finish(failed) ==
    /\ queue' = IF failed \/ job.failed THEN queue \cup {job.name} ELSE queue
    /\ job' = NothingToDo

\* Mutant: no resource version.
Unlocked(p, current) == current # None

(* updateReadyCondition: no call when the condition read from the cache     *)
(* already says so; the patch carries the resource version that was read.  *)
Locked(p, current) == current = {p}

UpdateReadyCondition ==
    /\ job.step = "patch"
    /\ \E p \in job.policy :
          LET n == job.name
              current == Now(policies[n])
              patched == IF Locked(p, current)
                         THEN {[q EXCEPT !.condition = job.condition] : q \in current}
                         ELSE current
          IN  \/ /\ p.condition = job.condition
                 /\ Finish(FALSE)
                 /\ UNCHANGED <<policies, faults>>
              \/ /\ p.condition # job.condition
                 /\ Store(n, patched)
                 /\ Finish(~Locked(p, current))
                 /\ UNCHANGED faults
              \/ /\ p.condition # job.condition
                 /\ faults < MaxFaults
                 /\ faults' = faults + 1
                 /\ Store(n, patched) \/ UNCHANGED policies
                 /\ Finish(TRUE)
    /\ WorkerOnly /\ UNCHANGED objects

(* The manager is restarted: caches are filled before the worker starts,   *)
(* and every object in them is announced as created.                       *)
Restart ==
    /\ faults < MaxFaults
    /\ faults' = faults + 1
    /\ policies' = [n \in Names |-> <<Now(policies[n])>>]
    /\ objects' = [n \in Names |-> <<Now(objects[n])>>]
    /\ cluster' = <<Now(cluster)>>
    /\ queue' = {n \in Names : Now(policies[n]) # None \/ \E o \in Now(objects[n]) : o.owner > 0}
    /\ job' = NothingToDo
    /\ UNCHANGED <<backend, clock, uids, edits, touches>>

Edit ==
    \/ \E n \in Names, spec \in Specs : CreatePolicy(n, spec) \/ UpdatePolicy(n, spec)
    \/ \E n \in Names : DeletePolicy(n) \/ TouchObject(n)
    \/ \E c \in Clusters : ChangeCluster(c)

Watch ==
    \/ \E n \in Names : DeliverPolicy(n) \/ DeliverObject(n)
    \/ DeliverCluster

Work ==
    \/ \E n \in queue : Reconcile(n)
    \/ Render
    \/ UpdateReadyCondition

Next ==
    \/ Edit
    \/ \E n \in Names : CollectGarbage(n)
    \/ Watch
    \/ Work
    \/ Restart

Spec == Init /\ [][Next]_vars

(* Watches stay connected, the garbage collector and the worker keep       *)
(* running, and the work queue hands out every name it holds.              *)
FairSpec ==
    /\ Spec
    /\ \A n \in Names : WF_vars(DeliverPolicy(n)) /\ WF_vars(DeliverObject(n))
    /\ WF_vars(DeliverCluster)
    /\ \A n \in Names : WF_vars(CollectGarbage(n)) /\ SF_vars(n \in queue /\ Reconcile(n))
    /\ WF_vars(Render)
    /\ WF_vars(UpdateReadyCondition)

(***************************************************************************)
(* Properties.                                                             *)
(***************************************************************************)
Conditions ==
    [reason : {"", ScopeValid, Mismatch, Overlaps, TargetNotFound, DuplicateTarget,
               OwnershipConflict, ReconciliationFailed}, gen : Nat]

Policies == [uid : Nat \ {0}, created : Nat, spec : Specs, gen : Nat \ {0}, condition : Conditions]

TypeOK ==
    /\ \A n \in Names :
          /\ \A k \in DOMAIN policies[n] :
                \A p \in policies[n][k] : p \in Policies /\ policies[n][k] = {p}
          /\ \A k \in DOMAIN objects[n] : \A o \in objects[n][k] :
                objects[n][k] = {o} /\ o.owner <= uids /\ o.dryRun \in BOOLEAN
    /\ \A k \in DOMAIN cluster : cluster[k] \in Clusters
    /\ backend \in Backends /\ queue \subseteq Names
    /\ job.step \in {"idle", "render", "patch"}
    /\ job.step = "idle" <=> job.policy = {}
    /\ job.condition \in Conditions
    /\ uids \in Nat /\ clock \in Nat /\ edits \in 0 .. MaxEdits /\ touches \in 0 .. MaxTouches
    /\ faults \in 0 .. MaxFaults

(* Nothing is left to do: the caches are current, the queue is empty and    *)
(* the worker waits.                                                       *)
Quiet ==
    /\ \A n \in Names : Len(policies[n]) = 1 /\ Len(objects[n]) = 1 /\ ~Orphaned(n)
    /\ Len(cluster) = 1
    /\ queue = {} /\ job = NothingToDo

(* What a user may rely on for one policy. *)
Contested(p) == Cardinality(Targeting(CurrentPolicies, p.spec.target)) >= 2
Renders(n, p) ==
    \A m \in Targeting(CurrentPolicies, p.spec.target) \ {n} : Older(CurrentPolicies, n, m)
ScopeOf(p) == CheckSelectorScope(Rendered(p.spec.selector, backend), p.spec.target, Now(cluster))
LeftTarget(p) == ScopeOf(p) = Mismatch /\ p.spec.mode = "protect"

RightCondition(n, p) ==
    /\ p.condition.gen = p.gen
    /\ p.condition.reason =
          IF Contested(p) THEN DuplicateTarget
          ELSE IF LeftTarget(p)
          THEN CheckRetainedPolicyScope({o.selector : o \in {x \in Now(objects[n]) : x.owner = p.uid}},
                                        p.spec.target, Now(cluster))
          ELSE ScopeOf(p)

RightObject(n, p) ==
    IF backend = "kubernetes" /\ p.spec.mode = "monitor"
    THEN \A o \in Now(objects[n]) : o.owner # p.uid
    ELSE Now(objects[n]) = {Desired(p)}

(* When the controller has nothing left to do, every policy has the         *)
(* condition its current spec, its competitors and the workloads call for,  *)
(* and the oldest policy of each target has the object of its current spec  *)
(* (none in monitor mode on Kubernetes), unless its selector left the       *)
(* target.  Whatever was read from a stale cache, failed, or happened       *)
(* between two steps of the worker has been repaired by a later event.      *)
(* With foreign writers of data-plane objects this needs OwnersSeen: Owns   *)
(* maps an event to the controller an object had before or has after, and   *)
(* when a relist misses the time between, only the next resync repairs it.  *)
Converged ==
    Quiet => \A n \in Names : \A p \in Now(policies[n]) :
        /\ RightCondition(n, p)
        /\ Renders(n, p) /\ ~LeftTarget(p) => RightObject(n, p)

(* A condition is only ever written for the spec it was computed from: the  *)
(* generation it carries is the one the policy has at that moment, though   *)
(* the controller read the policy from a cache (the optimistic lock of      *)
(* updateReadyCondition).                                                  *)
ConditionsAreCurrent ==
    [][\A n \in Names : \A p \in Now(policies[n]), q \in Now(policies'[n]) :
          p.uid = q.uid /\ p.condition # q.condition => q.condition.gen = q.gen]_vars

(* In protect mode on Kubernetes the worker never overwrites an object that *)
(* someone else controls: the object it checked is a cached copy, and the   *)
(* one it reads again for the update may have changed hands, but that one   *)
(* is checked too and the update carries its resource version               *)
(* (reconcileK8sPolicy, reconcileProtect).                                 *)
OthersObjectsKept ==
    [][Render /\ backend = "kubernetes" /\ (\A p \in job.policy : p.spec.mode = "protect") =>
          \A n \in Names : \A o \in Now(objects[n]) :
              o.owner < 0 => Now(objects'[n]) = {o}]_vars

(* Reconciliation comes to rest once users leave the objects alone: writing *)
(* conditions and objects does not feed itself, and no failure stops the    *)
(* retries.                                                                *)
ComesToRest == <>[]Quiet
==============================================================================
