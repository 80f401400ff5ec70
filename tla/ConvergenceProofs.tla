-------------------------- MODULE ConvergenceProofs --------------------------
(***************************************************************************)
(* A controller at rest is right: once every queue is empty and every      *)
(* cache is current, each policy has the condition and the object that the *)
(* cluster calls for.                                                      *)
(*                                                                         *)
(* The invariant says where the work is when something is not yet right: a *)
(* policy that is not in the queue has what it is due by the caches, or    *)
(* the worker is about to give it that, or a change of the policy or of    *)
(* its object is on its way to a cache and will bring it back.  Deliveries *)
(* preserve it because the event handlers enqueue whoever they concern.    *)
(***************************************************************************)
EXTENDS PolicyReconcileProofs

USE SMTT(30), ZenonT(20)

Working(n) == job.step # "idle" /\ job.name = n
Done(n, p) == p.condition = Condition(Due(n, p), p) /\ Settled(n, p)

(* A policy that is not in the queue has what it is due, or the worker is   *)
(* about to give it that, or a change of it is on its way to the cache.    *)
Accounted(n) ==
    \A p \in Cached(policies[n]) :
        IF Working(n) THEN Doing(n, p, job) ELSE Len(policies[n]) = 1 => Done(n, p)

Tracked == \A n \in Names \ queue : Accounted(n)

\* What a policy is due depends on what is cached.
LEMMA SameDue ==
  ASSUME NEW n \in Names, NEW p, UNCHANGED backend, Conflict(n, p)' = Conflict(n, p),
         Cached(cluster') = Cached(cluster), Cached(objects'[n]) = Cached(objects[n]),
         Announced(objects[n]) => Announced(objects'[n])
  PROVE  Due(n, p)' = Due(n, p) /\ (Settled(n, p) => Settled(n, p)') /\ (InPlace(n, p) => InPlace(n, p)')
<1>1. Own(n, p)' = Own(n, p)
  BY DEF Own
<1>2. Scope(p)' = Scope(p)
  BY DEF Scope
<1>3. Left(p)' = Left(p)
  BY <1>2 DEF Left
<1>4. Retained(n, p)' = Retained(n, p)
  BY <1>1 DEF Retained
<1>5. Desired(p)' = Desired(p)
  BY DEF Desired
<1>6. InPlace(n, p)' = InPlace(n, p)
  BY <1>1, <1>5 DEF InPlace
<1>7. Due(n, p)' = Due(n, p)
  BY <1>2, <1>3, <1>4 DEF Due
<1>8. Settled(n, p) => Settled(n, p)'
  BY <1>3, <1>6 DEF Settled
<1>. QED BY <1>6, <1>7, <1>8

\* The conflict over a target depends on the policies in the cache.
LEMMA SameConflict ==
  ASSUME NEW n, NEW p, \A m \in Names : Cached(policies'[m]) = Cached(policies[m])
  PROVE  Conflict(n, p)' = Conflict(n, p)
<1>1. CachedPolicies' = CachedPolicies
  BY DEF CachedPolicies
<1>. QED BY <1>1 DEF Conflict, CheckDuplicateTarget, Targeting, Older

\* A policy is still accounted for when nothing it is due changed.
LEMMA KeptAccount ==
  ASSUME NEW n \in Names, Accounted(n),
         Cached(policies'[n]) = Cached(policies[n]),
         Len(policies'[n]) = 1 => Len(policies[n]) = 1,
         \A p \in Cached(policies[n]) : Due(n, p)' = Due(n, p) /\ (Settled(n, p) => Settled(n, p)'),
         Working(n)' <=> Working(n), Working(n) => UNCHANGED job
  PROVE  Accounted(n)'
<1>. SUFFICES ASSUME NEW p \in Cached(policies[n])
              PROVE  IF Working(n)' THEN Doing(n, p, job)' ELSE Len(policies'[n]) = 1 => Done(n, p)'
  BY DEF Accounted
<1>1. CASE Working(n)
  <2>1. Doing(n, p, job) /\ job' = job
    BY <1>1 DEF Accounted
  <2>. QED BY <1>1, <2>1 DEF Doing
<1>2. CASE ~Working(n)
  <2>1. Len(policies'[n]) = 1 => Done(n, p)
    BY <1>2 DEF Accounted
  <2>. QED BY <1>2, <2>1 DEF Done
<1>. QED BY <1>1, <1>2

\* A write to a log hides no change that is on its way.
LEMMA StillAnnounced ==
  ASSUME NEW S, NEW log \in Logs(S), NEW state \in S, NEW new, new = Changed(log, state), Announced(log)
  PROVE  Announced(new)
<1>1. /\ \A k \in DOMAIN log : k \in DOMAIN new /\ new[k] = log[k]
      /\ Len(new) >= Len(log) /\ new \in Logs(S)
  BY WrittenLog
<1>2. Len(log) \in Nat /\ Len(new) \in Nat
  BY <1>1, LogEnds
<1>3. PICK k \in DOMAIN log : Len(log) > 1 /\ Owned(log[k])
  BY DEF Announced
<1>4. k \in DOMAIN new /\ Owned(new[k]) /\ Len(new) > 1
  BY <1>1, <1>2, <1>3
<1>. QED BY <1>4 DEF Announced

\* Writes to the API server change nothing that is cached.
LEMMA PoliciesWritten ==
  ASSUME IInv, NEW n \in Names, NEW state \in PolicyState, Store(n, state)
  PROVE  \A m \in Names : /\ Cached(policies'[m]) = Cached(policies[m])
                          /\ Len(policies'[m]) = 1 => Len(policies[m]) = 1
<1>1. /\ policies' = [policies EXCEPT ![n] = Changed(policies[n], state)]
      /\ policies \in [Names -> Logs(PolicyState)] /\ policies[n] \in Logs(PolicyState)
  BY DEF Store, IInv, Typed
<1>2. /\ \A m \in Names : Cached(policies'[m]) = Cached(policies[m])
      /\ policies'[n] = Changed(policies[n], state)
      /\ \A m \in Names \ {n} : policies'[m] = policies[m]
  BY <1>1, OneWritten
<1>3. Len(Changed(policies[n], state)) = 1 => Changed(policies[n], state) = policies[n]
  BY <1>1, WrittenLog
<1>. QED BY <1>2, <1>3

\* Nor do writes to the data-plane objects, and what was on its way stays so.
LEMMA ObjectsWritten ==
  ASSUME IInv, NEW n \in Names, NEW state \in ObjectState, StoreObject(n, state)
  PROVE  /\ \A m \in Names : /\ Cached(objects'[m]) = Cached(objects[m])
                             /\ Announced(objects[m]) => Announced(objects'[m])
         /\ objects'[n] \in Logs(ObjectState) /\ Now(objects'[n]) = state
<1>1. /\ objects' = [objects EXCEPT ![n] = Changed(objects[n], state)]
      /\ objects \in [Names -> Logs(ObjectState)] /\ objects[n] \in Logs(ObjectState)
  BY DEF StoreObject, IInv, Typed
<1>2. /\ \A m \in Names : Cached(objects'[m]) = Cached(objects[m])
      /\ objects'[n] = Changed(objects[n], state)
      /\ \A m \in Names \ {n} : objects'[m] = objects[m]
      /\ objects' \in [Names -> Logs(ObjectState)] /\ Now(objects'[n]) = state
  BY <1>1, OneWritten
<1>3. Announced(objects[n]) => Announced(objects'[n])
  BY <1>1, <1>2, StillAnnounced
<1>4. objects'[n] \in Logs(ObjectState)
  BY <1>2
<1>. QED BY <1>2, <1>3, <1>4

\* The users, and the garbage collector: only the API server changes.
LEMMA TrackedUnderWrites ==
  ASSUME IInv, Tracked, UNCHANGED <<backend, queue, job>>,
         \A m \in Names : /\ Cached(policies'[m]) = Cached(policies[m])
                          /\ Len(policies'[m]) = 1 => Len(policies[m]) = 1
                          /\ Cached(objects'[m]) = Cached(objects[m])
                          /\ Announced(objects[m]) => Announced(objects'[m]),
         Cached(cluster') = Cached(cluster)
  PROVE  Tracked'
<1>. SUFFICES ASSUME NEW n \in Names \ queue PROVE Accounted(n)'
  BY DEF Tracked
<1>1. Accounted(n)
  BY DEF Tracked
<1>2. \A p : Conflict(n, p)' = Conflict(n, p)
  BY SameConflict
<1>3. \A p \in Cached(policies[n]) : Due(n, p)' = Due(n, p) /\ (Settled(n, p) => Settled(n, p)')
  BY <1>2, SameDue
<1>4. Working(n)' <=> Working(n)
  BY DEF Working
<1>. QED BY <1>1, <1>3, <1>4, KeptAccount

\* Whatever users, others and the garbage collector write, its delivery is still
\* to come.
LEMMA TrackedEdits ==
  ASSUME IInv, Tracked, Edit \/ \E n \in Names : CollectGarbage(n)
  PROVE  Tracked'
<1>1. UNCHANGED <<backend, queue, job>>
  BY ZenonT(30) DEF Edit, CollectGarbage, CreatePolicy, UpdatePolicy, DeletePolicy, TouchObject, ChangeCluster, NothingElse
<1>. DEFINE Same(m) == /\ Cached(policies'[m]) = Cached(policies[m])
                       /\ Len(policies'[m]) = 1 => Len(policies[m]) = 1
                       /\ Cached(objects'[m]) = Cached(objects[m])
                       /\ Announced(objects[m]) => Announced(objects'[m])
<1>2. IInv'
  BY TypedNext DEF Next
<1>3. ASSUME NEW n \in Names, NEW spec,
             (spec \in Specs /\ (CreatePolicy(n, spec) \/ UpdatePolicy(n, spec))) \/ DeletePolicy(n)
      PROVE  (\A m \in Names : Same(m)) /\ Cached(cluster') = Cached(cluster)
  <2>1. PICK state : Store(n, state)
    BY <1>3, ZenonT(30) DEF CreatePolicy, UpdatePolicy, DeletePolicy
  <2>2. state \in PolicyState
    <3>1. policies[n] \in Logs(PolicyState) /\ policies \in [Names -> Logs(PolicyState)]
      BY DEF IInv, Typed
    <3>2. policies'[n] = Changed(policies[n], state)
      BY <2>1, <3>1 DEF Store
    <3>3. Now(policies'[n]) = state
      BY <3>1, <3>2, NewestWritten
    <3>4. policies'[n] \in Logs(PolicyState)
      BY <1>2 DEF IInv, Typed
    <3>. QED BY <3>3, <3>4, LogEnds
  <2>3. UNCHANGED <<objects, cluster>>
    BY <1>3, ZenonT(30) DEF CreatePolicy, UpdatePolicy, DeletePolicy
  <2>. QED BY <2>1, <2>2, <2>3, PoliciesWritten
<1>4. ASSUME NEW n \in Names, TouchObject(n) \/ CollectGarbage(n)
      PROVE  (\A m \in Names : Same(m)) /\ Cached(cluster') = Cached(cluster)
  <2>1. PICK state : StoreObject(n, state)
    BY <1>4 DEF TouchObject, CollectGarbage
  <2>2. state \in ObjectState
    <3>1. objects[n] \in Logs(ObjectState) /\ objects \in [Names -> Logs(ObjectState)]
      BY DEF IInv, Typed
    <3>2. objects'[n] = Changed(objects[n], state)
      BY <2>1, <3>1 DEF StoreObject
    <3>3. Now(objects'[n]) = state
      BY <3>1, <3>2, NewestWritten
    <3>4. objects'[n] \in Logs(ObjectState)
      BY <1>2 DEF IInv, Typed
    <3>. QED BY <3>3, <3>4, LogEnds
  <2>3. UNCHANGED <<policies, cluster>>
    BY <1>4 DEF TouchObject, CollectGarbage
  <2>. QED BY <2>1, <2>2, <2>3, ObjectsWritten
<1>5. ASSUME NEW c \in Clusters, ChangeCluster(c)
      PROVE  (\A m \in Names : Same(m)) /\ Cached(cluster') = Cached(cluster)
  <2>1. cluster' = Changed(cluster, c) /\ UNCHANGED <<policies, objects>>
    BY <1>5 DEF ChangeCluster
  <2>2. cluster \in Logs(Clusters)
    BY DEF IInv, Typed
  <2>. QED BY <2>1, <2>2, WrittenLog
<1>6. (\A m \in Names : Same(m)) /\ Cached(cluster') = Cached(cluster)
  BY <1>3, <1>4, <1>5 DEF Edit
<1>. QED BY <1>1, <1>6, TrackedUnderWrites

(* Two lists with the same policies of a target, created at the same time. *)
Alike(one, two, target) ==
    /\ \A m \in Names : (\E q \in one[m] : q.spec.target = target) <=> (\E q \in two[m] : q.spec.target = target)
    /\ \A m \in Targeting(one, target) :
          /\ \A q \in one[m] : \E r \in two[m] : r.created = q.created
          /\ \A r \in two[m] : \E q \in one[m] : r.created = q.created

\* A conflict depends on who has the target and when those were created.
LEMMA EqualConflict ==
  ASSUME NEW one, NEW two, NEW n \in Names, NEW p,
         n \in Targeting(one, p.spec.target), Alike(one, two, p.spec.target)
  PROVE  CheckDuplicateTarget(one, n, p) = CheckDuplicateTarget(two, n, p)
<1>. DEFINE same == Targeting(one, p.spec.target)
<1>1. Targeting(two, p.spec.target) = same
  BY DEF Targeting, Alike
<1>2. n \in same
  OBVIOUS
<1>3. ASSUME NEW m \in same
      PROVE  Older(one, n, m) <=> Older(two, n, m)
  <2>1. ASSUME Older(one, n, m) PROVE Older(two, n, m)
    <3>1. PICK x \in one[n], y \in one[m] : x.created < y.created \/ (x.created = y.created /\ n < m)
      BY <2>1 DEF Older
    <3>2. PICK v \in two[n], w \in two[m] : v.created = x.created /\ w.created = y.created
      BY <1>2 DEF Alike
    <3>. QED BY <3>1, <3>2 DEF Older
  <2>2. ASSUME Older(two, n, m) PROVE Older(one, n, m)
    <3>1. PICK x \in two[n], y \in two[m] : x.created < y.created \/ (x.created = y.created /\ n < m)
      BY <2>2 DEF Older
    <3>2. PICK v \in one[n], w \in one[m] : v.created = x.created /\ w.created = y.created
      BY <1>2 DEF Alike
    <3>. QED BY <3>1, <3>2 DEF Older
  <2>. QED BY <2>1, <2>2
<1>4. (\A m \in same \ {n} : Older(one, n, m)) <=> (\A m \in same \ {n} : Older(two, n, m))
  BY <1>3
<1>. HIDE DEF same
<1>. QED BY <1>1, <1>4, ZenonT(30) DEF CheckDuplicateTarget, same

\* A delivery of policy m brings back whoever's conflict it changes.
LEMMA ConflictDelivered ==
  ASSUME IInv, NEW m \in Names, NEW k \in Later(policies[m]),
         policies' = [policies EXCEPT ![m] = From(policies[m], k)],
         NEW n \in Names \ {m}, NEW p \in Cached(policies[n]),
         n \notin PolicyRequests([CachedPolicies EXCEPT ![m] = policies[m][k]], m,
                                 Cached(policies[m]), policies[m][k])
  PROVE  Conflict(n, p)' = Conflict(n, p)
<1>0. policies \in [Names -> Logs(PolicyState)] /\ policies[m] \in Logs(PolicyState)
  BY DEF IInv, Typed
<1>1. /\ \A x \in Names \ {m} : policies'[x] = policies[x]
      /\ Cached(policies'[m]) = policies[m][k] /\ policies[m][k] \in PolicyState
  <2>1. PICK logs, new : logs = policies /\ new = policies'
    OBVIOUS
  <2>2. Reads(logs, new, m, k, PolicyState)
    BY <1>0, <2>1 DEF Reads
  <2>3. /\ \A x \in Names \ {m} : new[x] = logs[x]
        /\ Cached(new[m]) = logs[m][k] /\ logs[m][k] \in PolicyState
    BY ONLY <2>2, OneRead
  <2>. QED BY <2>1, <2>3
<1>2. PICK old, new : old = Cached(policies[m]) /\ new = policies[m][k]
  OBVIOUS
<1>3. k \in DOMAIN policies[m]
  BY <1>0, LogEnds, ReadLog
<1>4. old \subseteq Versions(policies[m]) /\ new \subseteq Versions(policies[m])
  BY <1>0, <1>2, <1>3, LogEnds
<1>5. (\A q \in old : old = {q}) /\ (\A q \in new : new = {q})
  <2>1. old \in PolicyState /\ new \in PolicyState
    BY <1>1, <1>2, TypedStates
  <2>. QED BY <2>1 DEF PolicyState, None
<1>. DEFINE one == CachedPolicies
            two == [CachedPolicies EXCEPT ![m] = new]
            t == p.spec.target
<1>6. CachedPolicies' = two
  <2>1. \A x \in Names : Cached(policies'[x]) = two[x]
    BY <1>1, <1>2 DEF CachedPolicies
  <2>2. two = [x \in Names |-> two[x]]
    BY ZenonT(30) DEF CachedPolicies
  <2>. HIDE DEF two
  <2>. QED BY <2>1, <2>2 DEF CachedPolicies
<1>7. /\ \A x \in Names \ {m} : one[x] = Cached(policies[x]) /\ two[x] = one[x]
      /\ one[m] = old /\ two[m] = new
  BY <1>2 DEF CachedPolicies
<1>8. \/ \A q \in old \cup new : q.spec.target # t
      \/ \E q \in old, r \in new : q.spec = r.spec /\ q.created = r.created
  <2>1. CASE WorkloadChanges(old, new)
    <3>1. n \notin DuplicateTargetPolicies(two, m, old, new)
      BY <1>2, <2>1 DEF PolicyRequests
    <3>2. p \in two[n]
      BY <1>7
    <3>. HIDE DEF two
    <3>3. \A q \in old \cup new : n \notin Targeting(two, q.spec.target)
      BY <3>1 DEF DuplicateTargetPolicies
    <3>. QED BY <3>2, <3>3 DEF Targeting
  <2>2. CASE ~WorkloadChanges(old, new)
    <3>1. PICK q \in old, r \in new : q.uid = r.uid /\ q.gen = r.gen
      BY <2>2 DEF WorkloadChanges
    <3>2. q.spec = r.spec /\ q.created = r.created
      BY <1>4, <3>1 DEF IInv, Coherent
    <3>. QED BY <3>1, <3>2
  <2>. QED BY <2>1, <2>2
<1>. HIDE DEF one, two
<1>9. \E q \in one[n] : q.spec.target = t
  BY <1>7
<1>10. (\E q \in one[m] : q.spec.target = t) <=> (\E q \in two[m] : q.spec.target = t)
  BY <1>5, <1>7, <1>8
<1>11. \A x \in Names : (\E q \in one[x] : q.spec.target = t) <=> (\E q \in two[x] : q.spec.target = t)
  BY <1>7, <1>10
<1>12. ASSUME NEW x \in Targeting(one, t)
       PROVE  /\ \A q \in one[x] : \E r \in two[x] : r.created = q.created
              /\ \A r \in two[x] : \E q \in one[x] : r.created = q.created
  <2>1. CASE x # m
    BY <1>7, <1>12, <2>1 DEF Targeting
  <2>2. CASE x = m
    <3>1. \E q \in old : q.spec.target = t
      BY <1>7, <1>12, <2>2 DEF Targeting
    <3>2. PICK q \in old, r \in new : q.created = r.created
      BY <1>8, <3>1
    <3>. QED BY <1>5, <1>7, <2>2, <3>2
  <2>. QED BY <2>1, <2>2
<1>13. CheckDuplicateTarget(one, n, p) = CheckDuplicateTarget(two, n, p)
  <2>1. Alike(one, two, p.spec.target)
    BY <1>11, <1>12 DEF Alike
  <2>2. n \in Targeting(one, p.spec.target)
    BY <1>9 DEF Targeting
  <2>. QED BY <2>1, <2>2, EqualConflict
<1>14. Conflict(n, p)' = CheckDuplicateTarget(CachedPolicies', n, p)
  BY DEF Conflict, CheckDuplicateTarget, Targeting, Older
<1>. QED BY <1>6, <1>13, <1>14 DEF Conflict, one

\* A policy event enqueues the policy and those whose conflict it changes
\* (duplicateTargetPolicies, the watches of SetupWithManager).
LEMMA TrackedDeliverPolicy ==
  ASSUME IInv, Tracked, NEW m \in Names, DeliverPolicy(m)
  PROVE  Tracked'
<1>. SUFFICES ASSUME NEW n \in Names \ queue' PROVE Accounted(n)'
  BY DEF Tracked
<1>1. PICK k \in Later(policies[m]) :
         /\ policies' = [policies EXCEPT ![m] = From(policies[m], k)]
         /\ queue' = queue \cup PolicyRequests([CachedPolicies EXCEPT ![m] = policies[m][k]], m,
                                               Cached(policies[m]), policies[m][k])
  BY ZenonT(30) DEF DeliverPolicy
<1>2. n # m /\ n \notin queue
  BY <1>1 DEF PolicyRequests
<1>3. /\ n \notin PolicyRequests([CachedPolicies EXCEPT ![m] = policies[m][k]], m,
                                 Cached(policies[m]), policies[m][k])
      /\ n \in Names \ {m}
  BY <1>1, <1>2
<1>4. policies'[n] = policies[n] /\ UNCHANGED <<objects, cluster, backend, job>>
  BY <1>1, <1>2 DEF DeliverPolicy, Unhandled, IInv, Typed
<1>5. \A p \in Cached(policies[n]) : Conflict(n, p)' = Conflict(n, p)
  BY <1>1, <1>3, ConflictDelivered, ZenonT(30)
<1>6. \A p \in Cached(policies[n]) : Due(n, p)' = Due(n, p) /\ (Settled(n, p) => Settled(n, p)')
  BY <1>4, <1>5, SameDue
<1>7. Accounted(n) /\ (Working(n)' <=> Working(n))
  BY <1>2, <1>4 DEF Tracked, Working
<1>. QED BY <1>4, <1>6, <1>7, KeptAccount

\* A change of the object that is not announced to the policy was not about its object.
LEMMA SettledDelivered ==
  ASSUME IInv, NEW n \in Names, NEW k \in Later(objects[n]), NEW p \in Policies,
         objects' = [objects EXCEPT ![n] = From(objects[n], k)],
         UNCHANGED <<policies, cluster, backend, faults>>, ~OwnerMissed(objects[n], k),
         ~Owned(Cached(objects[n])), ~Owned(objects[n][k])
  PROVE  Due(n, p)' = Due(n, p) /\ (Settled(n, p) => Settled(n, p)')
<1>. DEFINE log == objects[n]
<1>0. objects \in [Names -> Logs(ObjectState)] /\ log \in Logs(ObjectState) /\ objects'[n] = From(log, k)
  BY DEF IInv, Typed
<1>1. /\ k \in 2 .. Len(log) /\ Cached(objects'[n]) = log[k]
      /\ Len(objects'[n]) = Len(log) - k + 1
      /\ \A i \in k .. Len(log) : objects'[n][i - k + 1] = log[i]
      /\ objects'[n] \in Logs(ObjectState)
  BY <1>0, ReadLog
<1>2. Len(log) \in Nat /\ DOMAIN log = 1 .. Len(log) /\ DOMAIN objects'[n] = 1 .. Len(objects'[n])
  BY <1>0, <1>1, LogEnds
<1>3. p.uid \in Nat /\ p.uid > 0
  BY DEF Policies
<1>4. Own(n, p) = {} /\ Own(n, p)' = {}
  BY <1>1, <1>3 DEF Own, Owned
<1>5. Conflict(n, p)' = Conflict(n, p)
  BY SameConflict
<1>6. Scope(p)' = Scope(p)
  BY DEF Scope
<1>7. Left(p)' = Left(p)
  BY <1>6 DEF Left
<1>8. Retained(n, p)' = Retained(n, p)
  BY <1>4 DEF Retained
<1>9. Due(n, p)' = Due(n, p)
  BY <1>5, <1>6, <1>7, <1>8 DEF Due
<1>10. Announced(log) => Announced(objects'[n])
  <2>. SUFFICES ASSUME Announced(log) PROVE Announced(objects'[n])
    OBVIOUS
  <2>1. PICK i \in DOMAIN log : Owned(log[i])
    BY DEF Announced
  <2>2. i \notin 1 .. k
    BY <2>1 DEF OwnerMissed
  <2>3. i \in k .. Len(log) /\ i - k + 1 \in 1 .. Len(objects'[n]) /\ Len(objects'[n]) > 1
    BY <1>1, <1>2, <2>1, <2>2
  <2>4. Owned(objects'[n][i - k + 1])
    BY <1>1, <2>1, <2>3
  <2>. QED BY <1>2, <2>3, <2>4 DEF Announced
<1>11. InPlace(n, p) => InPlace(n, p)'
  <2>1. CASE backend = "kubernetes" /\ p.spec.mode = "monitor"
    BY <1>4, <2>1 DEF InPlace
  <2>2. CASE ~(backend = "kubernetes" /\ p.spec.mode = "monitor")
    <3>1. Owned({Desired(p)})
      BY DesiredObject DEF Owned
    <3>. QED BY <2>2, <3>1 DEF InPlace
  <2>. QED BY <2>1, <2>2
<1>. HIDE DEF log
<1>. QED BY <1>5, <1>7, <1>9, <1>10, <1>11 DEF Settled, log

(* Every data-plane object was rendered from a policy. *)
AllOwned == \A n \in Names : \A o \in Versions(objects[n]) : o.owner > 0

\* Then every event on an object names the policy that controls it.
LEMMA AllOwnedMissesNone ==
  ASSUME IInv, AllOwned, NEW n \in Names, NEW k \in Later(objects[n])
  PROVE  ~OwnerMissed(objects[n], k)
<1>1. objects[n] \in Logs(ObjectState)
  BY TypedStates
<1>2. k \in DOMAIN objects[n] /\ objects[n][k] # Cached(objects[n])
  BY <1>1, LogEnds, ReadLog
<1>3. objects[n][k] \subseteq Versions(objects[n]) /\ Cached(objects[n]) \subseteq Versions(objects[n])
  BY <1>1, <1>2, LogEnds
<1>4. PICK o : o \in objects[n][k] \/ o \in Cached(objects[n])
  BY <1>2
<1>. QED BY <1>3, <1>4 DEF AllOwned, Owned, OwnerMissed

\* An object event enqueues the policy that controls or controlled the object
\* (the owner watches of SetupWithManager).
LEMMA TrackedDeliverObject ==
  ASSUME IInv, Tracked, NEW m \in Names, DeliverObject(m), OwnersSeen \/ AllOwned
  PROVE  Tracked'
<1>. SUFFICES ASSUME NEW n \in Names \ queue' PROVE Accounted(n)'
  BY DEF Tracked
<1>1. PICK k \in Later(objects[m]) :
         /\ OwnersSeen => ~OwnerMissed(objects[m], k)
         /\ objects' = [objects EXCEPT ![m] = From(objects[m], k)]
         /\ queue' = queue \cup ObjectRequests(m, Cached(objects[m]), objects[m][k])
  BY ZenonT(30) DEF DeliverObject
<1>2. UNCHANGED <<policies, cluster, backend, job, faults>> /\ n \notin queue
  BY <1>1 DEF DeliverObject, Unhandled
<1>3. \A p \in Cached(policies[n]) : Due(n, p)' = Due(n, p) /\ (Settled(n, p) => Settled(n, p)')
  <2>1. CASE n = m
    <3>1. ~Owned(Cached(objects[m])) /\ ~Owned(objects[m][k])
      BY <1>1, <2>1 DEF ObjectRequests, Owned
    <3>2. \A p \in Cached(policies[n]) : p \in Policies
      BY TypedStates
    <3>3. ~OwnerMissed(objects[m], k)
      BY <1>1, AllOwnedMissesNone
    <3>. QED BY <1>1, <1>2, <2>1, <3>1, <3>2, <3>3, SettledDelivered, ZenonT(30)
  <2>2. CASE n # m
    <3>1. objects'[n] = objects[n]
      BY <1>1, <2>2 DEF IInv, Typed
    <3>2. \A p : Conflict(n, p)' = Conflict(n, p)
      BY <1>2, SameConflict
    <3>. QED BY <1>2, <3>1, <3>2, SameDue
  <2>. QED BY <2>1, <2>2
<1>4. Accounted(n) /\ (Working(n)' <=> Working(n))
  BY <1>2 DEF Tracked, Working
<1>. QED BY <1>2, <1>3, <1>4, KeptAccount

\* A change of the workloads brings every policy back, and so does a restart.
LEMMA TrackedResync ==
  ASSUME IInv, DeliverCluster \/ Restart
  PROVE  Tracked'
<1>. SUFFICES ASSUME NEW n \in Names \ queue' PROVE Cached(policies'[n]) = None
  BY DEF Tracked, Accounted, None
<1>1. CASE DeliverCluster
  BY <1>1 DEF DeliverCluster
<1>2. CASE Restart
  <2>1. policies'[n] = <<Now(policies[n])>> /\ Now(policies[n]) = None
    BY <1>2 DEF Restart
  <2>2. Cached(policies'[n]) = Now(policies[n])
    BY <2>1, TypedStates, AllRead
  <2>. QED BY <2>1, <2>2
<1>. QED BY <1>1, <1>2

\* Reconcile takes a policy from the queue into the worker's hands.
LEMMA TrackedReconcile ==
  ASSUME IInv, Tracked, NEW m \in queue, Reconcile(m)
  PROVE  Tracked'
<1>. SUFFICES ASSUME NEW n \in Names \ queue' PROVE Accounted(n)'
  BY DEF Tracked
<1>0. m \in Names
  BY DEF IInv, Typed
<1>1. /\ job = NothingToDo /\ queue' = queue \ {m}
      /\ UNCHANGED <<backend, cluster, clock, uids, edits, touches, policies, objects, faults>>
  BY DEF Reconcile, WorkerOnly
<1>2. \A p : Conflict(n, p)' = Conflict(n, p)
  BY <1>1, SameConflict
<1>3. \A p : Due(n, p)' = Due(n, p) /\ (Settled(n, p) => Settled(n, p)')
  BY <1>1, <1>2, SameDue
<1>4. ASSUME NEW p \in Cached(policies[m])
      PROVE  job'.step # "idle" /\ job'.name = m /\ Doing(m, p, job')
  BY <1>4, ReconcileStarts
<1>5. CASE n = m
  <2>. SUFFICES ASSUME NEW p \in Cached(policies[m]) PROVE Working(m)' /\ Doing(m, p, job)'
    BY <1>1, <1>5 DEF Accounted
  <2>1. Doing(m, p, job') /\ Due(m, p)' = Due(m, p) /\ (Settled(m, p) => Settled(m, p)')
    BY <1>3, <1>4, <1>5
  <2>2. Doing(m, p, job)'
    BY <2>1 DEF Doing
  <2>. QED BY <1>4, <2>2 DEF Working
<1>6. CASE n # m
  <2>1. Accounted(n)
    BY <1>1, <1>6 DEF Tracked
  <2>2. ~Working(n) /\ ~Working(n)'
    <3>1. job'.step # "idle" => job'.name = m
      <4>1. CASE Cached(policies[m]) = None
        BY <1>1, <4>1 DEF Reconcile, NothingToDo
      <4>2. CASE Cached(policies[m]) # None
        BY <1>4, <4>2 DEF None
      <4>. QED BY <4>1, <4>2
    <3>. QED BY <1>1, <1>6, <3>1 DEF Working, NothingToDo
  <2>. QED BY <1>1, <1>3, <2>1, <2>2, KeptAccount
<1>. QED BY <1>5, <1>6

\* Render leaves an object in place, announces a change, or fails and retries
\* (reconcileK8sPolicy, reconcileIstioPolicy).
LEMMA TrackedRender ==
  ASSUME IInv, Tracked, Render
  PROVE  Tracked'
<1>. SUFFICES ASSUME NEW n \in Names \ queue' PROVE Accounted(n)'
  BY DEF Tracked
<1>1. job.step = "render" /\ UNCHANGED <<backend, cluster, clock, uids, edits, touches, policies, queue>>
  BY DEF Render, WorkerOnly
<1>2. job \in Jobs /\ job.name \in Names /\ ~job.failed
  BY <1>1, JobFields DEF IInv, Typed
<1>3. PICK p, answer, ok :
         /\ p \in job.policy
         /\ answer = Write(p, Cached(objects[job.name]), Now(objects[job.name]))
         /\ StoreObject(job.name, answer.object) \/ UNCHANGED objects
         /\ job' = Rendering(ok) /\ ok \in {FALSE, answer.ok}
         /\ ok => StoreObject(job.name, answer.object) /\ answer.ok
  <2>1. PICK p, answer :
           /\ p \in job.policy
           /\ answer = Write(p, Cached(objects[job.name]), Now(objects[job.name]))
           /\ \/ StoreObject(job.name, answer.object) /\ job' = Rendering(answer.ok)
              \/ /\ StoreObject(job.name, answer.object) \/ UNCHANGED objects
                 /\ job' = Rendering(FALSE)
    BY ZenonT(30) DEF Render
  <2>2. answer.ok \in BOOLEAN
    BY <1>2, <2>1, JobFields, WriteGives, ZenonT(30)
  <2>3. CASE StoreObject(job.name, answer.object) /\ job' = Rendering(answer.ok)
    <3>1. PICK ok : ok = answer.ok
      OBVIOUS
    <3>. QED BY <2>1, <2>2, <2>3, <3>1, ZenonT(30)
  <2>4. CASE (StoreObject(job.name, answer.object) \/ UNCHANGED objects) /\ job' = Rendering(FALSE)
    <3>1. PICK ok : ok = FALSE
      BY ZenonT(30)
    <3>. QED BY <2>1, <2>4, <3>1, ZenonT(30)
  <2>. QED BY <2>1, <2>3, <2>4, ZenonT(30)
<1>4. p \in Policies /\ p.uid <= uids /\ job.policy = {p}
  BY <1>3, JobFields
<1>5. /\ answer.object \in ObjectState /\ answer.ok \in BOOLEAN
      /\ answer.ok => \/ InPlace(job.name, p)
                      \/ /\ answer.object # Cached(objects[job.name])
                         /\ Owned(answer.object) \/ Owned(Cached(objects[job.name]))
  BY <1>2, <1>3, <1>4, WriteGives, ZenonT(30)
<1>6. /\ job' \in Jobs /\ job'.step = "patch" /\ job'.name = job.name /\ job'.policy = job.policy
      /\ job'.failed <=> ~ok
      /\ ok => job'.condition = job.condition
      /\ job'.condition.gen = job.condition.gen
  BY <1>1, <1>2, <1>3, <1>5, RenderedJob, ZenonT(30)
<1>7. \A m \in Names : /\ Cached(objects'[m]) = Cached(objects[m])
                       /\ Announced(objects[m]) => Announced(objects'[m])
  <2>1. CASE StoreObject(job.name, answer.object)
    BY <1>2, <1>5, <2>1, ObjectsWritten
  <2>2. CASE UNCHANGED objects
    BY <2>2
  <2>. QED BY <1>3, <2>1, <2>2
<1>8. \A q : Conflict(n, q)' = Conflict(n, q)
  BY <1>1, SameConflict
<1>9. \A q : /\ Due(n, q)' = Due(n, q) /\ (Settled(n, q) => Settled(n, q)')
             /\ InPlace(n, q) => InPlace(n, q)'
  BY <1>1, <1>7, <1>8, SameDue
<1>10. Accounted(n)
  BY <1>1 DEF Tracked
<1>11. CASE n = job.name
  <2>. SUFFICES ASSUME NEW q \in Cached(policies[n]) PROVE Working(n)' /\ Doing(n, q, job)'
    BY <1>1 DEF Accounted
  <2>1. Doing(n, q, job) /\ q = p
    <3>1. Working(n)
      BY <1>1, <1>11 DEF Working
    <3>2. Doing(n, q, job)
      BY <1>10, <3>1 DEF Accounted
    <3>. QED BY <1>4, <3>2 DEF Doing
  <2>2. Working(n)'
    BY <1>6, <1>11 DEF Working
  <2>3. ASSUME ok PROVE Announced(objects'[n]) \/ InPlace(n, p)'
    <3>1. StoreObject(n, answer.object)
      BY <1>3, <1>11, <2>3
    <3>2. objects'[n] \in Logs(ObjectState) /\ Now(objects'[n]) = answer.object
      BY <1>2, <1>5, <1>11, <3>1, ObjectsWritten
    <3>3. CASE InPlace(n, p)
      BY <1>9, <3>3
    <3>4. CASE /\ answer.object # Cached(objects[n])
               /\ Owned(answer.object) \/ Owned(Cached(objects[n]))
      <4>1. PICK log : log = objects'[n]
        OBVIOUS
      <4>2. /\ log \in Logs(ObjectState) /\ Now(log) # Cached(log)
            /\ Owned(Now(log)) \/ Owned(Cached(log))
        BY <1>7, <3>2, <3>4, <4>1
      <4>3. /\ Len(log) \in Nat \ {0} /\ DOMAIN log = 1 .. Len(log)
            /\ Len(log) = 1 => Now(log) = Cached(log)
        BY <4>2, LogEnds
      <4>4. Len(log) > 1 /\ 1 \in DOMAIN log /\ Len(log) \in DOMAIN log
        BY <4>2, <4>3
      <4>5. \E k \in DOMAIN log : Owned(log[k])
        BY <4>2, <4>4 DEF Now, Cached
      <4>. QED BY <4>1, <4>4, <4>5 DEF Announced
    <3>. QED BY <1>3, <1>5, <1>11, <2>3, <3>3, <3>4
  <2>4. ok => Settled(n, p)'
    BY <2>3 DEF Settled
  <2>5. ok => job'.condition = Condition(Due(n, p), p)
    BY <1>2, <1>6, <2>1 DEF Doing
  <2>6. Doing(n, p, job)'
    BY <1>4, <1>6, <1>9, <2>1, <2>4, <2>5 DEF Doing
  <2>. QED BY <2>1, <2>2, <2>6
<1>12. CASE n # job.name
  <2>1. ~Working(n) /\ ~Working(n)'
    BY <1>6, <1>12 DEF Working
  <2>. QED BY <1>1, <1>9, <1>10, <2>1, KeptAccount
<1>. QED BY <1>11, <1>12

\* The condition is written, or the policy goes back to the queue
\* (updateReadyCondition).
LEMMA TrackedPatch ==
  ASSUME IInv, Tracked, UpdateReadyCondition
  PROVE  Tracked'
<1>. SUFFICES ASSUME NEW n \in Names \ queue' PROVE Accounted(n)'
  BY DEF Tracked
<1>1. /\ job.step = "patch" /\ job.name \in Names /\ job' = NothingToDo
      /\ UNCHANGED <<backend, cluster, objects>>
      /\ queue \subseteq queue' /\ (job.failed => job.name \in queue')
      /\ job.condition \in Conditions
  BY PatchGives, JobFields
<1>2. PICK p \in Policies :
         /\ job.policy = {p}
         /\ \/ policies' = policies /\ (p.condition = job.condition \/ job.name \in queue')
            \/ \E q : Patched(job.name, p, q)
  BY PatchGives
<1>3. ASSUME NEW q, Patched(job.name, p, q)
      PROVE  q # p /\ {q} \in PolicyState /\ Store(job.name, {q}) /\ Now(policies[job.name]) = {p}
  <2>1. q \in Policies /\ q.condition = job.condition
    BY <1>1, <1>3, PatchedPolicy DEF Patched
  <2>. QED BY <1>3, <2>1, ZenonT(30) DEF Patched, PolicyState
<1>4. \A m \in Names : /\ Cached(policies'[m]) = Cached(policies[m])
                       /\ Len(policies'[m]) = 1 => Len(policies[m]) = 1
  <2>1. CASE policies' = policies
    BY <2>1
  <2>2. CASE \E q : Patched(job.name, p, q)
    BY <1>1, <1>3, <2>2, PoliciesWritten, ZenonT(30)
  <2>. QED BY <1>2, <2>1, <2>2
<1>5. \A x : Conflict(n, x)' = Conflict(n, x)
  BY <1>4, SameConflict
<1>6. \A x : Due(n, x)' = Due(n, x) /\ (Settled(n, x) => Settled(n, x)')
  BY <1>1, <1>5, SameDue
<1>7. Accounted(n) /\ ~Working(n)'
  BY <1>1 DEF Tracked, Working, NothingToDo
<1>8. CASE n = job.name
  <2>. SUFFICES ASSUME NEW x \in Cached(policies[n]), Len(policies'[n]) = 1 PROVE Done(n, x)'
    BY <1>4, <1>7 DEF Accounted
  <2>1. Working(n) /\ ~job.failed
    BY <1>1, <1>8 DEF Working
  <2>2. Doing(n, x, job)
    BY <1>7, <2>1 DEF Accounted
  <2>3. x = p /\ job.condition = Condition(Due(n, p), p) /\ Settled(n, p)
    BY <1>1, <1>2, <2>1, <2>2 DEF Doing
  <2>4. ~\E q : Patched(n, p, q)
    <3>. SUFFICES ASSUME NEW q, Patched(n, p, q) PROVE FALSE
      OBVIOUS
    <3>1. q # p /\ {q} \in PolicyState /\ Store(n, {q}) /\ Now(policies[n]) = {p}
      BY <1>3, <1>8
    <3>2. PICK log, state, new : log = policies[n] /\ state = {q} /\ new = policies'[n]
      BY ZenonT(30)
    <3>3. log \in Logs(PolicyState) /\ state \in PolicyState /\ new = Changed(log, state) /\ Len(new) = 1
      BY <3>1, <3>2 DEF Store, IInv, Typed
    <3>4. new = log /\ Now(new) = state
      BY ONLY <3>3, WrittenLog
    <3>. QED BY <3>1, <3>2, <3>4
  <2>5. p.condition = job.condition
    BY <1>2, <1>8, <2>4
  <2>. QED BY <1>6, <2>3, <2>5 DEF Done
<1>9. CASE n # job.name
  <2>1. ~Working(n)
    BY <1>9 DEF Working
  <2>. QED BY <1>4, <1>6, <1>7, <2>1, KeptAccount
<1>. QED BY <1>8, <1>9

\* Every step that misses no owner keeps track of the work.
LEMMA TrackedNext ==
  ASSUME IInv, Tracked, [Next]_vars, OwnersSeen \/ AllOwned
  PROVE  Tracked'
<1>1. CASE UNCHANGED vars
  <2>1. UNCHANGED <<backend, queue, job, policies, objects, cluster>>
    BY <1>1 DEF vars
  <2>. QED BY <2>1, TrackedUnderWrites
<1>2. CASE Next
  <2>1. CASE Edit \/ \E n \in Names : CollectGarbage(n)
    BY <2>1, TrackedEdits
  <2>2. CASE Watch
    BY <1>2, <2>2, TrackedDeliverPolicy, TrackedDeliverObject, TrackedResync DEF Watch
  <2>3. CASE Work
    BY <2>3, TrackedReconcile, TrackedRender, TrackedPatch DEF Work
  <2>4. CASE Restart
    BY <2>4, TrackedResync
  <2>. QED BY <1>2, <2>1, <2>2, <2>3, <2>4 DEF Next
<1>. QED BY <1>1, <1>2

\* At rest, what is cached is what is stored, and nothing is on its way.
LEMMA TrackedConverges == IInv /\ Tracked => Converged
<1>. SUFFICES ASSUME IInv, Tracked, Quiet, NEW n \in Names, NEW p \in Now(policies[n])
              PROVE  /\ RightCondition(n, p)
                     /\ Renders(n, p) /\ ~LeftTarget(p) => RightObject(n, p)
  BY DEF Converged
<1>1. \A m \in Names : Cached(policies[m]) = Now(policies[m]) /\ Cached(objects[m]) = Now(objects[m])
  BY TypedStates, LogEnds DEF Quiet
<1>2. Cached(cluster) = Now(cluster)
  BY LogEnds DEF Quiet, IInv, Typed
<1>3. CurrentPolicies = CachedPolicies
  BY <1>1 DEF CurrentPolicies, CachedPolicies
<1>4. Done(n, p)
  BY <1>1 DEF Quiet, Tracked, Accounted, Working, NothingToDo
<1>5. p \in Policies /\ p.spec.mode \in {"monitor", "protect"}
  <2>1. p \in Policies
    BY TypedStates
  <2>. QED BY <2>1, ReconcileAssumption DEF Policies
<1>6. ScopeOf(p) = Scope(p)
  BY <1>2 DEF ScopeOf, Scope
<1>7. LeftTarget(p) <=> Left(p)
  BY <1>5, <1>6 DEF LeftTarget, Left
<1>8. Conflict(n, p).conflicting = Contested(p) /\ Conflict(n, p).winner = Renders(n, p)
  BY <1>3 DEF Conflict, CheckDuplicateTarget, Contested, Renders
<1>9. RightCondition(n, p)
  <2>1. Own(n, p) = {x \in Now(objects[n]) : x.owner = p.uid}
    BY <1>1 DEF Own
  <2>2. Due(n, p) = IF Contested(p) THEN DuplicateTarget
                    ELSE IF LeftTarget(p)
                    THEN CheckRetainedPolicyScope({o.selector : o \in {x \in Now(objects[n]) : x.owner = p.uid}},
                                                  p.spec.target, Now(cluster))
                    ELSE ScopeOf(p)
    BY <1>2, <1>6, <1>7, <1>8, <2>1 DEF Due, Retained
  <2>3. p.condition.reason = Due(n, p) /\ p.condition.gen = p.gen
    BY <1>4 DEF Done, Condition
  <2>. QED BY <2>2, <2>3 DEF RightCondition
<1>10. ASSUME Renders(n, p), ~LeftTarget(p)
       PROVE  RightObject(n, p)
  <2>1. ~Announced(objects[n])
    <3>1. Len(objects[n]) = 1
      BY DEF Quiet
    <3>. QED BY <3>1 DEF Announced
  <2>2. InPlace(n, p)
    BY <1>4, <1>7, <1>8, <1>10, <2>1 DEF Done, Settled
  <2>. QED BY <1>1, <2>2 DEF InPlace, RightObject, Own
<1>. QED BY <1>9, <1>10

\* There is no policy yet.
LEMMA TrackedInit == Init => Tracked
<1>. SUFFICES ASSUME Init, NEW n \in Names PROVE Cached(policies[n]) = None
  BY DEF Tracked, Accounted, None
<1>1. policies[n] = <<None>> /\ None \in PolicyState
  BY DEF Init, PolicyState
<1>. QED BY <1>1, CurrentLog

\* Whenever the controller has come to rest, every policy has the condition and
\* the object that is right for the cluster, provided no relist steps over
\* the time during which an object had a controlling policy: such an event names
\* no owner, and enqueues nobody (Reconcile and the watches of SetupWithManager).
THEOREM RestIsRight ==
  ASSUME OwnersSeen
  PROVE  Spec => []Converged
<1>1. Init => IInv /\ Tracked
  BY TypedInit, TrackedInit
<1>2. IInv /\ Tracked /\ [Next]_vars => IInv' /\ Tracked'
  BY TypedNext, TrackedNext
<1>3. IInv /\ Tracked => Converged
  BY TrackedConverges
<1>. QED BY <1>1, <1>2, <1>3, PTL DEF Spec

\* Nobody else creates objects, so every object stays one of a policy.
LEMMA AllOwnedNext ==
  ASSUME Foreign = {}, IInv, AllOwned, [Next]_vars
  PROVE  AllOwned'
<1>0. objects \in [Names -> Logs(ObjectState)]
  BY DEF IInv, Typed
<1>1. ASSUME NEW n \in Names, NEW state \in ObjectState, StoreObject(n, state),
             \A o \in state : o.owner > 0 \/ \E x \in Now(objects[n]) : o.owner = x.owner
      PROVE  AllOwned'
  <2>1. objects' = [objects EXCEPT ![n] = Changed(objects[n], state)]
    BY <1>1 DEF StoreObject
  <2>2. /\ \A m \in Names \ {n} : objects'[m] = objects[m]
        /\ Versions(objects'[n]) = Versions(objects[n]) \cup state
    BY <1>0, <1>1, <2>1, OneWritten
  <2>3. \A x \in Now(objects[n]) : x.owner > 0
    BY <1>1, TypedStates, LogEnds DEF AllOwned
  <2>4. \A o \in state : o.owner > 0
    BY <1>1, <2>3
  <2>5. ASSUME NEW m \in Names, NEW o \in Versions(objects'[m])
        PROVE  o.owner > 0
    <3>1. CASE m = n
      BY <2>2, <2>4, <2>5, <3>1 DEF AllOwned
    <3>2. CASE m # n
      BY <2>2, <2>5, <3>2 DEF AllOwned
    <3>. QED BY <3>1, <3>2
  <2>. QED BY <2>5 DEF AllOwned
<1>2. ASSUME \A m \in Names : Versions(objects'[m]) \subseteq Versions(objects[m])
      PROVE  AllOwned'
  BY <1>2 DEF AllOwned
<1>3. None \in ObjectState /\ \A o \in None : FALSE
  BY DEF ObjectState, None
<1>4. ASSUME NEW n \in Names, CollectGarbage(n)
      PROVE  AllOwned'
  <2>1. StoreObject(n, None)
    BY <1>4 DEF CollectGarbage
  <2>. QED BY <1>1, <1>3, <2>1
<1>5. ASSUME NEW n \in Names, TouchObject(n)
      PROVE  AllOwned'
  <2>1. PICK state \in Touched(Now(objects[n])) : StoreObject(n, state)
    BY <1>5 DEF TouchObject
  <2>2. Now(objects[n]) # None
    <3>1. Now(objects[n]) = None => Touched(Now(objects[n])) = {}
      BY DEF Touched
    <3>. QED BY <2>1, <3>1
  <2>3. state = None \/ \E o \in Now(objects[n]), s \in {spec.selector : spec \in Specs} :
                           state = {[o EXCEPT !.selector = s]}
    BY <2>1, <2>2 DEF Touched
  <2>4. CASE state = None
    BY <1>1, <1>3, <2>1, <2>4
  <2>5. CASE state # None
    <3>1. PICK o \in Now(objects[n]), s \in {spec.selector : spec \in Specs} :
             state = {[o EXCEPT !.selector = s]}
      BY <2>3, <2>5
    <3>2. o \in Objects /\ s \in Selectors
      BY <1>5, <3>1, TypedStates DEF Selectors
    <3>3. PICK x : x = [o EXCEPT !.selector = s]
      BY ZenonT(30)
    <3>4. x \in Objects /\ x.owner = o.owner
      BY <3>2, <3>3, ObjectFields
    <3>5. state = {x} /\ {x} \in ObjectState
      BY <3>1, <3>3, <3>4 DEF ObjectState
    <3>6. \A y \in state : \E z \in Now(objects[n]) : y.owner = z.owner
      BY <3>1, <3>4, <3>5
    <3>. QED BY <1>1, <1>5, <2>1, <3>5, <3>6
  <2>. QED BY <2>4, <2>5
<1>6. CASE Render
  <2>1. job.step = "render" /\ job.name \in Names
    <3>1. job.step = "render"
      BY <1>6 DEF Render
    <3>. QED BY <3>1, JobFields
  <2>2. PICK p \in job.policy :
           LET answer == Write(p, Cached(objects[job.name]), Now(objects[job.name]))
           IN  StoreObject(job.name, answer.object) \/ UNCHANGED objects
    BY <1>6, ZenonT(30) DEF Render
  <2>3. PICK answer : answer = Write(p, Cached(objects[job.name]), Now(objects[job.name]))
    OBVIOUS
  <2>4. p \in Policies /\ p.uid <= uids
    BY JobFields
  <2>5. /\ answer.object \in ObjectState
        /\ \A o \in answer.object : o.owner > 0 \/ \E x \in Now(objects[job.name]) : o.owner = x.owner
    <3>1. IInv /\ p \in Policies /\ p.uid <= uids /\ job.name \in Names
      BY <2>1, <2>4
    <3>2. answer.object \in ObjectState
      BY <2>3, <3>1, WriteGives, ZenonT(30)
    <3>3. \A o \in answer.object : o.owner > 0 \/ \E x \in Now(objects[job.name]) : o.owner = x.owner
      BY ONLY <2>3, <3>1, WriteGives, SMTT(30)
    <3>. QED BY <3>2, <3>3, ZenonT(30)
  <2>6. CASE StoreObject(job.name, answer.object)
    BY <1>1, <2>1, <2>5, <2>6
  <2>7. CASE UNCHANGED objects
    BY <1>2, <2>7
  <2>. QED BY <2>2, <2>3, <2>6, <2>7
<1>7. ASSUME NEW n \in Names, DeliverObject(n)
      PROVE  AllOwned'
  <2>1. PICK k \in Later(objects[n]) : objects' = [objects EXCEPT ![n] = From(objects[n], k)]
    BY <1>7, ZenonT(30) DEF DeliverObject
  <2>2. \A m \in Names : Versions(objects'[m]) \subseteq Versions(objects[m])
    <3>1. PICK logs, new : logs = objects /\ new = objects'
      OBVIOUS
    <3>2. Reads(logs, new, n, k, ObjectState)
      BY <1>0, <1>7, <2>1, <3>1 DEF Reads
    <3>3. \A m \in Names : Versions(new[m]) \subseteq Versions(logs[m])
      BY ONLY <3>2, OneRead
    <3>. QED BY <3>1, <3>3
  <2>. QED BY <1>2, <2>2
<1>8. CASE Restart
  <2>1. \A m \in Names : objects'[m] = <<Now(objects[m])>> /\ objects[m] \in Logs(ObjectState)
    BY <1>0, <1>8 DEF Restart
  <2>2. \A m \in Names : Versions(objects'[m]) \subseteq Versions(objects[m])
    BY <2>1, AllRead
  <2>. QED BY <1>2, <2>2
<1>9. CASE UNCHANGED objects
  BY <1>2, <1>9
<1>10. \/ UNCHANGED objects \/ Restart \/ Render
       \/ \E n \in Names : DeliverObject(n) \/ TouchObject(n) \/ CollectGarbage(n)
  BY ZenonT(30) DEF Next, vars, Edit, Watch, Work, CreatePolicy, UpdatePolicy, DeletePolicy, ChangeCluster, DeliverPolicy,
         DeliverCluster, Reconcile, UpdateReadyCondition
<1>. QED BY <1>4, <1>5, <1>6, <1>7, <1>8, <1>9, <1>10

\* Without anybody else writing data-plane objects the proviso holds by itself:
\* every object has been rendered from a policy, so every event names one, and
\* rest is right whatever order deliveries, faults and restarts come in.
THEOREM SoleOwnerRests ==
  ASSUME Foreign = {}
  PROVE  Spec => []Converged
<1>1. Init => IInv /\ Tracked /\ AllOwned
  <2>. SUFFICES ASSUME Init PROVE AllOwned
    BY TypedInit, TrackedInit
  <2>1. \A n \in Names : objects[n] = <<None>> /\ None \in ObjectState
    BY DEF Init, ObjectState
  <2>2. \A n \in Names : Versions(objects[n]) = None
    BY <2>1, CurrentLog
  <2>. QED BY <2>2 DEF AllOwned, None
<1>2. IInv /\ Tracked /\ AllOwned /\ [Next]_vars => IInv' /\ Tracked' /\ AllOwned'
  BY TypedNext, TrackedNext, AllOwnedNext
<1>3. IInv /\ Tracked => Converged
  BY TrackedConverges
<1>. QED BY <1>1, <1>2, <1>3, PTL DEF Spec
=============================================================================
