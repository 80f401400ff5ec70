------------------------ MODULE PolicyReconcileProofs ------------------------
(***************************************************************************)
(* Proofs about PolicyReconcile, for any number of policies, edits, faults *)
(* and restarts, every namespace and every number of changes the caches    *)
(* are behind.                                                             *)
(*                                                                         *)
(* The first part is about a watched object: what writes, deliveries and   *)
(* restarts make of its sequence of states.  The second is the inductive   *)
(* invariant IInv: types, UIDs that were given out, versions of a policy   *)
(* that agree on what a generation means, and a worker whose condition is  *)
(* for the generation it read.  From it follow TypeOK, that conditions are *)
(* written for the current spec only, and that objects of others are kept. *)
(***************************************************************************)
EXTENDS PolicyReconcile, TLAPS

USE SMTT(30), ZenonT(20)

(* What a watched object always is, a sequence with at least one state, and *)
(* every version of the object that the sequence still holds.              *)
Logs(S) == Seq(S) \ {<<>>}
Versions(log) == UNION {log[k] : k \in DOMAIN log}

\* A log is not empty; its ends are states, and one state when the cache is current.
LEMMA LogEnds ==
  ASSUME NEW S, NEW log \in Logs(S)
  PROVE  /\ Len(log) \in Nat \ {0} /\ DOMAIN log = 1 .. Len(log)
         /\ \A k \in DOMAIN log : log[k] \in S /\ log[k] \subseteq Versions(log)
         /\ Now(log) \in S /\ Now(log) \subseteq Versions(log)
         /\ Cached(log) \in S /\ Cached(log) \subseteq Versions(log)
         /\ Len(log) = 1 => Now(log) = Cached(log)
<1>1. log \in Seq(S) /\ Len(log) \in Nat \ {0} /\ DOMAIN log = 1 .. Len(log)
  <2>1. log \in Seq(S) /\ log # <<>>
    BY DEF Logs
  <2>2. Len(log) # 0
    BY <2>1
  <2>. QED BY <2>1, <2>2
<1>2. \A k \in DOMAIN log : log[k] \in S /\ log[k] \subseteq Versions(log)
  BY <1>1 DEF Versions
<1>3. 1 \in DOMAIN log /\ Len(log) \in DOMAIN log
  BY <1>1
<1>. QED BY <1>1, <1>2, <1>3 DEF Now, Cached

\* What is written is what is there next, whatever it is.
LEMMA NewestWritten ==
  ASSUME NEW S, NEW log \in Logs(S), NEW state
  PROVE  Now(Changed(log, state)) = state
<1>1. CASE state = Now(log)
  BY <1>1 DEF Changed
<1>2. CASE state # Now(log)
  <2>1. log \in Seq(S \cup {state})
    BY DEF Logs
  <2>2. Len(Append(log, state)) = Len(log) + 1 /\ Append(log, state)[Len(log) + 1] = state
    BY <2>1
  <2>. QED BY <1>2, <2>2 DEF Changed, Now
<1>. QED BY <1>1, <1>2

\* A write adds one version and leaves what is cached; without a change it adds nothing.
LEMMA WrittenLog ==
  ASSUME NEW S, NEW log \in Logs(S), NEW state \in S
  PROVE  /\ Changed(log, state) \in Logs(S)
         /\ Now(Changed(log, state)) = state
         /\ Cached(Changed(log, state)) = Cached(log)
         /\ Versions(Changed(log, state)) = Versions(log) \cup state
         /\ \A k \in DOMAIN log : k \in DOMAIN Changed(log, state) /\ Changed(log, state)[k] = log[k]
         /\ Len(Changed(log, state)) >= Len(log)
         /\ Len(Changed(log, state)) = 1 => Changed(log, state) = log
<1>1. /\ Len(log) \in Nat \ {0} /\ DOMAIN log = 1 .. Len(log) /\ log \in Seq(S)
      /\ Now(log) \subseteq Versions(log)
  BY LogEnds DEF Logs
<1>2. CASE state = Now(log)
  BY <1>1, <1>2 DEF Changed
<1>3. CASE state # Now(log)
  <2>1. Changed(log, state) = Append(log, state)
    BY <1>3 DEF Changed
  <2>2. /\ Append(log, state) \in Seq(S)
        /\ Len(Append(log, state)) = Len(log) + 1
        /\ Append(log, state)[Len(log) + 1] = state
        /\ \A i \in 1 .. Len(log) : Append(log, state)[i] = log[i]
    BY <1>1
  <2>3. DOMAIN Append(log, state) = 1 .. Len(log) + 1
    BY <1>1, <2>2
  <2>. DEFINE new == Append(log, state)
  <2>. HIDE DEF new
  <2>4. Versions(new) = Versions(log) \cup state
    <3>1. \A k \in 1 .. Len(log) + 1 : k = Len(log) + 1 \/ k \in 1 .. Len(log)
      BY <1>1
    <3>2. Len(log) + 1 \in 1 .. Len(log) + 1 /\ \A k \in 1 .. Len(log) : k \in 1 .. Len(log) + 1
      BY <1>1
    <3>. QED BY <1>1, <2>2, <2>3, <3>1, <3>2 DEF Versions, new
  <2>5. new \in Logs(S)
    <3>1. new # <<>>
      BY <1>1, <2>2 DEF new
    <3>. QED BY <2>2, <3>1 DEF Logs, new
  <2>6. Now(new) = state /\ Cached(new) = Cached(log) /\ Len(new) = Len(log) + 1
    BY <1>1, <2>2 DEF Now, Cached, new
  <2>7. \A k \in DOMAIN log : k \in DOMAIN new /\ new[k] = log[k]
    BY <1>1, <2>2, <2>3 DEF new
  <2>8. Len(new) >= Len(log) /\ Len(new) # 1
    BY <1>1, <2>6
  <2>9. Changed(log, state) = new
    BY <2>1 DEF new
  <2>. QED BY <2>4, <2>5, <2>6, <2>7, <2>8, <2>9
<1>. QED BY <1>2, <1>3

\* A delivery caches a later state and adds none.
LEMMA ReadLog ==
  ASSUME NEW S, NEW log \in Logs(S), NEW k \in Later(log)
  PROVE  /\ k \in 2 .. Len(log) /\ log[k] # Cached(log)
         /\ From(log, k) \in Logs(S)
         /\ Now(From(log, k)) = Now(log)
         /\ Cached(From(log, k)) = log[k]
         /\ Versions(From(log, k)) \subseteq Versions(log)
         /\ Len(From(log, k)) = Len(log) - k + 1
         /\ \A i \in k .. Len(log) : From(log, k)[i - k + 1] = log[i]
<1>1. /\ Len(log) \in Nat \ {0} /\ DOMAIN log = 1 .. Len(log) /\ log \in Seq(S)
      /\ \A i \in DOMAIN log : log[i] \subseteq Versions(log)
  BY LogEnds DEF Logs
<1>2. k \in 2 .. Len(log) /\ log[k] # Cached(log)
  BY DEF Later
<1>3. /\ From(log, k) \in Seq(S)
      /\ Len(From(log, k)) = Len(log) - k + 1
      /\ \A i \in 1 .. Len(log) - k + 1 : From(log, k)[i] = log[k + i - 1]
  BY <1>1, <1>2 DEF From
<1>4. DOMAIN From(log, k) = 1 .. Len(log) - k + 1
  BY <1>3
<1>5. \A i \in 1 .. Len(log) - k + 1 : k + i - 1 \in DOMAIN log
  BY <1>1, <1>2
<1>6. Versions(From(log, k)) \subseteq Versions(log)
  BY <1>1, <1>3, <1>4, <1>5 DEF Versions
<1>7. Now(From(log, k)) = Now(log) /\ Cached(From(log, k)) = log[k]
  <2>1. Len(log) - k + 1 \in 1 .. Len(log) - k + 1 /\ k + (Len(log) - k + 1) - 1 = Len(log)
    BY <1>1, <1>2
  <2>2. 1 \in 1 .. Len(log) - k + 1 /\ k + 1 - 1 = k
    BY <1>1, <1>2
  <2>. QED BY <1>3, <2>1, <2>2 DEF Now, Cached
<1>8. From(log, k) # <<>>
  BY <1>1, <1>2, <1>3
<1>9. \A i \in k .. Len(log) : From(log, k)[i - k + 1] = log[i]
  BY <1>1, <1>2, <1>3
<1>. QED BY <1>1, <1>2, <1>3, <1>6, <1>7, <1>8, <1>9 DEF Logs

\* A fresh cache holds the current state and nothing else.
LEMMA CurrentLog ==
  ASSUME NEW S, NEW state \in S
  PROVE  /\ <<state>> \in Logs(S) /\ Len(<<state>>) = 1
         /\ Now(<<state>>) = state /\ Cached(<<state>>) = state
         /\ Versions(<<state>>) = state
<1>1. <<state>> \in Seq(S) /\ Len(<<state>>) = 1 /\ <<state>>[1] = state /\ <<state>> # <<>>
  OBVIOUS
<1>2. DOMAIN <<state>> = {1}
  OBVIOUS
<1>3. Versions(<<state>>) = state
  BY <1>1, <1>2 DEF Versions
<1>. QED BY <1>1, <1>3 DEF Logs, Now, Cached

-----------------------------------------------------------------------------
(* Types: what TypeOK says, as membership in sets. *)
Selectors == UNION {{spec.selector, Rendered(spec.selector, "istio")} : spec \in Specs}
Objects == [owner : Int, selector : Selectors, dryRun : BOOLEAN]
PolicyState == {None} \cup {{p} : p \in Policies}
ObjectState == {None} \cup {{o} : o \in Objects}

Jobs == {NothingToDo} \cup
    [step : {"render", "patch"}, name : Names, policy : {{p} : p \in Policies},
     condition : Conditions, failed : BOOLEAN]

Typed ==
    /\ policies \in [Names -> Logs(PolicyState)]
    /\ objects \in [Names -> Logs(ObjectState)]
    /\ cluster \in Logs(Clusters)
    /\ backend \in Backends /\ queue \subseteq Names
    /\ job \in Jobs
    /\ uids \in Nat /\ clock \in Nat /\ edits \in 0 .. MaxEdits /\ touches \in 0 .. MaxTouches
    /\ faults \in 0 .. MaxFaults

(* No UID is in use that was not given out. *)
GivenOut ==
    /\ \A n \in Names : \A p \in Versions(policies[n]) : p.uid <= uids
    /\ \A n \in Names : \A o \in Versions(objects[n]) : o.owner <= uids
    /\ \A p \in job.policy : p.uid <= uids

(* The versions of one policy: a generation has one spec, and the current   *)
(* generation is the highest.                                              *)
Coherent(log) ==
    /\ \A p, q \in Versions(log) :
          p.uid = q.uid /\ p.gen = q.gen => p.spec = q.spec /\ p.created = q.created
    /\ \A p \in Versions(log), q \in Now(log) : p.uid = q.uid => p.gen <= q.gen

IInv ==
    /\ Typed /\ GivenOut
    /\ \A n \in Names : Coherent(policies[n])
    /\ job.step = "render" => ~job.failed
    /\ \A p \in job.policy : job.condition.gen = p.gen

-----------------------------------------------------------------------------
\* One log of several is written.
LEMMA OneWritten ==
  ASSUME NEW S, NEW logs \in [Names -> Logs(S)], NEW n \in Names, NEW state \in S,
         NEW new, new = [logs EXCEPT ![n] = Changed(logs[n], state)]
  PROVE  /\ new \in [Names -> Logs(S)]
         /\ new[n] = Changed(logs[n], state)
         /\ \A m \in Names \ {n} : new[m] = logs[m]
         /\ \A m \in Names : Cached(new[m]) = Cached(logs[m])
         /\ Now(new[n]) = state /\ Versions(new[n]) = Versions(logs[n]) \cup state
<1>1. logs[n] \in Logs(S)
  OBVIOUS
<1>2. /\ Changed(logs[n], state) \in Logs(S)
      /\ Now(Changed(logs[n], state)) = state
      /\ Cached(Changed(logs[n], state)) = Cached(logs[n])
      /\ Versions(Changed(logs[n], state)) = Versions(logs[n]) \cup state
  BY <1>1, WrittenLog
<1>3. new[n] = Changed(logs[n], state) /\ \A m \in Names \ {n} : new[m] = logs[m]
  OBVIOUS
<1>4. new \in [Names -> Logs(S)]
  BY <1>2
<1>. QED BY <1>2, <1>3, <1>4

(* The cache of n follows its log to its k-th state. *)
Reads(logs, new, n, k, S) ==
    /\ logs \in [Names -> Logs(S)] /\ n \in Names /\ k \in Later(logs[n])
    /\ new = [logs EXCEPT ![n] = From(logs[n], k)]

\* One log of several is read.
LEMMA OneRead ==
  ASSUME NEW S, NEW logs, NEW new, NEW n, NEW k, Reads(logs, new, n, k, S)
  PROVE  /\ new \in [Names -> Logs(S)]
         /\ new[n] = From(logs[n], k)
         /\ \A m \in Names \ {n} : new[m] = logs[m]
         /\ \A m \in Names : Now(new[m]) = Now(logs[m]) /\ Versions(new[m]) \subseteq Versions(logs[m])
         /\ Cached(new[n]) = logs[n][k] /\ logs[n][k] \in S
<1>0. /\ logs \in [Names -> Logs(S)] /\ n \in Names /\ k \in Later(logs[n])
      /\ new = [logs EXCEPT ![n] = From(logs[n], k)]
  BY DEF Reads
<1>1. logs[n] \in Logs(S)
  BY <1>0
<1>2. /\ From(logs[n], k) \in Logs(S)
      /\ Now(From(logs[n], k)) = Now(logs[n])
      /\ Cached(From(logs[n], k)) = logs[n][k]
      /\ Versions(From(logs[n], k)) \subseteq Versions(logs[n])
  BY <1>0, <1>1, ReadLog
<1>3. new[n] = From(logs[n], k) /\ \A m \in Names \ {n} : new[m] = logs[m]
  BY <1>0
<1>4. new \in [Names -> Logs(S)]
  BY <1>0, <1>2
<1>5. logs[n][k] \in S
  BY <1>0, <1>1, <1>2, LogEnds
<1>. QED BY <1>2, <1>3, <1>4, <1>5

\* A log is read to its end.
LEMMA AllRead ==
  ASSUME NEW S, NEW log \in Logs(S), NEW new, new = <<Now(log)>>
  PROVE  /\ new \in Logs(S) /\ Len(new) = 1
         /\ Now(new) = Now(log) /\ Cached(new) = Now(log)
         /\ Versions(new) \subseteq Versions(log)
<1>1. Now(log) \in S /\ Now(log) \subseteq Versions(log)
  BY LogEnds
<1>. QED BY <1>1, CurrentLog

\* What is stored or cached is a policy or nothing, and was given its UID.
LEMMA TypedStates ==
  ASSUME IInv, NEW n \in Names
  PROVE  /\ policies[n] \in Logs(PolicyState) /\ objects[n] \in Logs(ObjectState)
         /\ Now(policies[n]) \in PolicyState /\ Cached(policies[n]) \in PolicyState
         /\ Now(objects[n]) \in ObjectState /\ Cached(objects[n]) \in ObjectState
         /\ \A p \in Now(policies[n]) : p \in Policies /\ p.uid <= uids /\ Now(policies[n]) = {p}
         /\ \A p \in Cached(policies[n]) : p \in Policies /\ p.uid <= uids /\ Cached(policies[n]) = {p}
         /\ \A o \in Now(objects[n]) : o \in Objects /\ o.owner <= uids /\ Now(objects[n]) = {o}
         /\ \A o \in Cached(objects[n]) : o \in Objects /\ o.owner <= uids /\ Cached(objects[n]) = {o}
<1>1. policies[n] \in Logs(PolicyState) /\ objects[n] \in Logs(ObjectState)
  BY DEF IInv, Typed
<1>2. /\ Now(policies[n]) \in PolicyState /\ Now(policies[n]) \subseteq Versions(policies[n])
      /\ Cached(policies[n]) \in PolicyState /\ Cached(policies[n]) \subseteq Versions(policies[n])
      /\ Now(objects[n]) \in ObjectState /\ Now(objects[n]) \subseteq Versions(objects[n])
      /\ Cached(objects[n]) \in ObjectState /\ Cached(objects[n]) \subseteq Versions(objects[n])
  BY <1>1, LogEnds
<1>3. \A s \in PolicyState : \A p \in s : p \in Policies /\ s = {p}
  BY DEF PolicyState, None
<1>4. \A s \in ObjectState : \A o \in s : o \in Objects /\ s = {o}
  BY DEF ObjectState, None
<1>. QED BY <1>1, <1>2, <1>3, <1>4 DEF IInv, GivenOut

\* Every version that a log or the worker holds is a policy or an object.
LEMMA TypedVersions ==
  ASSUME IInv
  PROVE  /\ \A n \in Names : \A p \in Versions(policies[n]) : p \in Policies
         /\ \A n \in Names : \A o \in Versions(objects[n]) : o \in Objects
         /\ \A p \in job.policy : p \in Policies
<1>1. \A s \in PolicyState : s \subseteq Policies
  BY DEF PolicyState, None
<1>2. \A s \in ObjectState : s \subseteq Objects
  BY DEF ObjectState, None
<1>3. ASSUME NEW n \in Names, NEW p \in Versions(policies[n])
      PROVE  p \in Policies
  <2>1. policies[n] \in Logs(PolicyState)
    BY DEF IInv, Typed
  <2>2. PICK k \in DOMAIN policies[n] : p \in policies[n][k]
    BY <1>3 DEF Versions
  <2>. QED BY <1>1, <2>1, <2>2, LogEnds
<1>4. ASSUME NEW n \in Names, NEW o \in Versions(objects[n])
      PROVE  o \in Objects
  <2>1. objects[n] \in Logs(ObjectState)
    BY DEF IInv, Typed
  <2>2. PICK k \in DOMAIN objects[n] : o \in objects[n][k]
    BY <1>4 DEF Versions
  <2>. QED BY <1>2, <2>1, <2>2, LogEnds
<1>5. ASSUME NEW p \in job.policy
      PROVE  p \in Policies
  <2>1. job = NothingToDo \/ job.policy \in {{q} : q \in Policies}
    BY DEF IInv, Typed, Jobs
  <2>. QED BY <1>5, <2>1 DEF NothingToDo
<1>. QED BY <1>3, <1>4, <1>5

(* What is stored fits what was: the same version is the same policy. *)
Follows(n, state) ==
    \A q \in state :
        /\ q.uid <= uids'
        /\ \A p \in Versions(policies[n]) : p.uid = q.uid =>
              /\ p.gen <= q.gen
              /\ p.gen = q.gen => p.spec = q.spec /\ p.created = q.created

\* A policy is stored: the new version must be coherent with the others.
LEMMA PolicyWritten ==
  ASSUME IInv, NEW n \in Names, NEW state \in PolicyState, Store(n, state),
         uids' \in Nat, uids' >= uids, Follows(n, state)
  PROVE  /\ policies' \in [Names -> Logs(PolicyState)]
         /\ \A m \in Names : \A p \in Versions(policies[m])' : p.uid <= uids'
         /\ \A m \in Names : Coherent(policies[m])'
<1>1. policies \in [Names -> Logs(PolicyState)] /\ uids \in Nat
  BY DEF IInv, Typed
<1>2. policies' = [policies EXCEPT ![n] = Changed(policies[n], state)]
  BY DEF Store
<1>3. /\ policies' \in [Names -> Logs(PolicyState)]
      /\ \A m \in Names \ {n} : policies'[m] = policies[m]
      /\ Now(policies'[n]) = state /\ Versions(policies'[n]) = Versions(policies[n]) \cup state
  BY <1>1, <1>2, OneWritten
<1>4. \A s \in PolicyState : \A p \in s : p.uid \in Nat /\ p.gen \in Nat /\ s = {p}
  BY DEF PolicyState, None, Policies
<1>5. \A m \in Names : \A p \in Versions(policies[m]) : p.uid \in Nat /\ p.uid <= uids
  BY TypedVersions DEF IInv, GivenOut, Policies
<1>6. ASSUME NEW m \in Names, NEW p \in Versions(policies'[m])
      PROVE  p.uid <= uids'
  <2>1. CASE m = n
    BY <1>1, <1>3, <1>5, <1>6, <2>1 DEF Follows
  <2>2. CASE m # n
    BY <1>1, <1>3, <1>5, <1>6, <2>2
  <2>. QED BY <2>1, <2>2
<1>7. ASSUME NEW m \in Names
      PROVE  Coherent(policies'[m])
  <2>1. CASE m = n
    <3>. USE <2>1
    <3>1. \A p, q \in Versions(policies[n]) :
             p.uid = q.uid /\ p.gen = q.gen => p.spec = q.spec /\ p.created = q.created
      BY DEF IInv, Coherent
    <3>2. \A p, q \in state : p = q /\ p.gen \in Nat
      BY <1>4
    <3>3. \A p, q \in Versions(policies'[n]) :
             p.uid = q.uid /\ p.gen = q.gen => p.spec = q.spec /\ p.created = q.created
      BY <1>3, <3>1, <3>2 DEF Follows
    <3>4. \A p \in Versions(policies'[n]), q \in Now(policies'[n]) : p.uid = q.uid => p.gen <= q.gen
      BY <1>3, <3>2 DEF Follows
    <3>. QED BY <3>3, <3>4 DEF Coherent
  <2>2. CASE m # n
    BY <1>3, <2>2 DEF IInv
  <2>. QED BY <2>1, <2>2
<1>. QED BY <1>3, <1>6, <1>7

\* A policy with another condition is a policy.
LEMMA PatchedPolicy ==
  ASSUME NEW p \in Policies, NEW c \in Conditions, NEW q, q = [p EXCEPT !.condition = c]
  PROVE  /\ q \in Policies /\ q.uid = p.uid /\ q.created = p.created
         /\ q.spec = p.spec /\ q.gen = p.gen /\ q.condition = c
BY DEF Policies

\* A policy with another spec is a policy of the next generation.
LEMMA UpdatedPolicy ==
  ASSUME NEW p \in Policies, NEW spec \in Specs, NEW q, q = [p EXCEPT !.spec = spec, !.gen = p.gen + 1]
  PROVE  q \in Policies /\ q.uid = p.uid /\ q.gen = p.gen + 1 /\ q.condition = p.condition
<1>1. PICK g : g = p.gen + 1
  OBVIOUS
<1>2. g \in Nat \ {0}
  BY <1>1 DEF Policies
<1>3. q = [p EXCEPT !.spec = spec, !.gen = g]
  BY <1>1, ZenonT(30)
<1>4. /\ p.uid \in Nat \ {0} /\ p.created \in Nat /\ p.condition \in Conditions
      /\ DOMAIN p = {"uid", "created", "spec", "gen", "condition"}
  BY DEF Policies
<1>5. /\ q.uid = p.uid /\ q.created = p.created /\ q.spec = spec /\ q.gen = g
      /\ q.condition = p.condition
  BY <1>3, <1>4, ZenonT(30)
<1>6. q \in Policies
  BY <1>2, <1>3, <1>4, <1>5, ZenonT(30) DEF Policies
<1>. QED BY <1>1, <1>5, <1>6

\* The fields of an object, and of an object with another selector.
LEMMA ObjectFields ==
  ASSUME NEW o \in Objects
  PROVE  /\ o.owner \in Int /\ o.selector \in Selectors /\ o.dryRun \in BOOLEAN
         /\ DOMAIN o = {"owner", "selector", "dryRun"}
         /\ \A s \in Selectors :
               [o EXCEPT !.selector = s] \in Objects /\ [o EXCEPT !.selector = s].owner = o.owner
<1>1. /\ o.owner \in Int /\ o.selector \in Selectors /\ o.dryRun \in BOOLEAN
      /\ DOMAIN o = {"owner", "selector", "dryRun"}
  BY DEF Objects
<1>2. ASSUME NEW s \in Selectors, NEW q, q = [o EXCEPT !.selector = s]
      PROVE  q \in Objects /\ q.owner = o.owner
  BY <1>1, <1>2 DEF Objects
<1>. QED BY <1>1, <1>2

\* Users create, change and delete policies.
LEMMA TypedEdits ==
  ASSUME IInv, NEW n \in Names, NEW spec,
         (spec \in Specs /\ (CreatePolicy(n, spec) \/ UpdatePolicy(n, spec))) \/ DeletePolicy(n)
  PROVE  IInv'
<1>0. /\ uids \in Nat /\ clock \in Nat /\ edits \in 0 .. MaxEdits /\ MaxEdits \in Nat
      /\ UNCHANGED <<objects, cluster, backend, queue, job, touches, faults>>
      /\ edits' \in 0 .. MaxEdits
  <2>1. /\ uids \in Nat /\ clock \in Nat /\ edits \in 0 .. MaxEdits /\ MaxEdits \in Nat
    BY ReconcileAssumption DEF IInv, Typed
  <2>2. /\ UNCHANGED <<objects, cluster, backend, queue, job, touches, faults>>
        /\ edits < MaxEdits /\ edits' = edits + 1
    BY ZenonT(30) DEF CreatePolicy, UpdatePolicy, DeletePolicy, NothingElse
  <2>. QED BY <2>1, <2>2
<1>. DEFINE Stored ==
        /\ policies' \in [Names -> Logs(PolicyState)]
        /\ \A m \in Names : \A p \in Versions(policies[m])' : p.uid <= uids'
        /\ \A m \in Names : Coherent(policies[m])'
        /\ uids' \in Nat /\ uids' >= uids /\ clock' \in Nat
<1>1. \A p \in Versions(policies[n]) : p.uid \in Nat /\ p.gen \in Nat /\ p.uid <= uids
  BY TypedVersions DEF IInv, GivenOut, Policies
<1>2. CASE spec \in Specs /\ CreatePolicy(n, spec)
  <2>1. PICK time \in clock .. clock + 1 :
           Store(n, {NewPolicy(spec, uids + 1, time)}) /\ clock' = time /\ uids' = uids + 1
    BY <1>2, ZenonT(30) DEF CreatePolicy
  <2>2. PICK q : q = NewPolicy(spec, uids + 1, time)
    OBVIOUS
  <2>3. q \in Policies /\ q.uid = uids + 1
    <3>1. NoCondition \in Conditions
      BY DEF NoCondition, Conditions
    <3>2. time \in Nat /\ uids + 1 \in Nat \ {0}
      BY <1>0, <2>1
    <3>. QED BY <1>2, <2>2, <3>1, <3>2 DEF NewPolicy, Policies
  <2>4. {q} \in PolicyState
    BY <2>3 DEF PolicyState
  <2>5. uids' \in Nat /\ uids' >= uids /\ clock' \in Nat /\ q.uid <= uids'
    BY <1>0, <2>1, <2>3
  <2>6. \A p \in Versions(policies[n]) : p.uid # q.uid
    BY <1>0, <1>1, <2>3
  <2>7. Store(n, {q})
    BY <2>1, <2>2
  <2>8. Stored
    <3>1. Follows(n, {q})
      BY <2>5, <2>6 DEF Follows
    <3>. QED BY <2>4, <2>5, <2>7, <3>1, PolicyWritten
  <2>9. /\ \A m \in Names : \A o \in Versions(objects'[m]) : o.owner <= uids'
        /\ \A p \in job'.policy : p.uid <= uids'
    <3>1. \A i \in Int : i <= uids => i <= uids + 1
      BY <1>0
    <3>2. /\ \A m \in Names : \A o \in Versions(objects[m]) : o.owner \in Int /\ o.owner <= uids
          /\ \A p \in job.policy : p.uid \in Int /\ p.uid <= uids
      BY TypedVersions DEF IInv, GivenOut, Objects, Policies
    <3>. QED BY <1>0, <2>1, <3>1, <3>2
  <2>. QED BY <1>0, <2>5, <2>8, <2>9 DEF IInv, Typed, GivenOut
<1>3. CASE spec \in Specs /\ UpdatePolicy(n, spec)
  <2>1. PICK p \in Now(policies[n]) : Store(n, {[p EXCEPT !.spec = spec, !.gen = p.gen + 1]})
    BY <1>3, ZenonT(30) DEF UpdatePolicy
  <2>2. PICK q : q = [p EXCEPT !.spec = spec, !.gen = p.gen + 1]
    OBVIOUS
  <2>3. p \in Policies /\ p.uid <= uids
    BY <2>1, TypedStates
  <2>4. q \in Policies /\ q.uid = p.uid /\ q.gen = p.gen + 1
    BY <1>3, <2>2, <2>3, UpdatedPolicy, ZenonT(30)
  <2>5. {q} \in PolicyState
    BY <2>4 DEF PolicyState
  <2>6. \A r \in Versions(policies[n]) : r.uid = q.uid => r.gen <= p.gen
    BY <2>1, <2>4 DEF IInv, Coherent
  <2>7. \A r \in Versions(policies[n]) : r.uid = q.uid => r.gen <= q.gen /\ r.gen # q.gen
    BY <1>1, <2>3, <2>4, <2>6 DEF Policies
  <2>8. uids' = uids /\ clock' = clock
    BY <1>3, ZenonT(30) DEF UpdatePolicy
  <2>9. Stored
    <3>1. Store(n, {q})
      BY <2>1, <2>2
    <3>2. q.uid <= uids' /\ uids' \in Nat /\ uids' >= uids /\ clock' \in Nat
      BY <1>0, <2>3, <2>4, <2>8
    <3>3. Follows(n, {q})
      BY <2>7, <3>2 DEF Follows
    <3>. QED BY <2>5, <3>1, <3>2, <3>3, PolicyWritten
  <2>. QED BY <1>0, <2>8, <2>9 DEF IInv, Typed, GivenOut
<1>4. CASE DeletePolicy(n)
  <2>1. Store(n, None) /\ uids' = uids /\ clock' = clock
    BY <1>4 DEF DeletePolicy
  <2>2. None \in PolicyState /\ Follows(n, None)
    BY DEF PolicyState, None, Follows
  <2>3. Stored
    BY <1>0, <2>1, <2>2, PolicyWritten
  <2>. QED BY <1>0, <2>1, <2>3 DEF IInv, Typed, GivenOut
<1>. QED BY <1>2, <1>3, <1>4

\* A data-plane object is stored.
LEMMA ObjectWritten ==
  ASSUME IInv, NEW n \in Names, NEW state \in ObjectState, StoreObject(n, state),
         \A o \in state : o.owner <= uids
  PROVE  /\ objects' \in [Names -> Logs(ObjectState)]
         /\ \A m \in Names : \A o \in Versions(objects'[m]) : o.owner <= uids
<1>1. objects \in [Names -> Logs(ObjectState)]
  BY DEF IInv, Typed
<1>2. objects' = [objects EXCEPT ![n] = Changed(objects[n], state)]
  BY DEF StoreObject
<1>3. /\ objects' \in [Names -> Logs(ObjectState)]
      /\ \A m \in Names \ {n} : objects'[m] = objects[m]
      /\ Versions(objects'[n]) = Versions(objects[n]) \cup state
  BY <1>1, <1>2, OneWritten
<1>4. ASSUME NEW m \in Names, NEW o \in Versions(objects'[m])
      PROVE  o.owner <= uids
  <2>1. CASE m = n
    BY <1>3, <1>4, <2>1 DEF IInv, GivenOut
  <2>2. CASE m # n
    BY <1>3, <1>4, <2>2 DEF IInv, GivenOut
  <2>. QED BY <2>1, <2>2
<1>. QED BY <1>3, <1>4

\* Others touch data-plane objects, and the garbage collector deletes them.
LEMMA TypedTouches ==
  ASSUME IInv, NEW n \in Names, TouchObject(n) \/ CollectGarbage(n)
  PROVE  IInv'
<1>0. /\ UNCHANGED <<policies, cluster, backend, queue, job, faults, uids, clock, edits>>
      /\ touches' \in 0 .. MaxTouches /\ uids \in Nat
  BY ReconcileAssumption DEF IInv, Typed, TouchObject, CollectGarbage, NothingElse
<1>1. PICK state \in ObjectState : StoreObject(n, state) /\ \A o \in state : o.owner <= uids
  <2>1. None \in ObjectState /\ \A o \in None : o.owner <= uids
    BY DEF ObjectState, None
  <2>2. CASE CollectGarbage(n)
    BY <2>1, <2>2 DEF CollectGarbage
  <2>3. CASE TouchObject(n)
    <3>1. PICK state \in Touched(Now(objects[n])) : StoreObject(n, state)
      BY <2>3 DEF TouchObject
    <3>2. CASE Now(objects[n]) = None
      <4>1. PICK f \in Foreign, s \in {spec.selector : spec \in Specs} :
               state = {[owner |-> f, selector |-> s, dryRun |-> FALSE]}
        BY <3>1, <3>2 DEF Touched
      <4>2. PICK o : o = [owner |-> f, selector |-> s, dryRun |-> FALSE]
        BY ZenonT(30)
      <4>3. s \in Selectors
        BY <4>1 DEF Selectors
      <4>4. f \in Int /\ f <= 0
        BY <4>1, ReconcileAssumption
      <4>5. o \in Objects /\ o.owner <= uids
        <5>1. o.owner = f
          BY <4>2
        <5>2. o \in Objects
          BY <4>2, <4>3, <4>4 DEF Objects
        <5>. QED BY <1>0, <4>4, <5>1, <5>2
      <4>6. state = {o} /\ {o} \in ObjectState
        BY <4>1, <4>2, <4>5, ZenonT(30) DEF ObjectState
      <4>. QED BY <3>1, <4>5, <4>6
    <3>3. CASE Now(objects[n]) # None
      <4>1. state = None \/ \E o \in Now(objects[n]), s \in {spec.selector : spec \in Specs} :
                               state = {[o EXCEPT !.selector = s]}
        BY <3>1, <3>3 DEF Touched
      <4>2. CASE state = None
        BY <2>1, <3>1, <4>2
      <4>3. CASE state # None
        <5>1. PICK o \in Now(objects[n]), s \in {spec.selector : spec \in Specs} :
                 state = {[o EXCEPT !.selector = s]}
          BY <4>1, <4>3
        <5>2. o \in Objects /\ o.owner <= uids
          BY <5>1, TypedStates
        <5>3. PICK x : x = [o EXCEPT !.selector = s]
          BY ZenonT(30)
        <5>4. s \in Selectors
          BY <5>1 DEF Selectors
        <5>5. x \in Objects /\ x.owner = o.owner
          BY <5>2, <5>3, <5>4, ObjectFields
        <5>6. state = {x} /\ {x} \in ObjectState
          BY <5>1, <5>3, <5>5 DEF ObjectState
        <5>. QED BY <3>1, <5>2, <5>5, <5>6
      <4>. QED BY <4>2, <4>3
    <3>. QED BY <3>2, <3>3
  <2>. QED BY <2>2, <2>3
<1>2. /\ objects' \in [Names -> Logs(ObjectState)]
      /\ \A m \in Names : \A o \in Versions(objects'[m]) : o.owner <= uids
  BY <1>1, ObjectWritten
<1>. QED BY <1>0, <1>2 DEF IInv, Typed, GivenOut

\* Deliveries drop versions and add none.
LEMMA TypedDeliveries ==
  ASSUME IInv, \/ \E n \in Names : DeliverPolicy(n) \/ DeliverObject(n)
               \/ DeliverCluster
  PROVE  IInv'
<1>0. /\ policies \in [Names -> Logs(PolicyState)] /\ objects \in [Names -> Logs(ObjectState)]
      /\ cluster \in Logs(Clusters) /\ queue \subseteq Names
  BY DEF IInv, Typed
<1>1. UNCHANGED <<backend, job, clock, uids, edits, touches, faults>>
  BY DEF DeliverPolicy, DeliverObject, DeliverCluster, Unhandled
<1>2. ASSUME NEW n \in Names, DeliverPolicy(n)
      PROVE  IInv'
  <2>1. PICK k \in Later(policies[n]) :
           /\ policies' = [policies EXCEPT ![n] = From(policies[n], k)]
           /\ queue' = queue \cup PolicyRequests([CachedPolicies EXCEPT ![n] = policies[n][k]], n,
                                                 Cached(policies[n]), policies[n][k])
    BY <1>2, ZenonT(30) DEF DeliverPolicy
  <2>2. /\ policies' \in [Names -> Logs(PolicyState)]
        /\ \A m \in Names : /\ Now(policies'[m]) = Now(policies[m])
                            /\ Versions(policies'[m]) \subseteq Versions(policies[m])
    <3>1. PICK logs, new : logs = policies /\ new = policies'
      OBVIOUS
    <3>2. Reads(logs, new, n, k, PolicyState)
      BY <1>0, <1>2, <2>1, <3>1 DEF Reads
    <3>3. /\ new \in [Names -> Logs(PolicyState)]
          /\ \A m \in Names : Now(new[m]) = Now(logs[m]) /\ Versions(new[m]) \subseteq Versions(logs[m])
      BY ONLY <3>2, OneRead
    <3>. QED BY <3>1, <3>3
  <2>3. queue' \subseteq Names
    BY <1>0, <2>1 DEF PolicyRequests, DuplicateTargetPolicies, Targeting
  <2>4. \A m \in Names : Coherent(policies'[m])
    BY <2>2 DEF IInv, Coherent
  <2>5. objects' = objects /\ cluster' = cluster
    BY <1>2 DEF DeliverPolicy
  <2>. QED BY <1>1, <2>2, <2>3, <2>4, <2>5 DEF IInv, Typed, GivenOut
<1>3. ASSUME NEW n \in Names, DeliverObject(n)
      PROVE  IInv'
  <2>1. PICK k \in Later(objects[n]) :
           /\ objects' = [objects EXCEPT ![n] = From(objects[n], k)]
           /\ queue' = queue \cup ObjectRequests(n, Cached(objects[n]), objects[n][k])
    BY <1>3, ZenonT(30) DEF DeliverObject
  <2>2. /\ objects' \in [Names -> Logs(ObjectState)]
        /\ \A m \in Names : Versions(objects'[m]) \subseteq Versions(objects[m])
    <3>1. PICK logs, new : logs = objects /\ new = objects'
      OBVIOUS
    <3>2. Reads(logs, new, n, k, ObjectState)
      BY <1>0, <1>3, <2>1, <3>1 DEF Reads
    <3>3. /\ new \in [Names -> Logs(ObjectState)]
          /\ \A m \in Names : Versions(new[m]) \subseteq Versions(logs[m])
      BY ONLY <3>2, OneRead
    <3>. QED BY <3>1, <3>3
  <2>3. queue' \subseteq Names
    BY <1>0, <2>1 DEF ObjectRequests
  <2>4. policies' = policies /\ cluster' = cluster
    BY <1>3 DEF DeliverObject
  <2>. QED BY <1>1, <2>2, <2>3, <2>4 DEF IInv, Typed, GivenOut
<1>4. CASE DeliverCluster
  <2>1. PICK k \in Later(cluster) : cluster' = From(cluster, k)
    BY <1>4 DEF DeliverCluster
  <2>2. cluster' \in Logs(Clusters)
    BY <1>0, <2>1, ReadLog
  <2>3. queue' \subseteq Names /\ policies' = policies /\ objects' = objects
    BY <1>0, <1>4 DEF DeliverCluster
  <2>. QED BY <1>1, <2>2, <2>3 DEF IInv, Typed, GivenOut
<1>. QED BY <1>2, <1>3, <1>4

\* Workloads change.
LEMMA TypedCluster ==
  ASSUME IInv, NEW c \in Clusters, ChangeCluster(c)
  PROVE  IInv'
<1>1. /\ cluster \in Logs(Clusters) /\ touches \in 0 .. MaxTouches /\ MaxTouches \in Nat
  BY ReconcileAssumption DEF IInv, Typed
<1>2. /\ cluster' = Changed(cluster, c) /\ touches < MaxTouches /\ touches' = touches + 1
      /\ UNCHANGED <<policies, objects, backend, queue, job, clock, uids, edits, faults>>
  BY DEF ChangeCluster, NothingElse
<1>3. cluster' \in Logs(Clusters)
  BY <1>1, <1>2, WrittenLog
<1>4. touches' \in 0 .. MaxTouches
  BY <1>1, <1>2
<1>. QED BY <1>2, <1>3, <1>4 DEF IInv, Typed, GivenOut

\* A restart drops versions, too.
LEMMA TypedRestart ==
  ASSUME IInv, Restart
  PROVE  IInv'
<1>0. /\ policies \in [Names -> Logs(PolicyState)] /\ objects \in [Names -> Logs(ObjectState)]
      /\ cluster \in Logs(Clusters) /\ faults \in 0 .. MaxFaults /\ MaxFaults \in Nat
  BY ReconcileAssumption DEF IInv, Typed
<1>1. /\ policies' = [n \in Names |-> <<Now(policies[n])>>]
      /\ objects' = [n \in Names |-> <<Now(objects[n])>>]
      /\ cluster' = <<Now(cluster)>>
      /\ job' = NothingToDo /\ queue' \subseteq Names
      /\ faults < MaxFaults /\ faults' = faults + 1
      /\ UNCHANGED <<backend, clock, uids, edits, touches>>
  BY DEF Restart
<1>2. ASSUME NEW n \in Names
      PROVE  /\ policies'[n] \in Logs(PolicyState) /\ objects'[n] \in Logs(ObjectState)
             /\ Now(policies'[n]) = Now(policies[n])
             /\ Versions(policies'[n]) \subseteq Versions(policies[n])
             /\ Versions(objects'[n]) \subseteq Versions(objects[n])
  <2>1. policies[n] \in Logs(PolicyState) /\ objects[n] \in Logs(ObjectState)
    BY <1>0
  <2>2. policies'[n] = <<Now(policies[n])>> /\ objects'[n] = <<Now(objects[n])>>
    BY <1>1
  <2>. QED BY <2>1, <2>2, AllRead
<1>3. policies' \in [Names -> Logs(PolicyState)] /\ objects' \in [Names -> Logs(ObjectState)]
  BY <1>1, <1>2
<1>4. cluster' \in Logs(Clusters)
  BY <1>0, <1>1, AllRead
<1>5. job' \in Jobs /\ job'.policy = {} /\ job'.step # "render"
  BY <1>1 DEF Jobs, NothingToDo
<1>6. faults' \in 0 .. MaxFaults
  BY <1>0, <1>1
<1>7. \A n \in Names : Coherent(policies'[n])
  BY <1>2 DEF IInv, Coherent
<1>8. GivenOut'
  BY <1>1, <1>2, <1>5 DEF IInv, GivenOut
<1>9. Typed'
  BY <1>1, <1>3, <1>4, <1>5, <1>6 DEF IInv, Typed
<1>. QED BY <1>5, <1>7, <1>8, <1>9 DEF IInv

\* The invariant holds initially.
LEMMA TypedInit == Init => IInv
<1>. SUFFICES ASSUME Init PROVE IInv
  OBVIOUS
<1>1. /\ policies = [n \in Names |-> <<None>>] /\ objects = [n \in Names |-> <<None>>]
      /\ cluster \in {<<c>> : c \in Clusters} /\ backend \in Backends /\ queue = {}
      /\ job = NothingToDo /\ clock = 1 /\ uids = 0 /\ edits = 0 /\ touches = 0 /\ faults = 0
  BY DEF Init
<1>2. None \in PolicyState /\ None \in ObjectState
  BY DEF PolicyState, ObjectState
<1>3. \A n \in Names : /\ policies[n] \in Logs(PolicyState) /\ Versions(policies[n]) = None
                       /\ objects[n] \in Logs(ObjectState) /\ Versions(objects[n]) = None
  BY <1>1, <1>2, CurrentLog
<1>4. cluster \in Logs(Clusters)
  BY <1>1, CurrentLog
<1>5. job \in Jobs /\ job.policy = {} /\ job.step # "render"
  BY <1>1 DEF Jobs, NothingToDo
<1>6. Typed
  BY <1>1, <1>3, <1>4, <1>5, ReconcileAssumption DEF Typed
<1>7. GivenOut /\ \A n \in Names : Coherent(policies[n])
  BY <1>3, <1>5 DEF GivenOut, Coherent, None
<1>. QED BY <1>5, <1>6, <1>7 DEF IInv

-----------------------------------------------------------------------------
(* What a policy is due by what is cached now: its condition and its object. *)
Conflict(n, p) == CheckDuplicateTarget(CachedPolicies, n, p)
Scope(p) == CheckSelectorScope(Rendered(p.spec.selector, backend), p.spec.target, Cached(cluster))
Left(p) == Scope(p) = Mismatch /\ p.spec.mode # "monitor"
Own(n, p) == {o \in Cached(objects[n]) : o.owner = p.uid}
Retained(n, p) ==
    CheckRetainedPolicyScope({o.selector : o \in Own(n, p)}, p.spec.target, Cached(cluster))

Due(n, p) ==
    IF Conflict(n, p).conflicting THEN DuplicateTarget
    ELSE IF Left(p) THEN Retained(n, p) ELSE Scope(p)

(* The object is cached as it is due, or a change of it is under way that   *)
(* will bring the policy back.                                             *)
Announced(log) == Len(log) > 1 /\ \E k \in DOMAIN log : Owned(log[k])

InPlace(n, p) ==
    IF backend = "kubernetes" /\ p.spec.mode = "monitor"
    THEN Own(n, p) = {}
    ELSE Cached(objects[n]) = {Desired(p)}

Settled(n, p) == Conflict(n, p).winner /\ ~Left(p) => Announced(objects[n]) \/ InPlace(n, p)

(* The worker is about to give p what it is due, or to fail and retry. *)
Doing(n, p, j) ==
    /\ j.policy = {p} /\ j.condition.gen = p.gen
    /\ ~j.failed => j.condition = Condition(Due(n, p), p)
    /\ j.step = "patch" /\ ~j.failed => Settled(n, p)

Reasons == {"", ScopeValid, Mismatch, Overlaps, TargetNotFound, DuplicateTarget,
            OwnershipConflict, ReconciliationFailed}

\* What Patching makes is a job.
LEMMA PatchingJob ==
  ASSUME NEW n \in Names, NEW p \in Policies, NEW reason \in Reasons, NEW failed \in BOOLEAN, NEW j,
         j = Patching(n, p, reason, failed)
  PROVE  /\ j \in Jobs /\ j.step = "patch" /\ j.name = n /\ j.policy = {p} /\ j.failed = failed
         /\ j.condition = Condition(reason, p)
<1>1. PICK c : c = Condition(reason, p)
  OBVIOUS
<1>2. c \in Conditions
  BY <1>1 DEF Condition, Conditions, Policies, Reasons
<1>3. j = [step |-> "patch", name |-> n, policy |-> {p}, condition |-> c, failed |-> failed]
  BY <1>1 DEF Patching
<1>4. {p} \in {{q} : q \in Policies}
  OBVIOUS
<1>5. j \in Jobs
  BY <1>2, <1>3, <1>4 DEF Jobs
<1>. QED BY <1>1, <1>3, <1>5

\* And so with another step.
LEMMA RenderingJob ==
  ASSUME NEW j0 \in Jobs, j0.step = "patch", NEW j, j = [j0 EXCEPT !.step = "render"]
  PROVE  /\ j \in Jobs /\ j.step = "render" /\ j.name = j0.name /\ j.policy = j0.policy
         /\ j.failed = j0.failed /\ j.condition = j0.condition
<1>1. j0 \in [step : {"render", "patch"}, name : Names, policy : {{p} : p \in Policies},
              condition : Conditions, failed : BOOLEAN]
  BY DEF Jobs, NothingToDo
<1>2. j \in [step : {"render", "patch"}, name : Names, policy : {{p} : p \in Policies},
             condition : Conditions, failed : BOOLEAN]
  BY <1>1
<1>. QED BY <1>1, <1>2 DEF Jobs

(* What the worker does next about p. *)
Started(n, p) ==
    IF Conflict(n, p).conflicting /\ ~Conflict(n, p).winner
    THEN Patching(n, p, DuplicateTarget, FALSE)
    ELSE ReconcilePolicy(n, p, Conflict(n, p))

\* Reconcile settles on what the policy is due, leaves the object to Render
\* unless it is in place, or fails.
LEMMA ReconcileGives ==
  ASSUME IInv, NEW n \in Names, NEW p \in Cached(policies[n]), NEW j, j = Started(n, p)
  PROVE  /\ j \in Jobs /\ j.step # "idle" /\ j.name = n
         /\ j.step = "render" => ~j.failed
         /\ Doing(n, p, j)
<1>. DEFINE conflict == Conflict(n, p)
            given(reason) == IF conflict.conflicting THEN DuplicateTarget ELSE reason
<1>. HIDE DEF conflict
<1>0. p \in Policies /\ n \in Names
  BY TypedStates
<1>1. Scope(p) \in Reasons /\ Retained(n, p) \in Reasons /\ OwnershipConflict \in Reasons
  BY DEF Scope, Retained, CheckSelectorScope, CheckRetainedPolicyScope, Reasons
<1>2. \A reason \in Reasons : given(reason) \in Reasons
  BY DEF Reasons
<1>3. \A reason, failed : Outcome(n, p, conflict, reason, failed) = Patching(n, p, given(reason), failed)
  BY DEF Outcome
<1>. HIDE DEF given
<1>9. \A reason \in Reasons, failed \in BOOLEAN : j = Patching(n, p, reason, failed) => j \in Jobs
  BY ONLY <1>0, PatchingJob
<1>4. CASE conflict.conflicting /\ ~conflict.winner
  <2>1. j = Patching(n, p, DuplicateTarget, FALSE) /\ DuplicateTarget \in Reasons
    BY <1>4 DEF conflict, Reasons, Started
  <2>2. /\ j.name = n /\ j.policy = {p} /\ ~j.failed
        /\ j.condition = Condition(DuplicateTarget, p) /\ j.step = "patch"
    BY ONLY <2>1 DEF Patching
  <2>4. j \in Jobs
    BY <1>9, <2>1, ZenonT(30)
  <2>3. Due(n, p) = DuplicateTarget /\ Settled(n, p)
    BY <1>4 DEF Due, Settled, conflict
  <2>. QED BY <2>2, <2>3, <2>4 DEF Doing, Condition
<1>5. CASE ~(conflict.conflicting /\ ~conflict.winner)
  <2>0. j = ReconcilePolicy(n, p, conflict)
    BY <1>5, ZenonT(30) DEF conflict, Started
  <2>1. CASE Left(p)
    <3>1. j = Outcome(n, p, conflict, Retained(n, p), FALSE)
      BY <2>0, <2>1, ZenonT(30) DEF ReconcilePolicy, Left, Scope, Retained, Own
    <3>2. j = Patching(n, p, given(Retained(n, p)), FALSE) /\ given(Retained(n, p)) \in Reasons
      BY <1>1, <1>2, <1>3, <3>1, ZenonT(30)
    <3>3. /\ j.name = n /\ j.policy = {p} /\ ~j.failed
          /\ j.condition = Condition(given(Retained(n, p)), p) /\ j.step = "patch"
      BY ONLY <3>2 DEF Patching
    <3>5. j \in Jobs
      BY <1>9, <3>2, ZenonT(30)
    <3>4. Due(n, p) = given(Retained(n, p)) /\ Settled(n, p)
      BY <2>1 DEF Due, Settled, given, conflict
    <3>. QED BY <3>3, <3>4, <3>5 DEF Doing, Condition
  <2>2. CASE ~Left(p) /\ Cached(objects[n]) # Own(n, p)
    <3>1. j = Outcome(n, p, conflict, OwnershipConflict, TRUE)
      BY <2>0, <2>2, ZenonT(30) DEF ReconcilePolicy, Left, Scope, Own
    <3>2. j = Patching(n, p, given(OwnershipConflict), TRUE) /\ given(OwnershipConflict) \in Reasons
      BY <1>1, <1>2, <1>3, <3>1, ZenonT(30)
    <3>3. /\ j.name = n /\ j.policy = {p} /\ j.failed
          /\ j.condition = Condition(given(OwnershipConflict), p) /\ j.step = "patch"
      BY ONLY <3>2 DEF Patching
    <3>4. j \in Jobs
      BY <1>9, <3>2, ZenonT(30)
    <3>. QED BY <3>3, <3>4 DEF Doing, Condition
  <2>3. CASE ~Left(p) /\ Cached(objects[n]) = Own(n, p)
    <3>0. Due(n, p) = given(Scope(p))
      BY <2>3 DEF Due, given, conflict
    <3>1. CASE backend = "kubernetes" /\ p.spec.mode = "monitor" /\ Own(n, p) = {}
      <4>1. j = Outcome(n, p, conflict, Scope(p), FALSE)
        BY <2>0, <2>3, <3>1, ZenonT(30) DEF ReconcilePolicy, Left, Scope, Own
      <4>2. j = Patching(n, p, given(Scope(p)), FALSE) /\ given(Scope(p)) \in Reasons
        BY <1>1, <1>2, <1>3, <4>1, ZenonT(30)
      <4>3. /\ j.name = n /\ j.policy = {p} /\ ~j.failed
            /\ j.condition = Condition(given(Scope(p)), p) /\ j.step = "patch"
        BY ONLY <4>2 DEF Patching
      <4>5. j \in Jobs
        BY <1>9, <4>2, ZenonT(30)
      <4>4. Settled(n, p)
        BY <3>1 DEF Settled, InPlace
      <4>. QED BY <3>0, <4>3, <4>4, <4>5 DEF Doing, Condition
    <3>2. CASE ~(backend = "kubernetes" /\ p.spec.mode = "monitor" /\ Own(n, p) = {})
      <4>1. j = [Outcome(n, p, conflict, Scope(p), FALSE) EXCEPT !.step = "render"]
        BY <2>0, <2>3, <3>2, ZenonT(30) DEF ReconcilePolicy, Left, Scope, Own
      <4>2. PICK j0 : j0 = Patching(n, p, given(Scope(p)), FALSE) /\ j = [j0 EXCEPT !.step = "render"]
        BY <1>3, <4>1, ZenonT(30)
      <4>3. /\ j0.name = n /\ j0.policy = {p} /\ ~j0.failed
            /\ j0.condition = Condition(given(Scope(p)), p) /\ j0.step = "patch"
        BY ONLY <4>2 DEF Patching
      <4>4. j0 \in Jobs
        BY <1>0, <1>1, <1>2, <4>2, PatchingJob, ZenonT(30)
      <4>5. /\ j \in Jobs /\ j.step = "render" /\ j.name = j0.name /\ j.policy = j0.policy
            /\ j.failed = j0.failed /\ j.condition = j0.condition
        BY <4>2, <4>3, <4>4, RenderingJob, ZenonT(30)
      <4>6. j.name = n /\ j.policy = {p} /\ ~j.failed /\ j.condition = Condition(given(Scope(p)), p)
        BY ONLY <4>3, <4>5
      <4>7. j.condition = Condition(Due(n, p), p)
        BY <3>0, <4>6
      <4>8. j.condition.gen = p.gen
        BY <4>7 DEF Condition
      <4>9. Doing(n, p, j)
        BY <4>5, <4>6, <4>7, <4>8 DEF Doing
      <4>. QED BY <4>5, <4>6, <4>9
    <3>. QED BY <3>1, <3>2
  <2>. QED BY <2>1, <2>2, <2>3
<1>. QED BY <1>4, <1>5

\* The object rendered from a policy is an object that the policy controls.
LEMMA DesiredObject ==
  ASSUME IInv, NEW p \in Policies
  PROVE  Desired(p) \in Objects /\ Desired(p).owner = p.uid /\ p.uid > 0
<1>1. p.uid \in Nat \ {0} /\ p.spec \in Specs
  BY DEF Policies
<1>2. backend \in {"kubernetes", "istio"}
  BY ReconcileAssumption DEF IInv, Typed
<1>3. Rendered(p.spec.selector, backend) \in Selectors
  <2>1. Rendered(p.spec.selector, backend) \in {p.spec.selector, Rendered(p.spec.selector, "istio")}
    BY <1>2 DEF Rendered
  <2>. QED BY <1>1, <2>1 DEF Selectors
<1>4. PICK s, d : s = Rendered(p.spec.selector, backend) /\ d = (backend = "istio" /\ p.spec.mode = "monitor")
  OBVIOUS
<1>5. d \in BOOLEAN /\ s \in Selectors
  BY <1>3, <1>4
<1>6. Desired(p) = [owner |-> p.uid, selector |-> s, dryRun |-> d]
  BY <1>4, ZenonT(30) DEF Desired
<1>. QED BY <1>1, <1>5, <1>6 DEF Objects

\* A merge patch leaves an object, with the fields that were to change.
LEMMA Merged ==
  ASSUME NEW seen \in Objects, NEW wanted \in Objects, NEW o \in Objects, NEW r,
         r = [f \in DOMAIN o |-> IF seen[f] # wanted[f] THEN wanted[f] ELSE o[f]]
  PROVE  /\ r \in Objects /\ r.owner \in {wanted.owner, o.owner}
         /\ seen.owner # wanted.owner => r.owner = wanted.owner
         /\ seen # wanted => r # seen
<1>1. DOMAIN o = {"owner", "selector", "dryRun"}
  BY DEF Objects
<1>2. /\ r.owner = IF seen.owner # wanted.owner THEN wanted.owner ELSE o.owner
      /\ r.selector = IF seen.selector # wanted.selector THEN wanted.selector ELSE o.selector
      /\ r.dryRun = IF seen.dryRun # wanted.dryRun THEN wanted.dryRun ELSE o.dryRun
  BY <1>1
<1>3. r \in Objects
  <2>1. r.owner \in Int
    BY <1>2 DEF Objects
  <2>2. r.selector \in Selectors
    BY <1>2 DEF Objects
  <2>3. r.dryRun \in BOOLEAN
    BY <1>2 DEF Objects
  <2>4. r = [owner |-> r.owner, selector |-> r.selector, dryRun |-> r.dryRun]
    BY <1>1
  <2>. QED BY <2>1, <2>2, <2>3, <2>4 DEF Objects
<1>4. seen # wanted => r # seen
  <2>1. /\ seen = [owner |-> seen.owner, selector |-> seen.selector, dryRun |-> seen.dryRun]
        /\ wanted = [owner |-> wanted.owner, selector |-> wanted.selector, dryRun |-> wanted.dryRun]
    BY DEF Objects
  <2>2. seen # wanted => \/ seen.owner # wanted.owner
                         \/ seen.selector # wanted.selector
                         \/ seen.dryRun # wanted.dryRun
    BY <2>1
  <2>. QED BY <1>2, <2>2
<1>. QED BY <1>2, <1>3, <1>4

\* What a write leaves: an object; when it succeeds, the one that is due, or a
\* change that will be announced to the policy.
LEMMA WriteGives ==
  ASSUME IInv, NEW n \in Names, NEW p \in Policies, p.uid <= uids, NEW answer,
         answer = Write(p, Cached(objects[n]), Now(objects[n]))
  PROVE  /\ answer.object \in ObjectState /\ \A o \in answer.object : o.owner <= uids
         /\ answer.ok \in BOOLEAN
         /\ \A o \in answer.object : o.owner > 0 \/ \E x \in Now(objects[n]) : o.owner = x.owner
         /\ answer.ok => \/ InPlace(n, p)
                         \/ /\ answer.object # Cached(objects[n])
                            /\ Owned(answer.object) \/ Owned(Cached(objects[n]))
<1>. DEFINE cached == Cached(objects[n])
            object == Now(objects[n])
            Good(a) ==
              /\ a.object \in ObjectState /\ \A o \in a.object : o.owner <= uids
              /\ a.ok \in BOOLEAN
              /\ \A o \in a.object : o.owner > 0 \/ \E x \in Now(objects[n]) : o.owner = x.owner
              /\ a.ok => \/ InPlace(n, p)
                         \/ a.object # cached /\ (Owned(a.object) \/ Owned(cached))
<1>1. /\ object \in ObjectState /\ \A o \in object : o \in Objects /\ o.owner <= uids /\ object = {o}
      /\ \A o \in cached : o \in Objects /\ o.owner <= uids /\ cached = {o}
  BY TypedStates
<1>2. PICK wanted : wanted = Desired(p)
  OBVIOUS
<1>3. wanted \in Objects /\ wanted.owner = p.uid /\ wanted.owner > 0 /\ wanted.owner <= uids
  BY <1>2, DesiredObject
<1>4. \A ok, x : Answer(ok, x).ok = ok /\ Answer(ok, x).object = x
  BY DEF Answer
<1>5. {wanted} \in ObjectState /\ Owned({wanted}) /\ None \in ObjectState
  BY <1>3 DEF ObjectState, Owned
<1>6. Good(Answer(FALSE, object))
  <2>1. PICK a : a = Answer(FALSE, object)
    BY ZenonT(30)
  <2>2. ~a.ok /\ a.object = object /\ a.ok \in BOOLEAN
    BY <2>1 DEF Answer
  <2>3. Good(a)
    BY <1>1, <2>2
  <2>. QED BY <2>1, <2>3, ZenonT(30)
<1>. HIDE DEF object
<1>7. CASE backend = "kubernetes" /\ p.spec.mode = "monitor"
  <2>1. answer = Answer(object # None, None)
    BY <1>7 DEF Write, Delete, object
  <2>2. answer.object = None /\ answer.ok = (object # None)
    BY <1>4, <2>1
  <2>3. InPlace(n, p) \/ (None # cached /\ Owned(cached))
    <3>1. CASE Own(n, p) = {}
      BY <1>7, <3>1 DEF InPlace
    <3>2. CASE Own(n, p) # {}
      BY <3>2, <1>3 DEF Own, Owned, None
    <3>. QED BY <3>1, <3>2
  <2>. QED BY <1>5, <2>2, <2>3 DEF None
<1>8. CASE ~(backend = "kubernetes" /\ p.spec.mode = "monitor")
  <2>0. answer = CreateOrWrite(wanted, cached, object) /\ (cached = {wanted} => InPlace(n, p))
    BY <1>2, <1>8 DEF Write, object, InPlace
  <2>1. CASE cached = None
    <3>1. answer = IF object = None THEN Answer(TRUE, {wanted}) ELSE Answer(FALSE, object)
      BY <2>0, <2>1 DEF CreateOrWrite
    <3>2. CASE object = None
      <4>1. answer.ok = TRUE /\ answer.object = {wanted}
        BY <1>4, <3>1, <3>2, ZenonT(30)
      <4>. QED BY <1>3, <1>5, <2>1, <4>1, ZenonT(30) DEF None
    <3>3. CASE object # None
      BY <1>6, <3>1, <3>3, ZenonT(30) DEF object
    <3>. QED BY <3>2, <3>3
  <2>2. CASE cached # None
    <3>. DEFINE chosen == CHOOSE o \in cached : TRUE
    <3>1. PICK seen : seen = chosen /\ seen \in cached
      BY <2>2 DEF None
    <3>2. cached = {seen} /\ seen \in Objects
      BY <1>1, <3>1
    <3>3. answer = CASE seen.owner \notin {Uncontrolled, wanted.owner} -> Answer(FALSE, object)
                     [] seen = wanted -> Answer(TRUE, object)
                     [] OTHER -> IF backend = "kubernetes"
                                 THEN Update(seen, wanted, object)
                                 ELSE MergePatch(seen, wanted, object)
      BY <2>0, <2>2, <3>1 DEF CreateOrWrite
    <3>4. CASE seen.owner \notin {Uncontrolled, wanted.owner}
      <4>1. seen # wanted
        BY <3>4
      <4>. QED BY <1>6, <3>3, <3>4, <4>1, ZenonT(30) DEF object
    <3>5. CASE seen.owner \in {Uncontrolled, wanted.owner} /\ seen = wanted
      <4>1. answer = Answer(TRUE, object)
        BY <3>3, <3>5
      <4>2. InPlace(n, p)
        BY <2>0, <3>2, <3>5
      <4>3. answer.ok \in BOOLEAN /\ answer.object = object
        BY <4>1 DEF Answer
      <4>. QED BY <1>1, <4>2, <4>3 DEF object
    <3>6. CASE seen.owner \in {Uncontrolled, wanted.owner} /\ seen # wanted
      <4>1. CASE backend = "kubernetes"
        <5>1. answer = Update(seen, wanted, object)
          BY <3>3, <3>6, <4>1, ZenonT(30)
        <5>2. CASE object = {seen}
          <6>1. answer.ok = TRUE /\ answer.object = {wanted}
            BY <1>4, <5>1, <5>2, ZenonT(30) DEF Update
          <6>2. {wanted} # {seen}
            BY <3>6
          <6>. QED BY <1>3, <1>5, <3>2, <6>1, <6>2, ZenonT(30)
        <5>3. CASE object # {seen}
          BY <1>6, <5>1, <5>3, ZenonT(30) DEF Update, object
        <5>. QED BY <5>2, <5>3
      <4>2. CASE backend # "kubernetes"
        <5>1. answer = MergePatch(seen, wanted, object)
          BY <3>3, <3>6, <4>2, ZenonT(30)
        <5>. DEFINE merged(o) == [f \in DOMAIN o |-> IF seen[f] # wanted[f] THEN wanted[f] ELSE o[f]]
        <5>2. answer.ok = (object # None) /\ answer.object = {merged(o) : o \in object}
          <6>1. PICK ok, merge : ok = (object # None) /\ merge = {merged(o) : o \in object}
            BY ZenonT(30)
          <6>2. answer = Answer(ok, merge)
            BY <5>1, <6>1 DEF MergePatch
          <6>3. answer.ok = ok /\ answer.object = merge
            BY ONLY <6>2 DEF Answer
          <6>. QED BY <6>1, <6>3
        <5>. HIDE DEF merged
        <5>3. CASE object = None
          BY <1>5, <5>2, <5>3, ZenonT(30) DEF None
        <5>4. CASE object # None
          <6>1. PICK o : object = {o} /\ o \in Objects /\ o.owner <= uids
            BY <1>1, <5>4 DEF object, None
          <6>2. PICK r : r = merged(o)
            OBVIOUS
          <6>3. /\ r \in Objects /\ r.owner \in {wanted.owner, o.owner} /\ r # seen
                /\ seen.owner # wanted.owner => r.owner = wanted.owner
            BY <1>3, <3>2, <3>6, <6>1, <6>2, Merged DEF merged
          <6>4. answer.object = {r} /\ answer.ok \in BOOLEAN
            BY <5>2, <6>1, <6>2
          <6>5. {r} \in ObjectState /\ r.owner <= uids /\ (r.owner > 0 \/ r.owner = o.owner)
            BY <1>3, <6>1, <6>3 DEF ObjectState
          <6>6. Owned({r}) \/ Owned({seen})
            BY <1>3, <6>3 DEF Owned
          <6>7. o \in Now(objects[n])
            BY <6>1 DEF object
          <6>8. answer.object # cached /\ (Owned(answer.object) \/ Owned(cached))
            BY <3>2, <6>3, <6>4, <6>6, ZenonT(30)
          <6>. QED BY ONLY <6>4, <6>5, <6>7, <6>8
        <5>. QED BY <5>3, <5>4
      <4>. QED BY <4>1, <4>2
    <3>. QED BY <3>4, <3>5, <3>6
  <2>. QED BY <2>1, <2>2
<1>. QED BY <1>7, <1>8

\* The worker's job after the write.
LEMMA RenderedJob ==
  ASSUME job \in Jobs, job.step = "render", NEW ok \in BOOLEAN, job' = Rendering(ok)
  PROVE  /\ job' \in Jobs /\ job'.step = "patch" /\ job'.name = job.name /\ job'.policy = job.policy
         /\ job'.failed <=> ~ok
         /\ ok => job'.condition = job.condition
         /\ job'.condition.gen = job.condition.gen
<1>1. /\ DOMAIN job = {"step", "name", "policy", "condition", "failed"}
      /\ job.name \in Names /\ job.policy \in {{p} : p \in Policies} /\ job.condition \in Conditions
  BY DEF Jobs, NothingToDo
<1>2. PICK reason : reason = IF ok \/ job.condition.reason = DuplicateTarget
                             THEN job.condition.reason ELSE ReconciliationFailed
  OBVIOUS
<1>3. PICK c, f : c = [job.condition EXCEPT !.reason = reason] /\ f = ~ok
  BY ZenonT(30)
<1>4. job.condition.reason \in Reasons /\ job.condition.gen \in Nat
  BY <1>1 DEF Conditions, Reasons
<1>5. reason \in Reasons
  BY <1>2, <1>4 DEF Reasons
<1>6. c \in Conditions /\ (ok => c = job.condition) /\ c.gen = job.condition.gen
  <2>1. job.condition = [reason |-> job.condition.reason, gen |-> job.condition.gen]
    BY <1>1 DEF Conditions
  <2>2. c = [reason |-> reason, gen |-> job.condition.gen]
    BY <1>3, <2>1
  <2>3. c \in Conditions
    BY <1>4, <1>5, <2>2 DEF Conditions, Reasons
  <2>4. ok => reason = job.condition.reason
    BY <1>2
  <2>. QED BY <2>1, <2>2, <2>3, <2>4
<1>7. job' = [step |-> "patch", name |-> job.name, policy |-> job.policy, condition |-> c, failed |-> f]
  <2>1. job = [step |-> job.step, name |-> job.name, policy |-> job.policy, condition |-> job.condition,
               failed |-> job.failed]
    BY <1>1 DEF Jobs, NothingToDo
  <2>2. job' = [job EXCEPT !.step = "patch", !.failed = ~ok, !.condition.reason = reason]
    BY <1>2 DEF Rendering
  <2>3. job' = [job EXCEPT !.step = "patch", !.failed = f, !.condition = c]
    BY <1>3, <2>2, ZenonT(30)
  <2>. QED BY <2>1, <2>3, ZenonT(30)
<1>8. f \in BOOLEAN
  BY <1>3
<1>9. job' \in Jobs
  BY <1>1, <1>6, <1>7, <1>8 DEF Jobs
<1>10. /\ job'.step = "patch" /\ job'.name = job.name /\ job'.policy = job.policy
       /\ job'.failed = f /\ job'.condition = c
  BY <1>7
<1>11. job'.failed <=> ~ok
  BY <1>3, <1>10, ZenonT(30)
<1>. QED BY ONLY <1>6, <1>9, <1>10, <1>11

\* A job that is not idle has one policy, and the name of one.
LEMMA JobFields ==
  ASSUME IInv
  PROVE  /\ job.step \in {"idle", "render", "patch"} /\ job.condition \in Conditions
         /\ job.step = "idle" <=> job = NothingToDo
         /\ job.step = "idle" <=> job.policy = {}
         /\ job.step # "idle" => job.name \in Names /\ job.failed \in BOOLEAN
         /\ \A p \in job.policy : p \in Policies /\ p.uid <= uids /\ job.policy = {p}
<1>1. CASE job = NothingToDo
  <2>1. NoCondition \in Conditions
    BY DEF NoCondition, Conditions
  <2>. QED BY <1>1, <2>1 DEF NothingToDo
<1>2. CASE job # NothingToDo
  <2>1. job \in [step : {"render", "patch"}, name : Names, policy : {{p} : p \in Policies},
                 condition : Conditions, failed : BOOLEAN]
    BY <1>2 DEF IInv, Typed, Jobs
  <2>2. job.policy \in {{p} : p \in Policies} /\ \A p \in job.policy : p.uid <= uids
    BY <2>1 DEF IInv, GivenOut
  <2>3. \A p \in job.policy : p \in Policies /\ p.uid <= uids /\ job.policy = {p}
    BY <2>2
  <2>4. job.policy # {}
    BY <2>2
  <2>. QED BY <1>2, <2>1, <2>3, <2>4
<1>. QED BY <1>1, <1>2

\* The worker takes up a policy.
LEMMA ReconcileStarts ==
  ASSUME IInv, NEW n \in queue, Reconcile(n), NEW p \in Cached(policies[n])
  PROVE  /\ job' \in Jobs /\ job'.step # "idle" /\ job'.name = n
         /\ job'.step = "render" => ~job'.failed
         /\ Doing(n, p, job') /\ p.uid <= uids
<1>0. n \in Names
  BY DEF IInv, Typed
<1>1. Cached(policies[n]) # None /\ \A q \in Cached(policies[n]) : q = p /\ q.uid <= uids
  BY <1>0, TypedStates DEF None
<1>2. PICK j : j = job'
  OBVIOUS
<1>3. j = Started(n, p)
  BY <1>1, <1>2, ZenonT(30) DEF Reconcile, Started, Conflict
<1>4. /\ j \in Jobs /\ j.step # "idle" /\ j.name = n
      /\ j.step = "render" => ~j.failed
      /\ Doing(n, p, j)
  BY <1>0, <1>3, ReconcileGives
<1>. QED BY <1>1, <1>2, <1>4

\* The worker reads the caches.
LEMMA TypedReconcile ==
  ASSUME IInv, NEW n \in queue, Reconcile(n)
  PROVE  IInv'
<1>1. /\ job = NothingToDo /\ queue' = queue \ {n} /\ queue \subseteq Names
      /\ UNCHANGED <<backend, cluster, clock, uids, edits, touches, policies, objects, faults>>
  BY ZenonT(30) DEF Reconcile, WorkerOnly, IInv, Typed
<1>2. /\ job' \in Jobs /\ (job'.step = "render" => ~job'.failed)
      /\ \A p \in job'.policy : p.uid <= uids /\ job'.condition.gen = p.gen
  <2>1. CASE Cached(policies[n]) = None
    <3>1. job' = job
      BY <2>1 DEF Reconcile
    <3>. QED BY <3>1, ZenonT(30) DEF IInv, Typed, GivenOut
  <2>2. CASE Cached(policies[n]) # None
    <3>1. PICK p : p \in Cached(policies[n])
      BY <2>2 DEF None
    <3>. QED BY <3>1, ReconcileStarts DEF Doing
  <2>. QED BY <2>1, <2>2
<1>. QED BY <1>1, <1>2, ZenonT(30) DEF IInv, Typed, GivenOut

\* The worker writes the object.
LEMMA TypedRender ==
  ASSUME IInv, Render
  PROVE  IInv'
<1>1. /\ job.step = "render" /\ job \in Jobs /\ job.name \in Names
      /\ UNCHANGED <<backend, cluster, clock, uids, edits, touches, policies, queue>>
  <2>1. job.step = "render"
    BY ZenonT(30) DEF Render
  <2>2. job \in Jobs /\ job.name \in Names
    BY <2>1, JobFields DEF IInv, Typed
  <2>. QED BY <2>1, <2>2, ZenonT(30) DEF Render, WorkerOnly
<1>2. PICK p, answer :
         /\ p \in job.policy
         /\ answer = Write(p, Cached(objects[job.name]), Now(objects[job.name]))
         /\ \/ /\ StoreObject(job.name, answer.object)
               /\ job' = Rendering(answer.ok)
               /\ UNCHANGED faults
            \/ /\ faults < MaxFaults
               /\ faults' = faults + 1
               /\ StoreObject(job.name, answer.object) \/ UNCHANGED objects
               /\ job' = Rendering(FALSE)
  BY ZenonT(30) DEF Render
<1>3. p \in Policies /\ p.uid <= uids
  BY <1>2, JobFields
<1>4. answer.object \in ObjectState /\ (\A o \in answer.object : o.owner <= uids) /\ answer.ok \in BOOLEAN
  BY <1>1, <1>2, <1>3, WriteGives, ZenonT(30)
<1>5. StoreObject(job.name, answer.object) \/ UNCHANGED objects
  BY <1>2, ZenonT(30)
<1>6. /\ objects' \in [Names -> Logs(ObjectState)]
      /\ \A m \in Names : \A o \in Versions(objects'[m]) : o.owner <= uids
  <2>1. CASE StoreObject(job.name, answer.object)
    BY <1>1, <1>4, <2>1, ObjectWritten
  <2>2. CASE UNCHANGED objects
    BY <2>2 DEF IInv, Typed, GivenOut
  <2>. QED BY <1>5, <2>1, <2>2
<1>7. PICK ok \in BOOLEAN : job' = Rendering(ok)
  BY <1>2, <1>4, ZenonT(30)
<1>8. /\ job' \in Jobs /\ job'.step = "patch" /\ job'.policy = job.policy
      /\ job'.condition.gen = job.condition.gen
  BY <1>1, <1>7, RenderedJob
<1>9. faults' \in 0 .. MaxFaults
  <2>1. faults \in 0 .. MaxFaults /\ MaxFaults \in Nat
    BY ReconcileAssumption DEF IInv, Typed
  <2>2. faults' = faults \/ (faults < MaxFaults /\ faults' = faults + 1)
    BY <1>2, ZenonT(30)
  <2>. QED BY <2>1, <2>2
<1>. QED BY <1>1, <1>6, <1>8, <1>9, ZenonT(30) DEF IInv, Typed, GivenOut

(* The patch of the condition writes p with the new condition. *)
Patched(n, p, q) ==
    /\ Now(policies[n]) = {p} /\ q = [p EXCEPT !.condition = job.condition]
    /\ p.condition # job.condition /\ Store(n, {q})

\* The patch of the condition writes nothing, fails, or finds the policy as it was read.
LEMMA PatchGives ==
  ASSUME IInv, UpdateReadyCondition
  PROVE  /\ job.step = "patch" /\ job \in Jobs /\ job.name \in Names /\ job' = NothingToDo
         /\ UNCHANGED <<backend, cluster, clock, uids, edits, touches, objects>>
         /\ queue' = queue \/ queue' = queue \cup {job.name}
         /\ job.failed => job.name \in queue'
         /\ faults' \in 0 .. MaxFaults
         /\ \E p \in Policies :
               /\ job.policy = {p} /\ p.uid <= uids
               /\ \/ policies' = policies /\ (p.condition = job.condition \/ job.name \in queue')
                  \/ \E q : Patched(job.name, p, q)
<1>1. /\ job.step = "patch" /\ job \in Jobs /\ job.name \in Names
      /\ UNCHANGED <<backend, cluster, clock, uids, edits, touches, objects>>
  <2>1. job.step = "patch"
    BY DEF UpdateReadyCondition
  <2>2. job \in Jobs /\ job.name \in Names
    BY <2>1, JobFields DEF IInv, Typed
  <2>. QED BY <2>1, <2>2 DEF UpdateReadyCondition, WorkerOnly
<1>. DEFINE n == job.name
            current == Now(policies[n])
            patched(p) == IF Locked(p, current)
                          THEN {[q EXCEPT !.condition = job.condition] : q \in current}
                          ELSE current
<1>2. PICK p \in job.policy :
         \/ p.condition = job.condition /\ Finish(FALSE) /\ UNCHANGED <<policies, faults>>
         \/ /\ p.condition # job.condition /\ Store(n, patched(p))
            /\ Finish(~Locked(p, current)) /\ UNCHANGED faults
         \/ /\ p.condition # job.condition /\ faults < MaxFaults /\ faults' = faults + 1
            /\ Store(n, patched(p)) \/ UNCHANGED policies
            /\ Finish(TRUE)
  BY ZenonT(30) DEF UpdateReadyCondition
<1>3. p \in Policies /\ p.uid <= uids /\ job.policy = {p}
  BY <1>2, JobFields
<1>4. faults' \in 0 .. MaxFaults
  <2>1. faults \in 0 .. MaxFaults /\ MaxFaults \in Nat
    BY ReconcileAssumption DEF IInv, Typed
  <2>2. faults' = faults \/ (faults < MaxFaults /\ faults' = faults + 1)
    BY <1>2, ZenonT(30)
  <2>. QED BY <2>1, <2>2
<1>5. /\ job' = NothingToDo /\ (queue' = queue \/ queue' = queue \cup {n})
      /\ job.failed => n \in queue'
  BY <1>2 DEF Finish
<1>6. Store(n, current) => policies' = policies
  <2>1. policies \in [Names -> Logs(PolicyState)]
    BY DEF IInv, Typed
  <2>2. Changed(policies[n], current) = policies[n]
    BY DEF Changed
  <2>. QED BY <1>1, <2>1, <2>2 DEF Store
<1>7. ASSUME p.condition # job.condition, Store(n, patched(p)), Locked(p, current)
      PROVE  \E q : Patched(n, p, q)
  <2>1. PICK q : q = [p EXCEPT !.condition = job.condition]
    BY ZenonT(30)
  <2>2. current = {p}
    BY <1>7 DEF Locked
  <2>3. patched(p) = {q}
    BY <1>7, <2>1, <2>2
  <2>4. Patched(n, p, q)
    BY <1>7, <2>1, <2>2, <2>3 DEF Patched
  <2>. QED BY <2>4
<1>8. ASSUME Store(n, patched(p)), ~Locked(p, current)
      PROVE  policies' = policies
  BY <1>6, <1>8
<1>9. \/ policies' = policies /\ (p.condition = job.condition \/ n \in queue')
      \/ \E q : Patched(n, p, q)
  <2>1. CASE p.condition = job.condition
    BY <1>2, <2>1
  <2>2. CASE p.condition # job.condition
    <3>1. CASE UNCHANGED policies /\ Finish(TRUE)
      BY <3>1 DEF Finish
    <3>2. CASE Store(n, patched(p)) /\ (Finish(~Locked(p, current)) \/ Finish(TRUE))
      <4>1. CASE Locked(p, current)
        BY <1>7, <2>2, <3>2, <4>1
      <4>2. CASE ~Locked(p, current)
        BY <1>8, <3>2, <4>2 DEF Finish
      <4>. QED BY <4>1, <4>2
    <3>. QED BY <1>2, <2>2, <3>1, <3>2, ZenonT(30)
  <2>. QED BY <2>1, <2>2
<1>. HIDE DEF n
<1>10. PICK q \in Policies : q = p
  BY <1>3
<1>11. /\ job.policy = {q} /\ q.uid <= uids
       /\ \/ policies' = policies /\ (q.condition = job.condition \/ n \in queue')
          \/ \E x : Patched(n, q, x)
  BY <1>3, <1>9, <1>10
<1>. QED BY <1>1, <1>4, <1>5, <1>11 DEF n

\* The worker writes the condition.
LEMMA TypedPatch ==
  ASSUME IInv, UpdateReadyCondition
  PROVE  IInv'
<1>1. /\ job.step = "patch" /\ job.name \in Names /\ job' = NothingToDo
      /\ UNCHANGED <<backend, cluster, clock, uids, edits, touches, objects>>
      /\ queue' \subseteq Names /\ faults' \in 0 .. MaxFaults
      /\ job.condition \in Conditions
  BY PatchGives, JobFields, ZenonT(30) DEF IInv, Typed
<1>2. PICK p \in Policies : /\ job.policy = {p} /\ p.uid <= uids
                            /\ policies' = policies \/ \E q : Patched(job.name, p, q)
  BY PatchGives, ZenonT(30)
<1>3. /\ policies' \in [Names -> Logs(PolicyState)]
      /\ \A m \in Names : \A x \in Versions(policies'[m]) : x.uid <= uids
      /\ \A m \in Names : Coherent(policies'[m])
  <2>1. CASE policies' = policies
    BY <2>1 DEF IInv, Typed, GivenOut
  <2>2. CASE \E q : Patched(job.name, p, q)
    <3>1. PICK q : Patched(job.name, p, q)
      BY <2>2
    <3>2. /\ q \in Policies /\ q.uid = p.uid /\ q.created = p.created
          /\ q.spec = p.spec /\ q.gen = p.gen
      BY <1>1, <3>1, PatchedPolicy DEF Patched
    <3>3. {q} \in PolicyState
      BY <3>2 DEF PolicyState
    <3>4. p \in Versions(policies[job.name]) /\ Now(policies[job.name]) = {p}
      <4>1. Now(policies[job.name]) \subseteq Versions(policies[job.name])
        BY <1>1, TypedStates, LogEnds
      <4>. QED BY <3>1, <4>1 DEF Patched
    <3>5. \A r \in Versions(policies[job.name]) : r.uid = q.uid =>
             /\ r.gen <= q.gen
             /\ r.gen = q.gen => r.spec = q.spec /\ r.created = q.created
      BY <1>1, <3>2, <3>4 DEF IInv, Coherent
    <3>6. uids \in Nat /\ uids' = uids
      BY <1>1 DEF IInv, Typed
    <3>7. Store(job.name, {q}) /\ q.uid <= uids
      BY <1>2, <3>1, <3>2 DEF Patched
    <3>8. Follows(job.name, {q})
      BY <3>5, <3>6, <3>7 DEF Follows
    <3>. QED BY <1>1, <3>3, <3>6, <3>7, <3>8, PolicyWritten
  <2>. QED BY <1>2, <2>1, <2>2
<1>4. job' \in Jobs /\ job'.policy = {} /\ job'.step # "render"
  BY <1>1 DEF Jobs, NothingToDo
<1>. QED BY <1>1, <1>3, <1>4 DEF IInv, Typed, GivenOut

\* Every step keeps the invariant.
LEMMA TypedNext == IInv /\ [Next]_vars => IInv'
<1>. SUFFICES ASSUME IInv, [Next]_vars PROVE IInv'
  OBVIOUS
<1>1. CASE Edit
  BY <1>1, TypedEdits, TypedTouches, TypedCluster DEF Edit
<1>2. CASE \E n \in Names : CollectGarbage(n)
  BY <1>2, TypedTouches
<1>3. CASE Watch
  BY <1>3, TypedDeliveries DEF Watch
<1>4. CASE Work
  BY <1>4, TypedReconcile, TypedRender, TypedPatch DEF Work
<1>5. CASE Restart
  BY <1>5, TypedRestart
<1>6. CASE UNCHANGED vars
  BY <1>6 DEF vars, IInv, Typed, GivenOut
<1>. QED BY <1>1, <1>2, <1>3, <1>4, <1>5, <1>6 DEF Next

\* The sets that IInv names are the types of TypeOK.
LEMMA TypedIsTypeOK == IInv => TypeOK
<1>. SUFFICES ASSUME IInv PROVE TypeOK
  OBVIOUS
<1>1. ASSUME NEW n \in Names, NEW k \in DOMAIN policies[n], NEW p \in policies[n][k]
      PROVE  p \in Policies /\ policies[n][k] = {p}
  <2>1. policies[n][k] \in PolicyState
    BY TypedStates, LogEnds
  <2>. QED BY <2>1 DEF PolicyState, None
<1>2. ASSUME NEW n \in Names, NEW k \in DOMAIN objects[n], NEW o \in objects[n][k]
      PROVE  objects[n][k] = {o} /\ o.owner <= uids /\ o.dryRun \in BOOLEAN
  <2>1. objects[n][k] \in ObjectState /\ objects[n][k] \subseteq Versions(objects[n])
    BY TypedStates, LogEnds, ZenonT(30)
  <2>2. objects[n][k] = {o} /\ o \in Objects
    BY <2>1 DEF ObjectState, None
  <2>. QED BY <2>1, <2>2, ZenonT(30) DEF IInv, GivenOut, Objects
<1>3. \A k \in DOMAIN cluster : cluster[k] \in Clusters
  BY LogEnds DEF IInv, Typed
<1>4. /\ job.step \in {"idle", "render", "patch"} /\ job.condition \in Conditions
      /\ job.step = "idle" <=> job.policy = {}
  BY JobFields
<1>. QED BY <1>1, <1>2, <1>3, <1>4 DEF TypeOK, IInv, Typed

\* The inductive invariant.  TypeOK alone is not one: what the worker holds
\* must be typed too, and an update needs the generations of the versions in
\* the log (UpdatePolicy, updateReadyCondition).
THEOREM ReconcileInvariance == Spec => []IInv
<1>. QED BY TypedInit, TypedNext, PTL DEF Spec

\* Everything that is stored, cached, queued or in the worker's hands is what
\* it should be, in every state a controller with stale caches can get into:
\* at most one policy or object under a name, no owner that was never given a
\* UID, no job without a policy (Reconcile and updateReadyCondition).
THEOREM TypeCorrect == Spec => []TypeOK
<1>. QED BY ReconcileInvariance, TypedIsTypeOK, PTL

-----------------------------------------------------------------------------
(* What a step may do to a policy, for ConditionsAreCurrent. *)
ConditionCurrent ==
    \A n \in Names : \A p \in Now(policies[n]), q \in Now(policies'[n]) :
        p.uid = q.uid /\ p.condition # q.condition => q.condition.gen = q.gen

\* A step that writes no policy.
LEMMA PoliciesAlone ==
  ASSUME IInv, \A n \in Names : Now(policies'[n]) = Now(policies[n])
  PROVE  ConditionCurrent
<1>1. ASSUME NEW n \in Names, NEW a \in Now(policies[n]), NEW b \in Now(policies'[n])
      PROVE  a = b
  <2>1. Now(policies'[n]) = {a}
    BY <1>1, TypedStates
  <2>. QED BY <1>1, <2>1
<1>. QED BY <1>1 DEF ConditionCurrent

\* A step that writes one policy.
LEMMA OnePolicy ==
  ASSUME IInv, NEW n \in Names, NEW state \in PolicyState, Store(n, state),
         \A p \in Now(policies[n]), q \in state : p.condition = q.condition \/ q.condition.gen = q.gen
  PROVE  ConditionCurrent
<1>1. /\ policies \in [Names -> Logs(PolicyState)]
      /\ policies' = [policies EXCEPT ![n] = Changed(policies[n], state)]
  BY DEF IInv, Typed, Store
<1>2. Now(policies'[n]) = state /\ \A m \in Names \ {n} : policies'[m] = policies[m]
  <2>1. PICK logs, new : logs = policies /\ new = policies'
    OBVIOUS
  <2>2. /\ logs \in [Names -> Logs(PolicyState)] /\ n \in Names /\ state \in PolicyState
        /\ new = [logs EXCEPT ![n] = Changed(logs[n], state)]
    BY <1>1, <2>1
  <2>3. Now(new[n]) = state /\ \A m \in Names \ {n} : new[m] = logs[m]
    BY ONLY <2>2, OneWritten
  <2>. QED BY <2>1, <2>3
<1>3. ASSUME NEW m \in Names, NEW a \in Now(policies[m]), NEW b \in Now(policies'[m])
      PROVE  a.condition = b.condition \/ b.condition.gen = b.gen
  <2>1. CASE m = n
    BY <1>2, <1>3, <2>1
  <2>2. CASE m # n
    <3>1. Now(policies'[m]) = {a}
      BY <1>2, <1>3, <2>2, TypedStates
    <3>. QED BY <1>3, <3>1
  <2>. QED BY <2>1, <2>2
<1>. QED BY <1>3 DEF ConditionCurrent

\* Every step writes conditions for the current spec only.
LEMMA NextCurrent ==
  ASSUME IInv, [Next]_vars
  PROVE  ConditionCurrent
<1>0. policies \in [Names -> Logs(PolicyState)]
  BY DEF IInv, Typed
<1>1. ASSUME NEW n \in Names, NEW spec \in Specs, CreatePolicy(n, spec)
      PROVE  ConditionCurrent
  <2>1. PICK state : Store(n, state) /\ Now(policies[n]) = None
    BY <1>1 DEF CreatePolicy
  <2>2. \A m \in Names \ {n} : policies'[m] = policies[m]
    BY <1>0, <2>1 DEF Store
  <2>3. ASSUME NEW m \in Names, NEW a \in Now(policies[m]), NEW b \in Now(policies'[m])
        PROVE  a = b
    <3>1. m # n
      BY <2>1, <2>3 DEF None
    <3>2. Now(policies'[m]) = {a}
      BY <2>2, <2>3, <3>1, TypedStates
    <3>. QED BY <2>3, <3>2
  <2>. QED BY <2>3 DEF ConditionCurrent
<1>2. ASSUME NEW n \in Names, NEW spec \in Specs, UpdatePolicy(n, spec)
      PROVE  ConditionCurrent
  <2>1. PICK p, q :
           p \in Now(policies[n]) /\ q = [p EXCEPT !.spec = spec, !.gen = p.gen + 1] /\ Store(n, {q})
    BY <1>2, ZenonT(30) DEF UpdatePolicy
  <2>2. p \in Policies /\ Now(policies[n]) = {p}
    BY <1>2, <2>1, TypedStates
  <2>3. q \in Policies /\ q.condition = p.condition
    BY <1>2, <2>1, <2>2, UpdatedPolicy, ZenonT(30)
  <2>4. {q} \in PolicyState
    BY <2>3 DEF PolicyState
  <2>. QED BY <1>2, <2>1, <2>2, <2>3, <2>4, OnePolicy, ZenonT(30)
<1>3. ASSUME NEW n \in Names, DeletePolicy(n)
      PROVE  ConditionCurrent
  <2>1. Store(n, None) /\ None \in PolicyState
    BY <1>3 DEF DeletePolicy, PolicyState
  <2>. QED BY <1>3, <2>1, OnePolicy, ZenonT(30) DEF None
<1>4. CASE UpdateReadyCondition
  <2>1. PICK p \in Policies : /\ job.name \in Names /\ job.policy = {p}
                              /\ policies' = policies \/ \E q : Patched(job.name, p, q)
    BY <1>4, PatchGives, ZenonT(30)
  <2>2. CASE policies' = policies
    BY <2>2, PoliciesAlone
  <2>3. CASE \E q : Patched(job.name, p, q)
    <3>1. PICK q : Patched(job.name, p, q)
      BY <2>3
    <3>2. q \in Policies /\ q.gen = p.gen /\ q.condition = job.condition
      BY <3>1, JobFields, PatchedPolicy DEF Patched
    <3>3. q.condition.gen = q.gen
      BY <2>1, <3>2 DEF IInv
    <3>4. {q} \in PolicyState /\ Store(job.name, {q})
      BY <3>1, <3>2 DEF PolicyState, Patched
    <3>. QED BY <2>1, <3>3, <3>4, OnePolicy
  <2>. QED BY <2>1, <2>2, <2>3, ZenonT(30)
<1>5. ASSUME NEW n \in Names, DeliverPolicy(n)
      PROVE  ConditionCurrent
  <2>1. PICK k \in Later(policies[n]) : policies' = [policies EXCEPT ![n] = From(policies[n], k)]
    BY <1>5, ZenonT(30) DEF DeliverPolicy
  <2>2. \A m \in Names : Now(policies'[m]) = Now(policies[m])
    <3>1. PICK logs, new : logs = policies /\ new = policies'
      OBVIOUS
    <3>2. Reads(logs, new, n, k, PolicyState)
      BY <1>0, <1>5, <2>1, <3>1 DEF Reads
    <3>3. \A m \in Names : Now(new[m]) = Now(logs[m])
      BY ONLY <3>2, OneRead
    <3>. QED BY <3>1, <3>3
  <2>. QED BY <2>2, PoliciesAlone
<1>6. CASE Restart
  <2>1. \A m \in Names : policies'[m] = <<Now(policies[m])>> /\ policies[m] \in Logs(PolicyState)
    BY <1>0, <1>6 DEF Restart
  <2>2. \A m \in Names : Now(policies'[m]) = Now(policies[m])
    BY <2>1, AllRead
  <2>. QED BY <2>2, PoliciesAlone
<1>7. CASE UNCHANGED policies
  BY <1>7, PoliciesAlone
<1>8. \/ UNCHANGED policies \/ Restart \/ UpdateReadyCondition
      \/ \E n \in Names : DeliverPolicy(n) \/ DeletePolicy(n)
      \/ \E n \in Names, spec \in Specs : CreatePolicy(n, spec) \/ UpdatePolicy(n, spec)
  BY ZenonT(30) DEF Next, vars, Edit, Watch, Work, TouchObject, ChangeCluster, CollectGarbage, DeliverObject,
         DeliverCluster, Reconcile, Render
<1>. QED BY <1>1, <1>2, <1>3, <1>4, <1>5, <1>6, <1>7, <1>8

\* A condition is only ever written for the generation the policy has at that
\* moment, however far the cache is behind and whatever users do between the
\* read and the patch: the optimistic lock of updateReadyCondition.
THEOREM ConditionsWrittenForCurrentSpec == Spec => ConditionsAreCurrent
<1>1. IInv /\ [Next]_vars => ConditionCurrent
  BY NextCurrent
<1>2. IInv /\ [Next]_vars =>
         [\A n \in Names : \A p \in Now(policies[n]), q \in Now(policies'[n]) :
             p.uid = q.uid /\ p.condition # q.condition => q.condition.gen = q.gen]_vars
  BY <1>1 DEF ConditionCurrent
<1>. QED BY ReconcileInvariance, <1>2, PTL DEF Spec, ConditionsAreCurrent

\* What a protect-mode write on Kubernetes leaves of an object that someone
\* else controls: the object.
LEMMA ForeignObjectKept ==
  ASSUME backend = "kubernetes", NEW p, p.spec.mode = "protect", p.uid \in Nat,
         NEW cached, NEW o, o.owner < 0, NEW object, object = {o}
  PROVE  Write(p, cached, object).object = object
<1>. DEFINE wanted == Desired(p)
<1>1. wanted.owner \in Nat
  BY ZenonT(30) DEF Desired
<1>2. ASSUME NEW seen, seen.owner \in {Uncontrolled, wanted.owner}
      PROVE  seen # o
  BY <1>1, <1>2 DEF Uncontrolled
<1>. HIDE DEF wanted
<1>3. ASSUME NEW seen, seen.owner \in {Uncontrolled, wanted.owner}
      PROVE  Update(seen, wanted, object).object = object
  BY <1>2, <1>3 DEF Update, Answer
<1>4. CreateOrWrite(wanted, cached, object).object = object
  <2>1. CASE cached = None
    BY <2>1 DEF CreateOrWrite, Answer, None
  <2>2. CASE cached # None
    <3>1. PICK seen : seen = CHOOSE x \in cached : TRUE
      OBVIOUS
    <3>2. CASE seen.owner \notin {Uncontrolled, wanted.owner} \/ seen = wanted
      <4>1. CreateOrWrite(wanted, cached, object) \in {Answer(FALSE, object), Answer(TRUE, object)}
        BY <2>2, <3>1, <3>2, ZenonT(30) DEF CreateOrWrite
      <4>. QED BY <4>1 DEF Answer
    <3>3. CASE seen.owner \in {Uncontrolled, wanted.owner} /\ seen # wanted
      <4>1. CreateOrWrite(wanted, cached, object) = Update(seen, wanted, object)
        BY <2>2, <3>1, <3>3, ZenonT(30) DEF CreateOrWrite
      <4>. QED BY <1>3, <3>3, <4>1
    <3>. QED BY <3>2, <3>3
  <2>. QED BY <2>1, <2>2
<1>. QED BY <1>4 DEF Write, wanted

\* In protect mode on Kubernetes the worker never overwrites an object that
\* someone else controls, however old the copies are that it decides on:
\* the owner of the copy is checked and the update carries its resource
\* version (reconcileK8sPolicy, reconcileProtect).
THEOREM ForeignObjectsKept == Spec => OthersObjectsKept
<1>1. ASSUME IInv, Render, backend = "kubernetes", \A p \in job.policy : p.spec.mode = "protect",
             NEW n \in Names, NEW o \in Now(objects[n]), o.owner < 0
      PROVE  Now(objects'[n]) = {o}
  <2>1. PICK p, state :
           /\ p \in job.policy
           /\ state = Write(p, Cached(objects[job.name]), Now(objects[job.name])).object
           /\ StoreObject(job.name, state) \/ UNCHANGED objects
    BY <1>1, ZenonT(30) DEF Render
  <2>2. Now(objects[n]) = {o} /\ objects \in [Names -> Logs(ObjectState)]
    BY <1>1, TypedStates, ZenonT(30) DEF IInv, Typed
  <2>3. CASE UNCHANGED objects
    BY <2>2, <2>3, ZenonT(30)
  <2>4. CASE StoreObject(job.name, state) /\ n = job.name
    <3>1. p.uid \in Nat /\ p.spec.mode = "protect"
      BY <1>1, <2>1, JobFields DEF Policies
    <3>2. PICK cached : cached = Cached(objects[n])
      OBVIOUS
    <3>3. state = Write(p, cached, {o}).object
      BY <2>1, <2>2, <2>4, <3>2
    <3>4. state = {o}
      BY <1>1, <3>1, <3>3, ForeignObjectKept
    <3>5. objects' = [objects EXCEPT ![n] = Changed(objects[n], {o})]
      BY <2>4, <3>4 DEF StoreObject
    <3>6. Changed(objects[n], {o}) = objects[n]
      BY <2>2 DEF Changed
    <3>. QED BY <1>1, <2>2, <3>5, <3>6
  <2>5. CASE StoreObject(job.name, state) /\ n # job.name
    <3>1. objects'[n] = objects[n]
      BY <1>1, <2>2, <2>5 DEF StoreObject
    <3>. QED BY <2>2, <3>1
  <2>. QED BY <2>1, <2>3, <2>4, <2>5
<1>2. IInv /\ [Next]_vars =>
         [Render /\ backend = "kubernetes" /\ (\A p \in job.policy : p.spec.mode = "protect") =>
             \A n \in Names : \A o \in Now(objects[n]) : o.owner < 0 => Now(objects'[n]) = {o}]_vars
  BY <1>1
<1>. QED BY ReconcileInvariance, <1>2, PTL DEF Spec, OthersObjectsKept
==============================================================================
