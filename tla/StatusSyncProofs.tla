------------------------- MODULE StatusSyncProofs -------------------------
(***************************************************************************)
(* Proofs about StatusSync, for every set of flows, every capacity and any *)
(* number of observations, edits, failures and restarts.                   *)
(*                                                                         *)
(* The first part is about RecomputeStatus alone: from a well-formed       *)
(* status it makes a well-formed one, and every record of the result is an *)
(* old record or has an ID the counter had not reached.  The second part   *)
(* is about the protocol around it: while a cycle is between its read and  *)
(* its status patch, the base of the patch is what the server holds.       *)
(***************************************************************************)
EXTENDS StatusSync, FunctionTheorems, FiniteSetTheorems, TLAPS

USE SMTT(30), ZenonT(20)

---------------------------------------------------------------------------
(* RecomputeStatus *)

\* IDs are unique and below the counter, and active flows have one record.
WellFormed(w) ==
    /\ \A v1, v2 \in w.violations : v1.id = v2.id => v1 = v2
    /\ \A v1, v2 \in w.violations : v1.key = v2.key => v1 = v2
    /\ \A a1, a2 \in w.acked : a1.id = a2.id => a1 = a2
    /\ \A v \in w.violations, a \in w.acked : v.id # a.id
    /\ \A v \in w.violations : v.id < w.count
    /\ \A a \in w.acked : a.id < w.count

\* Records with unique IDs below a bound are finitely many, so counting them
\* makes sense.
LEMMA FiniteByID ==
    ASSUME NEW S, NEW n \in Nat,
           \A r \in S : r.id \in Nat /\ r.id < n,
           \A r, s \in S : r.id = s.id => r = s
    PROVE  IsFiniteSet(S) /\ Cardinality(S) \in Nat
<1> DEFINE f == [r \in S |-> r.id]
<1>1. f \in [S -> 0 .. n]
  OBVIOUS
<1>2. \A a, b \in S : f[a] = f[b] => a = b
  OBVIOUS
<1>3. f \in Injection(S, 0 .. n)
  BY <1>1, <1>2, Fun_IsInj
<1>4. IsFiniteSet(0 .. n)
  BY FS_Interval
<1> HIDE DEF f
<1>5. IsFiniteSet(S)
  BY <1>3, <1>4, FS_Injection
<1>6. QED
  BY <1>5, FS_CardinalityType

\* What a batch of observations is made of.
LEMMA ObservationAt ==
    ASSUME NEW obs \in Seq(Observation)
    PROVE  /\ DOMAIN obs = 1 .. Len(obs)
           /\ Len(obs) \in Nat
           /\ \A i \in 1 .. Len(obs) : obs[i].key \in Keys /\ obs[i].ts \in Times
<1>1. DOMAIN obs = 1 .. Len(obs) /\ Len(obs) \in Nat /\ \A i \in 1 .. Len(obs) : obs[i] \in Observation
  OBVIOUS
<1>2. QED
  BY <1>1 DEF Observation

\* A key is seen at times.
LEMMA SeenAtTimes ==
    ASSUME NEW obs \in Seq(Observation), NEW k
    PROVE  SeenAt(obs, k) \in SUBSET Times
BY ObservationAt DEF SeenAt

\* A set of times has at most one latest element.
LEMMA LatestUnique ==
    ASSUME NEW T \in SUBSET Nat, NEW t \in Latest(T), NEW u \in Latest(T)
    PROVE  t = u
BY DEF Latest

\* A refreshed record is an old one with a later timestamp.
LEMMA RefreshedRecord ==
    ASSUME NEW V \in SUBSET Violation, NEW obs \in Seq(Observation),
           NEW r \in Refreshed(V, obs)
    PROVE  \E v \in V : /\ r.key = v.key /\ r.id = v.id /\ r \in Violation
                        /\ r = [v EXCEPT !.ts = r.ts]
                        /\ r.ts \in Latest({v.ts} \union SeenAt(obs, v.key))
<1>1. PICK v \in V : \E t \in Latest({v.ts} \union SeenAt(obs, v.key)) : r = [v EXCEPT !.ts = t]
  BY ZenonT(30) DEF Refreshed
<1>2. PICK t \in Latest({v.ts} \union SeenAt(obs, v.key)) : r = [v EXCEPT !.ts = t]
  BY <1>1
<1>3. v \in [key : Keys, ts : Times, id : Nat]
  BY DEF Violation
<1>4. t \in Times
  BY <1>2, <1>3, SeenAtTimes DEF Latest
<1>5. /\ r.key = v.key /\ r.id = v.id /\ r.ts = t
      /\ r \in [key : Keys, ts : Times, id : Nat]
  BY <1>2, <1>3, <1>4
<1>6. QED
  BY ZenonT(30), <1>2, <1>5 DEF Violation

\* An added record has the key of the observation it is for, and its ID.
LEMMA AddedRecord ==
    ASSUME NEW V, NEW obs \in Seq(Observation), NEW c \in Nat,
           NEW r \in Added(V, obs, c)
    PROVE  \E i \in FirstSeen(V, obs) :
               /\ i \in 1 .. Len(obs)
               /\ r.key = obs[i].key /\ r.id = c + i - 1 /\ r \in Violation
               /\ r = [key |-> r.key, ts |-> r.ts, id |-> r.id]
               /\ r.ts \in Latest(SeenAt(obs, obs[i].key))
<1>1. PICK i \in FirstSeen(V, obs) :
          \E t \in Latest(SeenAt(obs, obs[i].key)) : r = [key |-> obs[i].key, ts |-> t, id |-> c + i - 1]
  BY DEF Added
<1>2. PICK t \in Latest(SeenAt(obs, obs[i].key)) : r = [key |-> obs[i].key, ts |-> t, id |-> c + i - 1]
  BY <1>1
<1>3. i \in 1 .. Len(obs) /\ obs[i].key \in Keys
  BY ObservationAt DEF FirstSeen
<1>4. t \in Times
  BY <1>2, SeenAtTimes DEF Latest
<1>5. c + i - 1 \in Nat
  BY <1>3
<1>6. /\ r.key = obs[i].key /\ r.id = c + i - 1 /\ r.ts = t
      /\ r = [key |-> r.key, ts |-> r.ts, id |-> r.id]
      /\ r \in [key : Keys, ts : Times, id : Nat]
  BY <1>2, <1>3, <1>4, <1>5
<1>7. QED
  BY <1>2, <1>3, <1>6 DEF Violation

\* Merging keeps IDs and flows unique.  A merged record is an old one or its
\* ID is one the counter passes in this merge.
LEMMA MergedRecords ==
    ASSUME NEW w \in Policy, WellFormed(w), NEW obs \in Seq(Observation)
    PROVE  LET M == Merged(w.violations, obs, w.count)
           IN  /\ M \subseteq Violation
               /\ \A r, s \in M : r.id = s.id => r = s
               /\ \A r, s \in M : r.key = s.key => r = s
               /\ \A r \in M : r.id < w.count + Len(obs)
               /\ \A r \in M : \/ \E v \in w.violations : v.id = r.id /\ v.key = r.key
                              \/ r.id >= w.count
<1> DEFINE V == w.violations
           R == Refreshed(V, obs)
           A == Added(V, obs, w.count)
<1>1. V \in SUBSET Violation /\ w.count \in Nat
  BY DEF Policy
<1>2. Len(obs) \in Nat
  OBVIOUS
<1>a. \A v \in V : v.id \in Nat /\ v.ts \in Nat
  BY ZenonT(30), <1>1, StatusAssumption DEF Violation
<1>3. \A r \in R : \E v \in V : /\ r.key = v.key /\ r.id = v.id /\ r \in Violation
                               /\ r = [v EXCEPT !.ts = r.ts]
                               /\ r.ts \in Latest({v.ts} \union SeenAt(obs, v.key))
  BY ZenonT(30), <1>1, RefreshedRecord
<1>4. \A r \in A : \E i \in FirstSeen(V, obs) :
               /\ i \in 1 .. Len(obs)
               /\ r.key = obs[i].key /\ r.id = w.count + i - 1 /\ r \in Violation
               /\ r = [key |-> r.key, ts |-> r.ts, id |-> r.id]
               /\ r.ts \in Latest(SeenAt(obs, obs[i].key))
  <2> TAKE r \in Added(V, obs, w.count)
  <2> DEFINE c == w.count
  <2>1. c \in Nat
    BY <1>1
  <2> HIDE DEF V, c
  <2>2. QED
    BY ZenonT(40), <2>1, AddedRecord DEF c
<1>5. \A r \in R, s \in R : (r.id = s.id \/ r.key = s.key) => r = s
  <2> TAKE r \in R, s \in R
  <2> HAVE r.id = s.id \/ r.key = s.key
  <2>1. PICK v \in V : /\ r.key = v.key /\ r.id = v.id
                       /\ r = [v EXCEPT !.ts = r.ts]
                       /\ r.ts \in Latest({v.ts} \union SeenAt(obs, v.key))
    BY ZenonT(30), <1>3
  <2>2. PICK u \in V : /\ s.key = u.key /\ s.id = u.id
                       /\ s = [u EXCEPT !.ts = s.ts]
                       /\ s.ts \in Latest({u.ts} \union SeenAt(obs, u.key))
    BY ZenonT(30), <1>3
  <2>3. u = v
    BY <2>1, <2>2 DEF WellFormed
  <2>4. {v.ts} \union SeenAt(obs, v.key) \in SUBSET Nat
    BY ZenonT(30), <1>a, SeenAtTimes, StatusAssumption
  <2>5. r.ts = s.ts
    BY <2>1, <2>2, <2>3, <2>4, LatestUnique
  <2>6. QED
    BY <2>1, <2>2, <2>3, <2>5
<1>6. \A r \in A, s \in A : (r.id = s.id \/ r.key = s.key) => r = s
  <2> TAKE r \in A, s \in A
  <2> HAVE r.id = s.id \/ r.key = s.key
  <2>1. PICK i \in FirstSeen(V, obs) :
               /\ i \in 1 .. Len(obs)
               /\ r.key = obs[i].key /\ r.id = w.count + i - 1
               /\ r = [key |-> r.key, ts |-> r.ts, id |-> r.id]
               /\ r.ts \in Latest(SeenAt(obs, obs[i].key))
    BY <1>4
  <2>2. PICK j \in FirstSeen(V, obs) :
               /\ j \in 1 .. Len(obs)
               /\ s.key = obs[j].key /\ s.id = w.count + j - 1
               /\ s = [key |-> s.key, ts |-> s.ts, id |-> s.id]
               /\ s.ts \in Latest(SeenAt(obs, obs[j].key))
    BY <1>4
  <2>3. i = j
    <3>1. CASE r.id = s.id
      BY <3>1, <2>1, <2>2, <1>1, <1>2
    <3>2. CASE r.key = s.key
      <4>1. \A k \in 1 .. i - 1 : obs[k].key # obs[i].key
        BY DEF FirstSeen
      <4>2. \A k \in 1 .. j - 1 : obs[k].key # obs[j].key
        BY DEF FirstSeen
      <4>3. i \in Nat /\ j \in Nat /\ i >= 1 /\ j >= 1
        BY <2>1, <2>2, <1>2
      <4>4. i \notin 1 .. j - 1 /\ j \notin 1 .. i - 1
        BY ZenonT(30), <4>1, <4>2, <2>1, <2>2, <3>2, ZenonT(30)
      <4>5. QED
        BY <4>3, <4>4
    <3>3. QED
      BY <3>1, <3>2
  <2>4. SeenAt(obs, obs[i].key) \in SUBSET Nat
    BY ZenonT(30), SeenAtTimes, StatusAssumption
  <2>5. r.ts = s.ts
    BY <2>1, <2>2, <2>3, <2>4, LatestUnique
  <2>6. QED
    BY <2>1, <2>2, <2>3, <2>5
<1>7. \A r \in R, s \in A : r.id # s.id /\ r.key # s.key
  <2> TAKE r \in R, s \in A
  <2>1. PICK v \in V : r.key = v.key /\ r.id = v.id
    BY ZenonT(30), <1>3
  <2>2. PICK i \in FirstSeen(V, obs) :
            i \in 1 .. Len(obs) /\ s.key = obs[i].key /\ s.id = w.count + i - 1
    BY <1>4
  <2>3. v.id < w.count
    BY DEF WellFormed
  <2>4. r.id # s.id
    BY <2>1, <2>2, <2>3, <1>1, <1>2, <1>a
  <2>5. r.key # s.key
    BY <2>1, <2>2 DEF FirstSeen, KeysOf
  <2>6. QED
    BY <2>4, <2>5
<1>8. \A r \in R : r.id < w.count + Len(obs) /\ \E v \in V : v.id = r.id /\ v.key = r.key
  <2> TAKE r \in R
  <2>1. PICK v \in V : r.key = v.key /\ r.id = v.id
    BY ZenonT(30), <1>3
  <2>2. v.id < w.count
    BY DEF WellFormed
  <2>3. QED
    BY <2>1, <2>2, <1>1, <1>2, <1>a
<1>9. \A r \in A : r.id < w.count + Len(obs) /\ r.id >= w.count
  <2> TAKE r \in A
  <2>1. PICK i \in 1 .. Len(obs) : r.id = w.count + i - 1
    BY <1>4
  <2>2. QED
    BY <2>1, <1>1, <1>2
<1>10. R \subseteq Violation /\ A \subseteq Violation
  BY ZenonT(30), <1>3, <1>4
<1>11. Merged(w.violations, obs, w.count) = R \union A
  BY DEF Merged
<1> HIDE DEF R, A
<1>12. \A r, s \in R \union A : (r.id = s.id \/ r.key = s.key) => r = s
  BY <1>5, <1>6, <1>7
<1>13. QED
  BY <1>8, <1>9, <1>10, <1>11, <1>12
\* Truncating selects.
LEMMA TruncatedSubset ==
    ASSUME NEW S, NEW age
    PROVE  \A K \in Truncations(S, age) : K \subseteq S
BY DEF Truncations

\* Record r shows the same violation as one of the records in S.
Known(r, S) == \E s \in S : s.id = r.id /\ s.key = r.key

\* What one cycle makes of the policy n from the policy w it has read.
Evolves(w, n, obs) ==
    /\ n \in Policy
    /\ WellFormed(n)
    /\ n.count = w.count + Len(obs)
    /\ n.active = Cardinality(n.violations)
    /\ n.other = w.other
    /\ \A r \in n.violations : Known(r, w.violations) \/ r.id >= w.count
    /\ \A r \in n.acked : Known(r, w.violations) \/ Known(r, w.acked) \/ r.id >= w.count
    /\ \A id \in w.annos \ n.annos : /\ id \notin IdsOf(n.violations)
                                     /\ id < n.count
                                     /\ id \in IdsOf(w.violations) \/ id >= w.count

\* RecomputeStatus keeps the status well formed, issues IDs above all earlier
\* ones only, and acknowledges what was active.
LEMMA RecomputedEvolves ==
    ASSUME NEW w \in Policy, WellFormed(w), NEW obs \in Seq(Observation), NEW t \in Times,
           NEW n \in Recomputed(w, obs, t)
    PROVE  Evolves(w, n, obs)
<1> DEFINE M == Merged(w.violations, obs, w.count)
           Acknowledge(v) == [key |-> v.key, id |-> v.id, at |-> t]
<1>1. PICK kept \in Truncations(M, "ts") :
          \E ackedKept \in Truncations(AckedWith(w, kept, t), "at") :
              n = WithStatus(w, obs, kept, ackedKept)
  BY DEF Recomputed
<1>2. PICK ackedKept \in Truncations(AckedWith(w, kept, t), "at") :
          n = WithStatus(w, obs, kept, ackedKept)
  BY <1>1
<1>3. /\ w.violations \subseteq Violation /\ w.acked \subseteq Acknowledged
      /\ w.count \in Nat /\ w.annos \subseteq Nat /\ w.gen \in Nat /\ Len(obs) \in Nat
  BY DEF Policy
<1>4. /\ n.violations = Uncleared(w, kept) \ Hit(w, kept)
      /\ n.acked = ackedKept
      /\ n.annos = w.annos \ IdsOf(Hit(w, kept))
      /\ n.count = w.count + Len(obs)
      /\ n.active = Cardinality(n.violations)
      /\ n.other = w.other
  BY <1>2 DEF Policy, WithStatus
<1>5. /\ M \subseteq Violation
      /\ \A r, s \in M : r.id = s.id => r = s
      /\ \A r, s \in M : r.key = s.key => r = s
      /\ \A r \in M : r.id < w.count + Len(obs)
      /\ \A r \in M : Known(r, w.violations) \/ r.id >= w.count
  BY MergedRecords DEF Known
<1>6. kept \subseteq M /\ ackedKept \subseteq AckedWith(w, kept, t)
  BY TruncatedSubset
<1> HIDE DEF M
<1>7. \A r \in M : r.id \in Nat
  BY <1>5 DEF Violation
<1>8. Hit(w, kept) \subseteq M /\ n.violations \subseteq M /\ Hit(w, kept) \intersect n.violations = {}
  BY <1>4, <1>6 DEF Uncleared, Hit
<1>9. \A v \in M : /\ Acknowledge(v).id = v.id /\ Acknowledge(v).key = v.key
                  /\ Acknowledge(v) \in Acknowledged
  BY <1>5 DEF Violation, Acknowledged
<1>10. \A a \in ackedKept : a \in w.acked \/ \E v \in Hit(w, kept) : a = Acknowledge(v)
  BY <1>6 DEF AckedWith
<1> HIDE DEF Acknowledge
<1>11. ackedKept \subseteq Acknowledged
  BY <1>3, <1>8, <1>9, <1>10
<1>12. \A a \in w.acked, r \in M : a.id # r.id
  <2> TAKE a \in w.acked, r \in M
  <2>1. CASE Known(r, w.violations)
    BY <2>1 DEF Known, WellFormed
  <2>2. CASE r.id >= w.count
    <3>1. a.id < w.count /\ a.id \in Nat
      BY <1>3 DEF WellFormed, Acknowledged
    <3>2. QED
      BY <3>1, <2>2, <1>3, <1>7
  <2>3. QED
    BY <2>1, <2>2, <1>5
<1>13. WellFormed(n)
  <2>1. \A v1, v2 \in n.violations : v1.id = v2.id => v1 = v2
    BY <1>5, <1>8
  <2>2. \A v1, v2 \in n.violations : v1.key = v2.key => v1 = v2
    BY <1>5, <1>8
  <2>3. \A a1, a2 \in n.acked : a1.id = a2.id => a1 = a2
    <3> TAKE a1, a2 \in n.acked
    <3> HAVE a1.id = a2.id
    <3>1. CASE a1 \in w.acked /\ a2 \in w.acked
      BY <3>1 DEF WellFormed
    <3>2. CASE a1 \in w.acked /\ \E v \in Hit(w, kept) : a2 = Acknowledge(v)
      BY <3>2, <1>8, <1>9, <1>12
    <3>3. CASE a2 \in w.acked /\ \E v \in Hit(w, kept) : a1 = Acknowledge(v)
      BY <3>3, <1>8, <1>9, <1>12
    <3>4. CASE (\E v \in Hit(w, kept) : a1 = Acknowledge(v)) /\ (\E v \in Hit(w, kept) : a2 = Acknowledge(v))
      BY <3>4, <1>5, <1>8, <1>9
    <3>5. QED
      BY <3>1, <3>2, <3>3, <3>4, <1>4, <1>10
  <2>4. \A v \in n.violations, a \in n.acked : v.id # a.id
    <3> TAKE v \in n.violations, a \in n.acked
    <3>1. CASE a \in w.acked
      BY <3>1, <1>8, <1>12
    <3>2. CASE \E u \in Hit(w, kept) : a = Acknowledge(u)
      BY <3>2, <1>5, <1>8, <1>9
    <3>3. QED
      BY <3>1, <3>2, <1>4, <1>10
  <2>5. \A v \in n.violations : v.id < n.count
    BY <1>4, <1>5, <1>8
  <2>6. \A a \in n.acked : a.id < n.count
    <3> TAKE a \in n.acked
    <3>1. CASE a \in w.acked
      <4>1. a.id < w.count /\ a.id \in Nat
        BY <3>1, <1>3 DEF WellFormed, Acknowledged
      <4>2. QED
        BY SMTT(40), <4>1, <1>3, <1>4
    <3>2. CASE \E u \in Hit(w, kept) : a = Acknowledge(u)
      BY <3>2, <1>4, <1>5, <1>8, <1>9
    <3>3. QED
      BY <3>1, <3>2, <1>4, <1>10
  <2>7. QED
    BY <2>1, <2>2, <2>3, <2>4, <2>5, <2>6 DEF WellFormed
<1>14. n \in Policy
  <2>1. n.violations \in SUBSET Violation /\ n.annos \in SUBSET Nat /\ n.count \in Nat
    BY <1>3, <1>4, <1>5, <1>8
  <2>2. \A r \in n.violations : r.id \in Nat
    BY <1>7, <1>8
  <2>3. Cardinality(n.violations) \in Nat
    BY ZenonT(30), <2>1, <2>2, <1>13, FiniteByID DEF WellFormed
  <2>4. QED
    BY ZenonT(30), <1>2, <1>3, <1>4, <1>11, <2>1, <2>3 DEF Policy, WithStatus
<1>15. \A r \in n.violations : Known(r, w.violations) \/ r.id >= w.count
  BY <1>5, <1>8
<1>16. \A r \in n.acked : Known(r, w.violations) \/ Known(r, w.acked) \/ r.id >= w.count
  <2> TAKE r \in n.acked
  <2>1. CASE r \in w.acked
    BY <2>1 DEF Known
  <2>2. CASE \E v \in Hit(w, kept) : r = Acknowledge(v)
    BY <2>2, <1>5, <1>8, <1>9 DEF Known
  <2>3. QED
    BY <2>1, <2>2, <1>4, <1>10
<1>17. ASSUME NEW id \in w.annos \ n.annos
       PROVE  /\ id \notin IdsOf(n.violations)
              /\ id < n.count
              /\ id \in IdsOf(w.violations) \/ id >= w.count
  <2>1. PICK v \in Hit(w, kept) : id = v.id
    BY <1>4 DEF IdsOf
  <2>2. id \notin IdsOf(n.violations)
    BY <2>1, <1>5, <1>8 DEF IdsOf
  <2>3. id < n.count
    BY <2>1, <1>4, <1>5, <1>8
  <2>4. id \in IdsOf(w.violations) \/ id >= w.count
    BY <2>1, <1>5, <1>8 DEF IdsOf, Known
  <2>5. QED
    BY <2>2, <2>3, <2>4
<1>18. QED
  BY ZenonT(30), <1>4, <1>13, <1>14, <1>15, <1>16, <1>17 DEF Evolves
---------------------------------------------------------------------------
(* The protocol *)

SameStatus(p, q) ==
    /\ p.violations = q.violations
    /\ p.acked = q.acked
    /\ p.count = q.count
    /\ p.active = q.active
    /\ p.obsGen = q.obsGen

\* Whether records are consistent depends on the status only.
LEMMA WellFormedStatus ==
    ASSUME NEW p, NEW q, SameStatus(p, q), WellFormed(q)
    PROVE  WellFormed(p)
  BY DEF WellFormed, SameStatus

\* What has been shown or acknowledged so far is consistent with the status.
HistoryInv ==
    /\ StableIDs
    /\ \A p \in issued : p.id < api.count
    /\ \A p \in issued, r \in api.violations : r.id = p.id => r.key = p.key
    /\ \A p \in issued, r \in api.acked : r.id = p.id => r.key = p.key
    /\ \A id \in final : id < api.count
    /\ AcknowledgedIsFinal

\* The cycle in progress works on the status the server still has.
CycleInv ==
    /\ seen => SameStatus(cache, api)
    /\ pc = "status" => SameStatus(base, api) /\ Evolves(base, new, drained)

LogInv ==
    /\ emitted \subseteq final
    /\ LoggedOnceWhenWritten
    /\ pc = "annotations" => NewlyAcknowledged(base, new) \subseteq final

IInv ==
    /\ TypeOK
    /\ WellFormed(api)
    /\ ActiveCountExact
    /\ HistoryInv
    /\ CycleInv
    /\ LogInv
    /\ Len(log) <= BufferSize
    /\ CountedOnce

\* The invariant holds when the policy has just been created.
LEMMA InitIInv == Init => IInv
<1> SUFFICES ASSUME Init PROVE IInv
  OBVIOUS
<1>1. TypeOK
  <2>1. Fresh \in Policy
    BY SyncAssumption DEF Policy, Fresh
  <2>2. api \in Policy /\ cache \in Policy /\ base \in Policy /\ new \in Policy
    BY <2>1 DEF Init
  <2>3. log = << >> /\ drained = << >> /\ dropped = FALSE
    BY DEF Init, Buffer!Init
  <2>4. log \in Seq(Observation) /\ drained \in Seq(Observation)
    BY <2>3
  <2>5. seen \in BOOLEAN /\ dropped \in BOOLEAN
    BY ZenonT(30), <2>3 DEF Init
  <2>6. QED
    BY <2>2, <2>4, <2>5 DEF TypeOK, Init
<1> USE DEF Init, Fresh, Buffer!Init
<1>2. WellFormed(api)
  BY DEF WellFormed
<1>3. ActiveCountExact
  BY FS_EmptySet DEF ActiveCountExact
<1>4. HistoryInv
  BY DEF HistoryInv, StableIDs, AcknowledgedIsFinal
<1>5. CycleInv
  BY DEF CycleInv, SameStatus
<1>6. LogInv
  BY DEF LogInv, LoggedOnceWhenWritten
<1>7. Len(log) <= BufferSize /\ CountedOnce
  BY SyncAssumption DEF CountedOnce
<1>8. QED
  BY <1>1, <1>2, <1>3, <1>4, <1>5, <1>6, <1>7 DEF IInv

\* Recording an observation lengthens the buffer or overwrites.
LEMMA RecordedLength ==
    ASSUME NEW s \in Seq(Observation), NEW o \in Observation, Len(s) <= BufferSize
    PROVE  /\ Buffer!Newest(o, s) \in Seq(Observation)
           /\ Len(Buffer!Newest(o, s)) = IF Len(s) = BufferSize THEN BufferSize ELSE Len(s) + 1
<1> DEFINE m == IF Len(s) < BufferSize THEN Len(s) + 1 ELSE BufferSize
<1>1. m \in Nat /\ m - 1 <= Len(s)
  BY SyncAssumption
<1>2. \A i \in 1 .. m : (IF i = 1 THEN o ELSE s[i - 1]) \in Observation
  BY <1>1
<1>3. Buffer!Newest(o, s) = [i \in 1 .. m |-> IF i = 1 THEN o ELSE s[i - 1]]
  BY DEF Buffer!Newest
<1>4. Buffer!Newest(o, s) \in Seq(Observation) /\ Len(Buffer!Newest(o, s)) = m
  <2> HIDE DEF m
  <2>1. QED
    BY <1>1, <1>2, <1>3
<1>5. QED
  BY <1>4, SyncAssumption

\* The environment disturbs neither the status on the server nor the cycle.
LEMMA EnvironmentIInv ==
    ASSUME IInv, Environment
    PROVE  IInv'
<1> USE DEF IInv
<1>1. ASSUME NEW k \in Keys, NEW t \in Times, Observe(k, t)
      PROVE  IInv'
  <2> USE <1>1 DEF Observe
  <2>1. [key |-> k, ts |-> t] \in Observation
    BY DEF Observation
  <2>2. log' = Buffer!Newest([key |-> k, ts |-> t], log) /\ dropped' = (Len(log) = BufferSize) /\ drained' = drained
    BY DEF Buffer!Record
  <2>3. log' \in Seq(Observation) /\ Len(log') = IF Len(log) = BufferSize THEN BufferSize ELSE Len(log) + 1
    BY <2>1, <2>2, RecordedLength DEF TypeOK
  <2>4. recorded \in Nat /\ lost \in Nat /\ Len(log) \in Nat
    BY DEF TypeOK
  <2>5. TypeOK'
    BY <2>2, <2>3, <2>4 DEF TypeOK
  <2>6. CountedOnce'
    <3>1. api.count \in Nat /\ Len(drained) \in Nat
      BY DEF TypeOK, Policy
    <3>2. lost' = IF Len(log) = BufferSize THEN lost + 1 ELSE lost
      BY ZenonT(30), <2>2
    <3> DEFINE x == IF pc = "status" THEN Len(drained) ELSE 0
    <3>3. x \in Nat /\ x' = x
      BY <2>2, <3>1
    <3>4. recorded = api.count + Len(log) + lost + x
      BY DEF CountedOnce
    <3> HIDE DEF x
    <3>5. recorded' = api'.count + Len(log') + lost' + x'
      <4>1. recorded' = recorded + 1 /\ api' = api
        OBVIOUS
      <4>2. Len(log') + lost' = Len(log) + lost + 1
        BY SMTT(30), <2>3, <2>4, <3>2
      <4>3. Len(log') \in Nat /\ lost' \in Nat
        BY <2>3, <2>4, <3>2, SyncAssumption
      <4>4. recorded + 1 = api.count + (Len(log) + lost + 1) + x
        BY SMTT(40), <2>4, <3>1, <3>3, <3>4
      <4>5. api.count + (Len(log') + lost') + x = api.count + Len(log') + lost' + x
        BY <3>1, <3>3, <4>3
      <4> HIDE <1>1 DEF IInv, Observe
      <4>6. QED
        BY <3>3, <4>1, <4>2, <4>4, <4>5
    <3>6. QED
      BY <3>5 DEF CountedOnce, x
  <2>7. Len(log') <= BufferSize
    BY <2>3, <2>4, SyncAssumption
  <2>8. HistoryInv' /\ LogInv' /\ CycleInv'
    BY <2>2 DEF HistoryInv, LogInv, CycleInv, StableIDs, AcknowledgedIsFinal, LoggedOnceWhenWritten
  <2>9. QED
    BY <2>5, <2>6, <2>7, <2>8 DEF ActiveCountExact
<1>2. ASSUME NEW p, p \in Policy, SameStatus(p, api), api' = p,
             UNCHANGED <<cache, seen, buffer, now, pc, base, new, emitted, faults, history>>,
             edits' \in Nat
      PROVE  IInv'
  <2> USE <1>2 DEF SameStatus, buffer, history
  <2>1. TypeOK'
    BY DEF TypeOK
  <2>2. WellFormed(api)' /\ ActiveCountExact'
    BY DEF WellFormed, ActiveCountExact
  <2>3. HistoryInv'
    BY DEF HistoryInv, StableIDs, AcknowledgedIsFinal
  <2>4. CycleInv'
    BY DEF CycleInv
  <2>5. LogInv'
    BY DEF LogInv, LoggedOnceWhenWritten
  <2>6. CountedOnce'
    BY DEF CountedOnce
  <2>7. QED
    BY <2>1, <2>2, <2>3, <2>4, <2>5, <2>6
<1>3. ASSUME NEW A \in SUBSET Keys, EditTemplate(A)
      PROVE  IInv'
  <2>a. api \in Policy
    BY DEF TypeOK
  <2>b. api.gen \in Nat
    BY <2>a DEF Policy
  <2>0. api.gen + 1 \in Nat
    BY <2>b
  <2>1. [api EXCEPT !.allowed = A, !.gen = @ + 1] \in Policy
    BY ZenonT(30), <2>0, <2>a DEF Policy
  <2>2. SameStatus([api EXCEPT !.allowed = A, !.gen = @ + 1], api)
    BY DEF TypeOK, Policy, SameStatus
  <2>3. edits + 1 \in Nat
    BY DEF TypeOK
  <2>4. QED
    BY <1>2, <1>3, <2>1, <2>2, <2>3 DEF EditTemplate
<1>4. ASSUME NEW id \in Ids, Annotate(id)
      PROVE  IInv'
  <2>0. id \in Nat
    BY DEF Ids
  <2>1. [api EXCEPT !.annos = @ \union {id}] \in Policy
    BY ZenonT(30), <2>0 DEF TypeOK, Policy
  <2>2. SameStatus([api EXCEPT !.annos = @ \union {id}], api)
    BY DEF TypeOK, Policy, SameStatus
  <2>3. edits + 1 \in Nat
    BY DEF TypeOK
  <2>4. QED
    BY ZenonT(30), <1>2, <1>4, <2>1, <2>2, <2>3 DEF Annotate
<1>5. CASE Tick
  <2> USE <1>5 DEF Tick, buffer, history
  <2>1. TypeOK'
    BY DEF TypeOK
  <2>2. HistoryInv' /\ LogInv' /\ CycleInv'
    BY DEF HistoryInv, LogInv, CycleInv, StableIDs, AcknowledgedIsFinal, LoggedOnceWhenWritten
  <2>3. QED
    BY <2>1, <2>2 DEF ActiveCountExact, CountedOnce
<1>6. CASE Deliver
  <2> USE <1>6 DEF Deliver, buffer, history
  <2>1. TypeOK'
    BY DEF TypeOK
  <2>2. HistoryInv' /\ LogInv'
    BY DEF HistoryInv, LogInv, StableIDs, AcknowledgedIsFinal, LoggedOnceWhenWritten
  <2>3. CycleInv'
    BY DEF CycleInv, SameStatus
  <2>4. QED
    BY <2>1, <2>2, <2>3 DEF ActiveCountExact, CountedOnce
<1>7. QED
  BY <1>1, <1>3, <1>4, <1>5, <1>6 DEF Environment
\* A cycle that starts with a fresh cache has read the status the server has.
LEMMA SyncIInv ==
    ASSUME IInv, FreshReads, Sync
    PROVE  IInv'
<1> USE DEF Sync, buffer, history
<1>1. /\ TypeOK /\ WellFormed(api) /\ ActiveCountExact /\ HistoryInv
      /\ CycleInv /\ LogInv /\ CountedOnce
  BY DEF IInv
<1>2. /\ drained' = log /\ log' = << >> /\ dropped' = dropped
      /\ pc = "idle" /\ pc' = "status" /\ seen /\ base' = cache
  BY DEF Buffer!Drain
<1>3. cache \in Policy /\ log \in Seq(Observation) /\ now \in Times
  BY <1>1 DEF TypeOK
<1>4. SameStatus(cache, api)
  BY <1>1, <1>2 DEF CycleInv
<1>5. WellFormed(cache)
  BY <1>1, <1>4 DEF WellFormed, SameStatus
<1>6. Evolves(cache, new', log)
  BY <1>3, <1>5, RecomputedEvolves
<1>7. TypeOK'
  <2>1. new' \in Policy
    BY <1>6 DEF Evolves
  <2>2. QED
    BY <1>1, <1>2, <1>3, <2>1 DEF TypeOK
<1>8. WellFormed(api)' /\ ActiveCountExact' /\ HistoryInv'
  BY <1>1 DEF ActiveCountExact, HistoryInv, StableIDs, AcknowledgedIsFinal
<1>9. CycleInv'
  <2>1. SameStatus(cache, api)' /\ SameStatus(base, api)'
    BY <1>2, <1>4 DEF SameStatus
  <2>2. Evolves(base, new, drained)'
    BY <1>2, <1>6 DEF Evolves
  <2>3. QED
    BY <2>1, <2>2 DEF CycleInv
<1>10. LogInv'
  BY <1>1, <1>2 DEF LogInv, LoggedOnceWhenWritten
<1>11. Len(log') <= BufferSize
  BY <1>2, SyncAssumption
<1>12. CountedOnce'
  <2>1. Len(log') = 0 /\ Len(log) \in Nat /\ api.count \in Nat /\ lost \in Nat
    <3>1. api \in Policy /\ log \in Seq(Observation) /\ lost \in Nat
      BY <1>1 DEF TypeOK
    <3>2. api.count \in Nat
      BY <3>1 DEF Policy
    <3>3. Len(log) \in Nat /\ Len(log') = 0
      BY <3>1, <1>2
    <3>4. QED
      BY <3>1, <3>2, <3>3
  <2>2. recorded = api.count + Len(log) + lost + 0
    BY <1>1, <1>2 DEF CountedOnce
  <2>3. recorded' = api'.count + 0 + lost' + Len(drained')
    BY <1>2, <2>1, <2>2
  <2>4. QED
    BY <1>2, <2>1, <2>3 DEF CountedOnce
<1>13. QED
  BY <1>7, <1>8, <1>9, <1>10, <1>11, <1>12 DEF IInv

\* Applying the patch to the very status it was computed from installs the
\* new one, so all of its fields agree.
LEMMA PatchedStatus ==
    ASSUME api \in Policy, base \in Policy, new \in Policy, SameStatus(base, api)
    PROVE  StatusPatched \in Policy /\ SameStatus(StatusPatched, new)
<1>1. /\ api.violations = base.violations /\ api.acked = base.acked
      /\ api.count = base.count /\ api.active = base.active /\ api.obsGen = base.obsGen
  BY DEF SameStatus
<1>2. StatusPatched = [api EXCEPT !.violations = new.violations, !.acked = new.acked,
                                  !.count = new.count, !.active = new.active,
                                  !.obsGen = new.obsGen]
  BY ZenonT(30), <1>1 DEF StatusPatched
<1> HIDE DEF StatusPatched
<1>3. QED
  BY ZenonT(30), <1>2 DEF Policy, SameStatus

\* The status patch installs what the cycle computed.
LEMMA ApplyIInv ==
    ASSUME IInv, pc = "status", ApplyStatusPatch
    PROVE  /\ api' \in Policy /\ WellFormed(api)' /\ ActiveCountExact' /\ HistoryInv'
           /\ api'.count = api.count + Len(drained)
           /\ seen' \in BOOLEAN
           /\ issued' \subseteq [id : Nat, key : Keys]
           /\ final' \subseteq Nat
           /\ final' = final \union NewlyAcknowledged(base, new)
           /\ NewlyAcknowledged(base, new) \intersect final = {}
           /\ seen' => seen /\ api' = api
<1>1. /\ TypeOK /\ HistoryInv /\ SameStatus(base, api) /\ Evolves(base, new, drained)
  BY DEF IInv, CycleInv
<1>2. api \in Policy /\ base \in Policy /\ new \in Policy
  BY <1>1 DEF TypeOK
<1>3. api' \in Policy /\ SameStatus(api', new)
  BY <1>1, <1>2, PatchedStatus DEF ApplyStatusPatch
<1>4. /\ api'.violations = new.violations /\ api'.acked = new.acked /\ api'.count = new.count
      /\ api'.active = new.active
  BY <1>3 DEF SameStatus
<1>5. /\ api.violations = base.violations /\ api.acked = base.acked /\ api.count = base.count
  BY <1>1 DEF SameStatus
<1>6. WellFormed(api)'
  <2>1. WellFormed(new)
    BY <1>1 DEF Evolves
  <2>2. QED
    BY <1>4, <2>1 DEF WellFormed
<1>7. ActiveCountExact'
  BY <1>1, <1>4 DEF ActiveCountExact, Evolves
<1>8. api'.count = api.count + Len(drained) /\ api.count \in Nat /\ Len(drained) \in Nat
  <2>1. api \in Policy /\ drained \in Seq(Observation)
    BY <1>1 DEF TypeOK
  <2>2. api.count \in Nat
    BY <2>1 DEF Policy
  <2>3. Len(drained) \in Nat
    BY <2>1
  <2>4. new.count = base.count + Len(drained)
    BY <1>1 DEF Evolves
  <2>5. QED
    BY <2>2, <2>3, <2>4, <1>4, <1>5
<1>9. /\ final' = final \union NewlyAcknowledged(base, new)
      /\ issued' = issued \union {[id |-> v.id, key |-> v.key] : v \in api'.violations \union api'.acked}
  BY DEF ApplyStatusPatch
<1>10. final \subseteq Nat /\ issued \subseteq [id : Nat, key : Keys] /\ base.annos \subseteq Nat
  BY ZenonT(30), <1>1, <1>2 DEF TypeOK, Policy
<1>11. final' \subseteq Nat
  BY ZenonT(30), <1>9, <1>10 DEF NewlyAcknowledged
<1>12. \A r \in api'.violations \union api'.acked : r.id \in Nat /\ r.key \in Keys
  BY <1>3 DEF Policy, Violation, Acknowledged
<1>13. issued' \subseteq [id : Nat, key : Keys]
  BY <1>9, <1>10, <1>12
<1>14. \A id \in final : id < api.count /\ id \notin IdsOf(api.violations)
  BY <1>1 DEF HistoryInv, AcknowledgedIsFinal
<1>15. \A id \in NewlyAcknowledged(base, new) :
            /\ id \notin IdsOf(api'.violations) /\ id < api'.count
            /\ id \in IdsOf(api.violations) \/ id >= api.count
  BY <1>1, <1>4, <1>5 DEF Evolves, NewlyAcknowledged
<1>16. NewlyAcknowledged(base, new) \intersect final = {}
  <2> SUFFICES ASSUME NEW id \in NewlyAcknowledged(base, new), id \in final PROVE FALSE
    OBVIOUS
  <2>1. id < api.count /\ id >= api.count /\ id \in Nat
    BY <1>10, <1>14, <1>15
  <2>2. QED
    BY <2>1, <1>8
<1>17. \A id \in final' : id < api'.count
  <2> TAKE id \in final'
  <2>1. CASE id \in final
    BY <2>1, <1>8, <1>10, <1>14
  <2>2. CASE id \in NewlyAcknowledged(base, new)
    BY <2>2, <1>15
  <2>3. QED
    BY <2>1, <2>2, <1>9
<1>18. AcknowledgedIsFinal'
  <2> SUFFICES ASSUME NEW r \in api'.violations, r.id \in final' PROVE FALSE
    BY DEF AcknowledgedIsFinal, IdsOf
  <2>1. r.id \notin NewlyAcknowledged(base, new)
    BY <1>15 DEF IdsOf
  <2>2. r.id \in final
    BY <2>1, <1>9
  <2>3. Known(r, api.violations) \/ r.id >= api.count
    BY <1>1, <1>4, <1>5 DEF Evolves
  <2>4. ~ Known(r, api.violations)
    BY <2>2, <1>14 DEF Known, IdsOf
  <2>5. r.id < api.count /\ r.id \in Nat
    BY ZenonT(30), <2>2, <1>10, <1>14
  <2>6. QED
    BY <2>3, <2>4, <2>5, <1>8
<1>19. \A p \in issued, r \in api'.violations \union api'.acked : r.id = p.id => r.key = p.key
  <2> TAKE p \in issued, r \in api'.violations \union api'.acked
  <2> HAVE r.id = p.id
  <2>1. Known(r, api.violations) \/ Known(r, api.acked) \/ r.id >= api.count
    BY <1>1, <1>4, <1>5 DEF Evolves
  <2>2. p.id < api.count /\ p.id \in Nat
    BY <1>1, <1>10 DEF HistoryInv
  <2>3. ~ (r.id >= api.count)
    BY <2>2, <1>8
  <2>4. CASE Known(r, api.violations)
    BY <2>4, <1>1 DEF Known, HistoryInv
  <2>5. CASE Known(r, api.acked)
    BY <2>5, <1>1 DEF Known, HistoryInv
  <2>6. QED
    BY <2>1, <2>3, <2>4, <2>5
<1>20. \A r, q \in api'.violations \union api'.acked : r.id = q.id => r.key = q.key
  BY <1>6 DEF WellFormed
<1>21. \A p \in issued' : p \in issued \/ \E r \in api'.violations \union api'.acked : p = [id |-> r.id, key |-> r.key]
  BY <1>9
<1>22. \A p \in issued', r \in api'.violations \union api'.acked : r.id = p.id => r.key = p.key
  <2> TAKE p \in issued', r \in api'.violations \union api'.acked
  <2> HAVE r.id = p.id
  <2>1. CASE p \in issued
    BY <2>1, <1>19
  <2>2. CASE \E q \in api'.violations \union api'.acked : p = [id |-> q.id, key |-> q.key]
    <3>1. PICK q \in api'.violations \union api'.acked : p = [id |-> q.id, key |-> q.key]
      BY <2>2
    <3>2. p.id = q.id /\ p.key = q.key
      BY <3>1
    <3>3. QED
      BY <3>2, <1>20
  <2>3. QED
    BY <2>1, <2>2, <1>21
<1>23. StableIDs'
  <2> SUFFICES ASSUME NEW p \in issued', NEW q \in issued', p.id = q.id PROVE p = q
    BY DEF StableIDs
  <2>1. CASE p \in issued /\ q \in issued
    BY <2>1, <1>1 DEF HistoryInv, StableIDs
  <2>2. CASE \E r \in api'.violations \union api'.acked : p = [id |-> r.id, key |-> r.key]
    <3>1. PICK r \in api'.violations \union api'.acked : p = [id |-> r.id, key |-> r.key]
      BY <2>2
    <3>2. q.key = r.key /\ q \in [id : Nat, key : Keys]
      BY <3>1, <1>13, <1>22
    <3>3. QED
      BY <3>1, <3>2
  <2>3. CASE \E r \in api'.violations \union api'.acked : q = [id |-> r.id, key |-> r.key]
    <3>1. PICK r \in api'.violations \union api'.acked : q = [id |-> r.id, key |-> r.key]
      BY <2>3
    <3>2. p.key = r.key /\ p \in [id : Nat, key : Keys]
      BY <3>1, <1>13, <1>22
    <3>3. QED
      BY <3>1, <3>2
  <2>4. QED
    BY <2>1, <2>2, <2>3, <1>21
<1>24. \A p \in issued' : p.id < api'.count
  <2> TAKE p \in issued'
  <2>1. CASE p \in issued
    BY SMTT(40), <2>1, <1>1, <1>8, <1>10 DEF HistoryInv
  <2>2. CASE \E r \in api'.violations \union api'.acked : p = [id |-> r.id, key |-> r.key]
    BY SMTT(40), <2>2, <1>6 DEF WellFormed
  <2>3. QED
    BY <2>1, <2>2, <1>21
<1>25. HistoryInv'
  BY <1>17, <1>18, <1>22, <1>23, <1>24 DEF HistoryInv
<1>26. seen' \in BOOLEAN /\ (seen' => seen /\ api' = api)
  BY ZenonT(30), <1>1 DEF ApplyStatusPatch, TypeOK
<1>27. QED
  BY <1>3, <1>6, <1>7, <1>8, <1>9, <1>11, <1>13, <1>16, <1>25, <1>26
\* Every step of the synchroniser keeps the invariant.
LEMMA SynchroniserIInv ==
    ASSUME IInv, FreshReads, Synchroniser
    PROVE  IInv'
<1>0. /\ TypeOK /\ WellFormed(api) /\ ActiveCountExact /\ HistoryInv
      /\ CycleInv /\ LogInv /\ CountedOnce /\ Len(log) <= BufferSize
  BY DEF IInv
<1>a. /\ api.count \in Nat /\ Len(drained) \in Nat /\ Len(log) \in Nat
      /\ lost \in Nat /\ recorded \in Nat /\ faults \in Nat
  <2>1. /\ api \in Policy /\ drained \in Seq(Observation) /\ log \in Seq(Observation)
        /\ lost \in Nat /\ recorded \in Nat /\ faults \in Nat
    BY <1>0 DEF TypeOK
  <2>2. api.count \in Nat
    BY <2>1 DEF Policy
  <2>3. Len(drained) \in Nat /\ Len(log) \in Nat
    BY <2>1
  <2>4. QED
    BY <2>1, <2>2, <2>3
<1>1. CASE Sync
  BY <1>1, SyncIInv
<1>2. ASSUME pc = "status", ApplyStatusPatch, pc' \in {"idle", "emit"}, faults' \in Nat,
             UNCHANGED <<cache, buffer, now, base, new, emitted, edits, recorded, lost>>
      PROVE  IInv'
  <2> USE <1>2 DEF buffer
  <2>1. /\ api' \in Policy /\ WellFormed(api)' /\ ActiveCountExact' /\ HistoryInv'
        /\ api'.count = api.count + Len(drained)
        /\ seen' \in BOOLEAN
        /\ issued' \subseteq [id : Nat, key : Keys]
        /\ final' \subseteq Nat
        /\ final' = final \union NewlyAcknowledged(base, new)
        /\ NewlyAcknowledged(base, new) \intersect final = {}
        /\ seen' => seen /\ api' = api
    BY ApplyIInv
  <2>2. TypeOK'
    BY <1>0, <2>1 DEF TypeOK
  <2>3. CycleInv'
    BY <1>0, <2>1 DEF CycleInv, SameStatus
  <2>4. LogInv'
    <3>1. emitted \subseteq final
      BY <1>0 DEF LogInv
    <3>2. NewlyAcknowledged(base, new)' = NewlyAcknowledged(base, new)
      BY DEF NewlyAcknowledged
    <3>3. LoggedOnceWhenWritten'
      BY <2>1, <3>1, <3>2 DEF LoggedOnceWhenWritten
    <3>4. QED
      BY <2>1, <3>1, <3>3 DEF LogInv
  <2>5. CountedOnce'
    <3>1. recorded = api.count + Len(log) + lost + Len(drained)
      BY <1>0 DEF CountedOnce
    <3>2. recorded' = api'.count + Len(log') + lost' + 0
      BY SMTT(30), <1>a, <2>1, <3>1
    <3>3. QED
      BY <3>2 DEF CountedOnce
  <2>6. QED
    BY <1>0, <2>1, <2>2, <2>3, <2>4, <2>5 DEF IInv
<1>3. CASE PatchStatus
  BY <1>2, <1>3, <1>a DEF PatchStatus
<1>4. CASE PatchStatusNoAnswer
  <2>1. faults + 1 \in Nat
    BY <1>a
  <2>2. QED
    BY <1>2, <1>4, <2>1 DEF PatchStatusNoAnswer
<1>5. CASE PatchStatusError
  <2> USE <1>5 DEF PatchStatusError, buffer
  <2>1. TypeOK'
    BY <1>0, <1>a DEF TypeOK
  <2>2. CycleInv' /\ HistoryInv'
    BY <1>0 DEF CycleInv, SameStatus, HistoryInv, StableIDs, AcknowledgedIsFinal
  <2>3. LogInv'
    BY <1>0 DEF LogInv, LoggedOnceWhenWritten
  <2>4. CountedOnce'
    <3>1. recorded = api.count + Len(log) + lost + Len(drained)
      BY <1>0 DEF CountedOnce
    <3>2. recorded' = api'.count + Len(log') + lost' + 0
      BY <1>a, <3>1
    <3>3. QED
      BY <3>2 DEF CountedOnce
  <2>5. QED
    BY <1>0, <2>1, <2>2, <2>3, <2>4 DEF IInv, ActiveCountExact
<1>6. CASE Emit
  <2> USE <1>6 DEF Emit, buffer, history
  <2>1. NewlyAcknowledged(base, new) \subseteq final
    BY <1>0 DEF LogInv, LoggedOnceWhenWritten
  <2>2. NewlyAcknowledged(base, new)' = NewlyAcknowledged(base, new)
    BY DEF NewlyAcknowledged
  <2>3. LogInv'
    BY <1>0, <2>1, <2>2 DEF LogInv, LoggedOnceWhenWritten
  <2>4. TypeOK'
    BY ZenonT(30), <1>0, <2>1 DEF TypeOK
  <2>5. CycleInv' /\ HistoryInv'
    BY <1>0 DEF CycleInv, SameStatus, HistoryInv, StableIDs, AcknowledgedIsFinal
  <2>6. CountedOnce'
    BY <1>0 DEF CountedOnce
  <2>7. QED
    BY <1>0, <2>3, <2>4, <2>5, <2>6 DEF IInv, ActiveCountExact
<1>7. CASE PatchAnnotations
  <2> USE <1>7 DEF PatchAnnotations, buffer, history
  <2>1. api' \in Policy /\ SameStatus(api', api)
    <3>1. api \in Policy
      BY <1>0 DEF TypeOK
    <3>2. QED
      BY ZenonT(30), <3>1 DEF AnnotationsPatched, Policy, SameStatus
  <2>2. TypeOK'
    BY <1>0, <2>1 DEF TypeOK
  <2>3. WellFormed(api)' /\ ActiveCountExact'
    <3>1. WellFormed(api')
      <4> HIDE <1>7 DEF PatchAnnotations
      <4>1. QED
        BY <1>0, <2>1, WellFormedStatus
    <3>2. WellFormed(api)'
      <4> HIDE <1>7 DEF PatchAnnotations
      <4>1. QED
        BY <3>1 DEF WellFormed
    <3>3. ActiveCountExact'
      <4> HIDE <1>7 DEF PatchAnnotations
      <4>1. QED
        BY <1>0, <2>1 DEF ActiveCountExact, SameStatus
    <3>4. QED
      BY <3>2, <3>3
  <2>4. HistoryInv'
    BY <1>0, <2>1 DEF SameStatus, HistoryInv, StableIDs, AcknowledgedIsFinal
  <2>5. CycleInv'
    BY <1>0, <2>1 DEF CycleInv, SameStatus
  <2>6. LogInv'
    BY <1>0 DEF LogInv, LoggedOnceWhenWritten
  <2>7. CountedOnce'
    BY <1>0, <2>1 DEF CountedOnce, SameStatus
  <2>8. QED
    BY <1>0, <2>2, <2>3, <2>4, <2>5, <2>6, <2>7 DEF IInv
<1>8. CASE PatchAnnotationsError
  <2> USE <1>8 DEF PatchAnnotationsError, buffer, history
  <2>1. TypeOK'
    BY SMTT(40), <1>0, <1>a DEF TypeOK
  <2>2. CycleInv' /\ HistoryInv'
    BY <1>0 DEF CycleInv, SameStatus, HistoryInv, StableIDs, AcknowledgedIsFinal
  <2>3. LogInv' /\ CountedOnce'
    BY <1>0 DEF LogInv, LoggedOnceWhenWritten, CountedOnce
  <2>4. QED
    BY <1>0, <2>1, <2>2, <2>3 DEF IInv, ActiveCountExact
<1>9. CASE Crash
  <2> USE <1>9 DEF Crash
  <2>1. TypeOK'
    <3> DEFINE y == IF pc = "status" THEN Len(drained) ELSE 0
    <3>a. y \in Nat
      BY <1>a
    <3>b. lost' = lost + Len(log) + y /\ faults' = faults + 1
      OBVIOUS
    <3>1. lost' \in Nat /\ faults' \in Nat
      <4> HIDE <1>9 DEF y, Crash
      <4>1. QED
        BY <1>a, <3>a, <3>b
    <3>2. log' \in Seq(Observation) /\ drained' \in Seq(Observation) /\ seen' \in BOOLEAN
      OBVIOUS
    <3>3. QED
      BY ZenonT(30), <1>0, <3>1, <3>2 DEF TypeOK
  <2>2. CycleInv' /\ HistoryInv'
    BY ZenonT(30), <1>0 DEF CycleInv, SameStatus, HistoryInv, StableIDs, AcknowledgedIsFinal
  <2>3. LogInv'
    BY <1>0 DEF LogInv, LoggedOnceWhenWritten
  <2>4. CountedOnce'
    <3> DEFINE x == IF pc = "status" THEN Len(drained) ELSE 0
    <3>1. recorded = api.count + Len(log) + lost + x
      BY <1>0 DEF CountedOnce
    <3>2. x \in Nat
      BY <1>a
    <3>3. lost' = lost + Len(log) + x /\ Len(log') = 0 /\ pc' = "idle"
      OBVIOUS
    <3>4. recorded' = recorded /\ api' = api
      OBVIOUS
    <3> HIDE <1>9 DEF x, Crash
    <3>5. recorded = api.count + 0 + (lost + Len(log) + x) + 0
      BY <1>a, <3>1, <3>2
    <3>6. QED
      BY <3>3, <3>4, <3>5 DEF CountedOnce
  <2>5. QED
    BY SMTT(40), <1>0, <2>1, <2>2, <2>3, <2>4, SyncAssumption DEF IInv, ActiveCountExact
<1>10. QED
  BY <1>1, <1>3, <1>4, <1>5, <1>6, <1>7, <1>8, <1>9 DEF Synchroniser

\* The inductive invariant of the status synchroniser.
THEOREM Induction ==
    ASSUME FreshReads
    PROVE  Spec => []IInv
<1>1. Init => IInv
  BY InitIInv
<1>2. IInv /\ [Next]_vars => IInv'
  <2> SUFFICES ASSUME IInv, [Next]_vars PROVE IInv'
    OBVIOUS
  <2>1. CASE Environment
    BY <2>1, EnvironmentIInv
  <2>2. CASE Synchroniser
    BY <2>2, SynchroniserIInv
  <2>3. CASE UNCHANGED vars
    BY ZenonT(30), <2>3 DEF vars, buffer, history, IInv, TypeOK, WellFormed, ActiveCountExact, HistoryInv,
                CycleInv, LogInv, CountedOnce, StableIDs, AcknowledgedIsFinal,
                LoggedOnceWhenWritten, SameStatus
  <2>4. QED
    BY <2>1, <2>2, <2>3 DEF Next
<1>3. QED
  BY <1>1, <1>2, PTL DEF Spec

\* IDs are unique and keep their meaning and a flow has one record, in every
\* version of the object, whatever patches fail, answers get lost, users edit
\* and controllers crash (mergeScrapedViolations).
THEOREM IDsKeepTheirMeaning ==
    ASSUME FreshReads
    PROVE  Spec => [](TypeOK /\ UniqueIDs /\ StableIDs /\ OneRecordPerFlow)
<1>1. IInv => TypeOK /\ StableIDs
  BY DEF IInv, HistoryInv
<1>2. IInv => UniqueIDs
  BY DEF IInv, WellFormed, UniqueIDs
<1>3. IInv => OneRecordPerFlow
  BY ZenonT(30) DEF IInv, WellFormed, OneRecordPerFlow
<1>4. QED
  BY <1>1, <1>2, <1>3, Induction, PTL

\* ActiveViolationCount is the number of active records in every version of
\* the object: a merge patch that names one of the two fields names the other
\* when it has to (processWorkloadNetworkPolicy).
THEOREM ActiveCountRight ==
    ASSUME FreshReads
    PROVE  Spec => []ActiveCountExact
<1>1. IInv => ActiveCountExact
  BY DEF IInv
<1>2. QED
  BY <1>1, Induction, PTL

\* An acknowledged violation is not active again under its ID, whatever is
\* retried or lost between the status patch and the annotation patch
\* (acknowledgeViolationsFromAnnotations).
THEOREM AcknowledgedForGood ==
    ASSUME FreshReads
    PROVE  Spec => []AcknowledgedIsFinal
<1>1. IInv => AcknowledgedIsFinal
  BY DEF IInv, HistoryInv
<1>2. QED
  BY <1>1, Induction, PTL

\* The log record of an acknowledgement follows the write of the status that
\* holds it, and is the only one (the ordering guard of
\* processWorkloadNetworkPolicy).
THEOREM LogFollowsWrite ==
    ASSUME FreshReads
    PROVE  Spec => []LoggedOnceWhenWritten
<1>1. IInv => LoggedOnceWhenWritten
  BY DEF IInv, LogInv
<1>2. QED
  BY <1>1, Induction, PTL

\* Every observation ever recorded is in the total, in the buffer, in the cycle
\* under way or lost, and in one of them only: none is counted twice when the
\* answer to a patch gets lost (RecomputeStatus and the drained buffer of
\* processWorkloadNetworkPolicy).
THEOREM NothingCountedTwice ==
    ASSUME FreshReads
    PROVE  Spec => []CountedOnce
<1>1. IInv => CountedOnce
  BY DEF IInv
<1>2. QED
  BY <1>1, Induction, PTL

\* A policy that has annotations of its own keeps having them, in every copy.
OtherKept == api.other /\ cache.other /\ base.other /\ new.other

\* On a policy with other annotations, an acknowledgement a user added stays
\* until it has been carried out (the annotation patch of
\* processWorkloadNetworkPolicy names the keys it removes).
THEOREM AcknowledgementsKept ==
    ASSUME FreshReads, ~Bare
    PROVE  Spec => AnnotationsSurvive
<1>1. Init => OtherKept
  <2>1. Fresh.other = ~Bare
    BY DEF Fresh
  <2>2. QED
    BY ZenonT(30), <2>1 DEF Init, OtherKept
<1>2. IInv /\ OtherKept /\ [Next]_vars => OtherKept'
  <2> SUFFICES ASSUME IInv, OtherKept, [Next]_vars PROVE OtherKept'
    OBVIOUS
  <2> USE DEF OtherKept
  <2>0. api \in Policy /\ cache \in Policy /\ base \in Policy /\ new \in Policy
    BY DEF IInv, TypeOK
  <2>1. CASE Environment
    <3>1. ASSUME NEW A, EditTemplate(A) PROVE OtherKept'
      BY <2>0, <3>1 DEF EditTemplate, Policy
    <3>2. ASSUME NEW id, Annotate(id) PROVE OtherKept'
      BY <2>0, <3>2 DEF Annotate, Policy
    <3>3. QED
      BY ZenonT(30), <2>1, <3>1, <3>2 DEF Environment, Observe, Tick, Deliver
  <2>2. CASE Sync
    <3>1. SameStatus(cache, api) /\ WellFormed(api) /\ log \in Seq(Observation) /\ now \in Times
      BY <2>2 DEF Sync, IInv, CycleInv, TypeOK
    <3>2. WellFormed(cache)
      BY ZenonT(30), <3>1 DEF WellFormed, SameStatus
    <3>3. Evolves(cache, new', log)
      BY <2>0, <2>2, <3>1, <3>2, RecomputedEvolves DEF Sync
    <3>4. QED
      BY ZenonT(30), <2>2, <3>3 DEF Evolves, Sync
  <2>3. CASE PatchStatus \/ PatchStatusNoAnswer
    <3>1. StatusPatched.other = api.other
      BY ZenonT(30), <2>0 DEF StatusPatched, Policy
    <3>2. QED
      BY ZenonT(30), <2>3, <3>1 DEF PatchStatus, PatchStatusNoAnswer, ApplyStatusPatch
  <2>4. CASE PatchAnnotations
    <3>1. AnnotationsPatched.other = api.other
      BY ZenonT(30), <2>0 DEF AnnotationsPatched, Policy
    <3>2. QED
      BY <2>4, <3>1 DEF PatchAnnotations
  <2>5. CASE PatchStatusError \/ Emit \/ PatchAnnotationsError \/ Crash
    BY <2>5 DEF PatchStatusError, Emit, PatchAnnotationsError, Crash
  <2>6. CASE UNCHANGED vars
    BY <2>6 DEF vars
  <2>7. QED
    BY <2>1, <2>2, <2>3, <2>4, <2>5, <2>6 DEF Next, Synchroniser
<1>3. IInv /\ OtherKept /\ [Next]_vars => [api.annos \ api'.annos \subseteq final]_vars
  <2> SUFFICES ASSUME IInv, OtherKept, Next PROVE api.annos \ api'.annos \subseteq final
    OBVIOUS
  <2>0. api \in Policy
    BY DEF IInv, TypeOK
  <2>1. CASE Environment
    <3>1. ASSUME NEW A, EditTemplate(A) PROVE api'.annos = api.annos
      BY <2>0, <3>1 DEF EditTemplate, Policy
    <3>2. ASSUME NEW id, Annotate(id) PROVE api.annos \subseteq api'.annos
      BY <2>0, <3>2 DEF Annotate, Policy
    <3>3. QED
      BY ZenonT(30), <2>1, <3>1, <3>2 DEF Environment, Observe, Tick, Deliver
  <2>2. CASE PatchStatus \/ PatchStatusNoAnswer
    <3>1. StatusPatched.annos = api.annos
      BY <2>0 DEF StatusPatched, Policy
    <3>2. QED
      BY ZenonT(30), <2>2, <3>1 DEF PatchStatus, PatchStatusNoAnswer, ApplyStatusPatch
  <2>3. CASE PatchAnnotations
    <3>1. base.annos \ new.annos \subseteq final
      BY <2>3 DEF PatchAnnotations, IInv, LogInv, NewlyAcknowledged
    <3>2. api.annos \ AnnotationsPatched.annos \subseteq base.annos \ new.annos
      BY <2>0 DEF AnnotationsPatched, Policy, OtherKept
    <3>3. QED
      BY <2>3, <3>1, <3>2 DEF PatchAnnotations
  <2>4. CASE Sync \/ PatchStatusError \/ Emit \/ PatchAnnotationsError \/ Crash
    BY <2>4 DEF Sync, PatchStatusError, Emit, PatchAnnotationsError, Crash
  <2>5. QED
    BY <2>1, <2>2, <2>3, <2>4 DEF Next, Synchroniser
<1>4. QED
  BY <1>1, <1>2, <1>3, Induction, PTL DEF Spec, AnnotationsSurvive
=============================================================================
