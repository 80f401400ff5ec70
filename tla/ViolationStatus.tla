------------------------- MODULE ViolationStatus --------------------------
(***************************************************************************)
(* What RecomputeStatus (api/v1alpha1/violation_record.go) does to the     *)
(* status of one WorkloadNetworkPolicy: merge the scraped observations,    *)
(* drop what the policy template now allows, move what the user            *)
(* acknowledged.                                                           *)
(*                                                                         *)
(* The two record lists are sets here.  Their order decides only which of  *)
(* several equally old records a full list drops, so that choice is left   *)
(* open; module RecomputeStatus has the lists and the loops of the code    *)
(* and is checked against this one.                                        *)
(***************************************************************************)
EXTENDS Naturals, Sequences, FiniteSets

CONSTANTS Keys,        \* ViolationRecordKey: the dedup key of a flow
          Times,       \* timestamps, one-second granularity
          MaxRecords   \* maxViolationRecords

ASSUME StatusAssumption ==
    /\ Times \subseteq Nat
    /\ MaxRecords \in Nat \ {0}

Observation == [key : Keys, ts : Times]
Violation == [key : Keys, ts : Times, id : Nat]
Acknowledged == [key : Keys, id : Nat, at : Times]

\* The part of a WorkloadNetworkPolicy that RecomputeStatus reads or writes.
Policy == [gen : Nat,                      \* metadata.generation
           allowed : SUBSET Keys,          \* flows the template permits
           annos : SUBSET Nat,             \* acknowledge-<id> annotations
           other : BOOLEAN,                \* has annotations of other kinds
           violations : SUBSET Violation,  \* status.violations
           acked : SUBSET Acknowledged,    \* status.acknowledgedViolations
           count : Nat,                    \* status.violationCount
           active : Nat,                   \* status.activeViolationCount
           obsGen : Nat]                   \* status.observedGeneration

KeysOf(S) == {r.key : r \in S}
IdsOf(S) == {r.id : r \in S}

\* The times at which obs reports key k, and the newest of a set of times.
SeenAt(obs, k) == {obs[i].ts : i \in {j \in DOMAIN obs : obs[j].key = k}}
Latest(T) == {t \in T : \A u \in T : u <= t}

\* A known flow keeps its record and its ID; only its timestamp moves, forward.
Refreshed(violations, obs) ==
    UNION {{[v EXCEPT !.ts = t] : t \in Latest({v.ts} \union SeenAt(obs, v.key))} :
               v \in violations}

\* The places of obs where a flow without a record is seen for the first time.
FirstSeen(violations, obs) ==
    {i \in DOMAIN obs : /\ obs[i].key \notin KeysOf(violations)
                        /\ \A j \in 1 .. i - 1 : obs[j].key # obs[i].key}

\* Mutant: the ID counts the records instead of the observations.
AddedByRecord(violations, obs, count) ==
    UNION {{[key |-> obs[i].key, ts |-> t, id |-> Cardinality(violations) + i - 1] :
                t \in Latest(SeenAt(obs, obs[i].key))} : i \in FirstSeen(violations, obs)}

\* Each gets a record.  ViolationCount advances once per observation, so the
\* ID of a record is its observation's place in the history of the policy.
Added(violations, obs, count) ==
    UNION {{[key |-> obs[i].key, ts |-> t, id |-> count + i - 1] :
                t \in Latest(SeenAt(obs, obs[i].key))} : i \in FirstSeen(violations, obs)}

Merged(violations, obs, count) ==
    Refreshed(violations, obs) \union Added(violations, obs, count)

\* The ways to keep the newest MaxRecords of S by the timestamp in field age.
Truncations(S, age) ==
    IF Cardinality(S) <= MaxRecords
      THEN {S}
      ELSE {K \in SUBSET S : /\ Cardinality(K) = MaxRecords
                             /\ \A r \in K, s \in S \ K : r[age] >= s[age]}

\* clearAllowedViolations: the flows the template permits leave the list.
Uncleared(w, kept) == {v \in kept : v.key \notin w.allowed}

\* acknowledgeViolationsFromAnnotations: the records users have acknowledged,
\* and the acknowledged list with them added.
Hit(w, kept) == {v \in Uncleared(w, kept) : v.id \in w.annos}

AckedWith(w, kept, now) ==
    w.acked \union {[key |-> v.key, id |-> v.id, at |-> now] : v \in Hit(w, kept)}

\* The policy w after the cycle, given the records that survive truncation.
WithStatus(w, obs, kept, ackedKept) ==
    LET active == Uncleared(w, kept) \ Hit(w, kept)
    IN  [w EXCEPT !.violations = active,
                  !.acked      = ackedKept,
                  !.annos      = w.annos \ IdsOf(Hit(w, kept)),
                  !.count      = w.count + Len(obs),
                  !.active     = Cardinality(active),
                  !.obsGen     = w.gen]

\* The results RecomputeStatus can have on policy w: merge, truncate, clear,
\* acknowledge, truncate the acknowledged list, count.
Recomputed(w, obs, now) ==
    UNION {{WithStatus(w, obs, kept, ackedKept) :
               ackedKept \in Truncations(AckedWith(w, kept, now), "at")} :
           kept \in Truncations(Merged(w.violations, obs, w.count), "ts")}

\* The IDs RecomputeStatus reports as newly acknowledged: the annotations it
\* removed.
NewlyAcknowledged(w, n) == w.annos \ n.annos
=============================================================================
