---------------------------- MODULE StatusDecision ----------------------------
(***************************************************************************)
(* Questions about RecomputeStatus: every status that earlier cycles can    *)
(* have left, up to renaming flows, with every batch of observations.       *)
(* Flows that are not in the list are interchangeable, so the list names   *)
(* them in order.                                                          *)
(***************************************************************************)
EXTENDS RecomputeStatus, Decision

CONSTANT MaxBatch  \* bound: observations per cycle

FlowOrder == SetToSeq(Keys)

Newest == CHOOSE t \in Times : \A u \in Times : u <= t

(* IDs 0 to 2 are active or gone, 3 and 4 acknowledged.  Timestamps of      *)
(* known flows move, so IDs and timestamps need not be in the same order.   *)
ActiveLists ==
    {list \in BoundedSeq([key : Keys, ts : Times, id : 0 .. 2], MaxRecords) :
        /\ \A i \in DOMAIN list : list[i].key = FlowOrder[i]
        /\ \A i, j \in DOMAIN list :
              i < j => list[i].ts >= list[j].ts /\ list[i].id # list[j].id}

AckedLists ==
    {list \in BoundedSeq([key : {FlowOrder[1]}, id : {3, 4}, at : Times], MaxRecords) :
        \A i, j \in DOMAIN list : i < j => list[i].at >= list[j].at /\ list[i].id # list[j].id}

Statuses ==
    {[gen |-> 2, allowed |-> allowed, annos |-> annos, other |-> FALSE, violations |-> violations,
      acked |-> acked, count |-> 5, active |-> Len(violations), obsGen |-> 1] :
        allowed \in {{}} \cup {{k} : k \in Keys}, annos \in {{}, {0}, {1}, {0, 1}, {5}},
        violations \in ActiveLists, acked \in AckedLists}

StatusQuestions ==
    [about : {"status"}, policy : Statuses, scraped : BoundedSeq(Observation, MaxBatch)]

Recompute == Decide("status", {RecomputeStatus(question.policy, question.scraped, Newest)})

-----------------------------------------------------------------------------
(* The two lists as sets: the view of module ViolationStatus. *)
View(w) == [w EXCEPT !.violations = ToSet(@), !.acked = ToSet(@)]

(* Every run of RecomputeStatus has a result that ViolationStatus allows:   *)
(* it dedups by flow, issues IDs by the place of the observation in the     *)
(* history, drops only the oldest records, never a newer one for an older   *)
(* one, and moves exactly the acknowledged ones.  Both lists stay ordered   *)
(* newest first, also after deletions in the middle and refreshed           *)
(* timestamps, so that the cut at the end of the next cycle is again a cut  *)
(* of the oldest records (mergeScrapedViolations,                          *)
(* acknowledgeViolationsFromAnnotations).                                  *)
DoesWhatItPromises ==
    About("status") =>
        \A w \in answer :
            /\ View(w) \in Recomputed(View(question.policy), question.scraped, Newest)
            /\ Len(w.violations) <= MaxRecords /\ Len(w.acked) <= MaxRecords
            /\ \A i, j \in DOMAIN w.violations : i < j => w.violations[i].ts >= w.violations[j].ts
            /\ \A i, j \in DOMAIN w.acked : i < j => w.acked[i].at >= w.acked[j].at
==============================================================================
