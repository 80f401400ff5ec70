-------------------------- MODULE RecomputeStatus -------------------------
(***************************************************************************)
(* RecomputeStatus (api/v1alpha1/violation_record.go) with the lists and   *)
(* the loops of the code: the merge that looks up and appends one          *)
(* observation after the other, the stable newest-first sorts, the cuts at *)
(* the end of the lists, and the deletions in place.  It must do what      *)
(* module ViolationStatus says.                                            *)
(***************************************************************************)
EXTENDS ViolationStatus, SequencesExt

\* A stable sort by falling timestamp: each record goes behind the ones that
\* are as new or newer.
NewestFirst(list, age) ==
    FoldLeft(LAMBDA sorted, r :
                 InsertAt(sorted, Cardinality({i \in DOMAIN sorted : sorted[i][age] >= r[age]}) + 1, r),
             << >>, list)

Cut(list) == SubSeq(list, 1, IF Len(list) > MaxRecords THEN MaxRecords ELSE Len(list))

\* One turn of the loop in mergeScrapedViolations.
MergeOne(st, o) ==
    LET known == {i \in DOMAIN st.violations : st.violations[i].key = o.key}
    IN  [violations |-> IF known = {}
                          THEN Append(st.violations, [key |-> o.key, ts |-> o.ts, id |-> st.count])
                          ELSE [i \in DOMAIN st.violations |->
                                   IF i \in known /\ o.ts > st.violations[i].ts
                                     THEN [st.violations[i] EXCEPT !.ts = o.ts]
                                     ELSE st.violations[i]],
         count |-> st.count + 1]

\* Mutant: the list is sorted, then merged.
MergeAfterSort(w, obs) ==
    LET st == FoldLeft(MergeOne, [violations |-> NewestFirst(w.violations, "ts"), count |-> w.count], obs)
    IN  [w EXCEPT !.violations = Cut(st.violations), !.count = st.count]

MergeScrapedViolations(w, obs) ==
    LET st == FoldLeft(MergeOne, [violations |-> w.violations, count |-> w.count], obs)
    IN  [w EXCEPT !.violations = Cut(NewestFirst(st.violations, "ts")), !.count = st.count]

ClearAllowedViolations(w) ==
    [w EXCEPT !.violations = SelectSeq(@, LAMBDA v : v.key \notin w.allowed)]

\* Without annotations the function returns before it touches the lists.
AcknowledgeViolationsFromAnnotations(w, t) ==
    LET hit == SelectSeq(w.violations, LAMBDA v : v.id \in w.annos)
        new == [i \in DOMAIN hit |-> [key |-> hit[i].key, id |-> hit[i].id, at |-> t]]
    IN  IF w.annos = {}
          THEN w
          ELSE [w EXCEPT !.violations = SelectSeq(@, LAMBDA v : v.id \notin w.annos),
                         !.annos = @ \ IdsOf(ToSet(hit)),
                         !.acked = Cut(NewestFirst(@ \o new, "at"))]

RecomputeStatus(w, obs, t) ==
    LET merged == MergeScrapedViolations(w, obs)
        acked  == AcknowledgeViolationsFromAnnotations(ClearAllowedViolations(merged), t)
    IN  [acked EXCEPT !.active = Len(acked.violations), !.obsGen = w.gen]
=============================================================================
