---------------------------- MODULE StatusSync ----------------------------
(***************************************************************************)
(* The violation pipeline of one WorkloadNetworkPolicy: scrapers record    *)
(* observations in the ring buffer; the status synchroniser periodically   *)
(* lists the policy from the informer cache, drains the buffer, recomputes *)
(* the status and writes it back in two patches, first the status, then    *)
(* the annotations, logging the acknowledgements in between                *)
(* (internal/controller/workloadnetworkpolicystatus_sync.go).              *)
(*                                                                         *)
(* The cache lags behind the API server, either patch can fail or be       *)
(* applied without an answer, users edit the policy at any moment, and the *)
(* controller can crash between any two steps.                             *)
(***************************************************************************)
EXTENDS ViolationStatus

CONSTANTS BufferSize,       \* capacity of the ring buffer
          MaxObservations,  \* bound: observations recorded
          MaxEdits,         \* bound: user edits of template and annotations
          MaxFaults,        \* bound: failed patches and crashes
          FreshReads,       \* the cache shows the last status write by the next cycle
          Bare              \* the policy has no annotations but acknowledgements

ASSUME SyncAssumption ==
    /\ BufferSize \in Nat \ {0}
    /\ FreshReads \in BOOLEAN
    /\ Bare \in BOOLEAN

VARIABLES api,      \* the policy, as the API server has it
          cache,    \* the policy, as the informer cache has it
          seen,     \* the cache has caught up with the last status write
          log, dropped, drained,   \* the ring buffer, see BoundedLog
          now,      \* the clock
          pc,       \* where the sync loop is
          base,     \* the listed policy, base of both patches
          new,      \* the recomputed policy
          emitted,  \* IDs for which an acknowledgement log was emitted
          edits, faults,
          \* History, for the properties only.
          recorded, \* observations recorded so far
          lost,     \* of those, the ones gone without being counted
          issued,   \* every [id, key] the status has ever shown
          final     \* IDs of the acknowledgements written so far

buffer == <<log, dropped, drained>>
history == <<recorded, lost, issued, final>>
vars == <<api, cache, seen, buffer, now, pc, base, new, emitted, edits, faults, history>>

Buffer == INSTANCE BoundedLog WITH Records <- Observation, Capacity <- BufferSize

\* A policy just created, with the defaults of its status fields.
Fresh == [gen |-> 1, allowed |-> {}, annos |-> {}, other |-> ~Bare,
          violations |-> {}, acked |-> {}, count |-> 0, active |-> 0, obsGen |-> 0]

Init ==
    /\ api = Fresh
    /\ cache = Fresh
    /\ seen = TRUE
    /\ Buffer!Init
    /\ now \in Times
    /\ pc = "idle"
    /\ base = Fresh
    /\ new = Fresh
    /\ emitted = {}
    /\ edits = 0
    /\ faults = 0
    /\ recorded = 0
    /\ lost = 0
    /\ issued = {}
    /\ final = {}

---------------------------------------------------------------------------
(* The environment *)

\* A scraper, or the learning reconciler in monitor mode, records a flow seen
\* at time t, possibly long before now.
Observe(k, t) ==
    /\ recorded < MaxObservations
    /\ t <= now
    /\ Buffer!Record([key |-> k, ts |-> t])
    /\ recorded' = recorded + 1
    /\ lost' = IF dropped' THEN lost + 1 ELSE lost
    /\ UNCHANGED <<api, cache, seen, now, pc, base, new, emitted, edits, faults, issued, final>>

Tick ==
    /\ now + 1 \in Times
    /\ now' = now + 1
    /\ UNCHANGED <<api, cache, seen, buffer, pc, base, new, emitted, edits, faults, history>>

\* A user changes the template, so that it permits exactly the flows in A.
EditTemplate(A) ==
    /\ edits < MaxEdits
    /\ A # api.allowed
    /\ api' = [api EXCEPT !.allowed = A, !.gen = @ + 1]
    /\ edits' = edits + 1
    /\ UNCHANGED <<cache, seen, buffer, now, pc, base, new, emitted, faults, history>>

\* A user adds the annotation networkenforcer.kubewarden.io/acknowledge-<id>.
Annotate(id) ==
    /\ edits < MaxEdits
    /\ id \notin api.annos
    /\ api' = [api EXCEPT !.annos = @ \union {id}]
    /\ edits' = edits + 1
    /\ UNCHANGED <<cache, seen, buffer, now, pc, base, new, emitted, faults, history>>

\* The watch brings the cache up to date.
Deliver ==
    /\ cache # api
    /\ cache' = api
    /\ seen' = TRUE
    /\ UNCHANGED <<api, buffer, now, pc, base, new, emitted, edits, faults, history>>

---------------------------------------------------------------------------
(* The synchroniser *)

\* Mutant: nothing is recomputed without new observations.
SyncIfObserved ==
    /\ pc = "idle"
    /\ FreshReads => seen
    /\ Buffer!Drain
    /\ base' = cache
    /\ new' \in IF log = << >> THEN {cache} ELSE Recomputed(cache, log, now)
    /\ pc' = "status"
    /\ UNCHANGED <<api, cache, seen, now, emitted, edits, faults, history>>

\* sync up to the first patch: list from the cache, drain, correlate, recompute.
Sync ==
    /\ pc = "idle"
    /\ FreshReads => seen
    /\ Buffer!Drain
    /\ base' = cache
    /\ new' \in Recomputed(cache, log, now)
    /\ pc' = "status"
    /\ UNCHANGED <<api, cache, seen, now, emitted, edits, faults, history>>

\* Mutant: the patch carries the list but not its length.
StatusPatchedWithoutCount ==
    LET Patch(a, b, n) == IF b = n THEN a ELSE n
    IN  [api EXCEPT !.violations = Patch(@, base.violations, new.violations),
                    !.acked      = Patch(@, base.acked, new.acked),
                    !.count      = Patch(@, base.count, new.count),
                    !.obsGen     = Patch(@, base.obsGen, new.obsGen)]

\* A JSON merge patch sends the status fields that differ from the base and
\* leaves the others as the server has them.  No resourceVersion is sent, so
\* the patch applies whatever the server has by now.
StatusPatched ==
    LET Patch(a, b, n) == IF b = n THEN a ELSE n
    IN  [api EXCEPT !.violations = Patch(@, base.violations, new.violations),
                    !.acked      = Patch(@, base.acked, new.acked),
                    !.count      = Patch(@, base.count, new.count),
                    !.active     = Patch(@, base.active, new.active),
                    !.obsGen     = Patch(@, base.obsGen, new.obsGen)]

\* The server applies the status patch.
ApplyStatusPatch ==
    /\ api' = StatusPatched
    /\ seen' = (seen /\ api' = api)
    /\ issued' = issued \union {[id |-> v.id, key |-> v.key] :
                                    v \in api'.violations \union api'.acked}
    /\ final' = final \union NewlyAcknowledged(base, new)

PatchStatus ==
    /\ pc = "status"
    /\ ApplyStatusPatch
    /\ pc' = "emit"
    /\ UNCHANGED <<cache, buffer, now, base, new, emitted, edits, faults, recorded, lost>>

\* Mutant: the error of the status patch is logged and the function goes on.
PatchStatusErrorIgnored ==
    /\ pc = "status"
    /\ faults < MaxFaults
    /\ pc' = "emit"
    /\ faults' = faults + 1
    /\ lost' = lost + Len(drained)
    /\ UNCHANGED <<api, cache, seen, buffer, now, base, new, emitted, edits, recorded, issued, final>>

\* The status patch fails: sync logs the error and the drained observations
\* are gone.
PatchStatusError ==
    /\ pc = "status"
    /\ faults < MaxFaults
    /\ pc' = "idle"
    /\ faults' = faults + 1
    /\ lost' = lost + Len(drained)
    /\ UNCHANGED <<api, cache, seen, buffer, now, base, new, emitted, edits, recorded, issued, final>>

\* Mutant: an error of the patch puts the observations back for a retry.
PatchStatusNoAnswerRetried ==
    /\ pc = "status"
    /\ faults < MaxFaults
    /\ ApplyStatusPatch
    /\ pc' = "idle"
    /\ faults' = faults + 1
    /\ log' = drained \o log
    /\ UNCHANGED <<cache, dropped, drained, now, base, new, emitted, edits, recorded, lost>>

\* The status patch is applied but its answer is lost: an error for sync.
PatchStatusNoAnswer ==
    /\ pc = "status"
    /\ faults < MaxFaults
    /\ ApplyStatusPatch
    /\ pc' = "idle"
    /\ faults' = faults + 1
    /\ UNCHANGED <<cache, buffer, now, base, new, emitted, edits, recorded, lost>>

\* emitAcknowledgedViolations: one log record per acknowledged violation.
Emit ==
    /\ pc = "emit"
    /\ emitted' = emitted \union NewlyAcknowledged(base, new)
    /\ pc' = "annotations"
    /\ UNCHANGED <<api, cache, seen, buffer, now, base, new, edits, faults, history>>

\* The annotation patch names the removed annotations, unless none is left:
\* then the annotations field disappears from the new object, and the patch
\* removes the whole field, whatever it holds on the server by now.
AnnotationsPatched ==
    IF new.annos = base.annos
      THEN api
      ELSE IF new.annos = {} /\ ~new.other
             THEN [api EXCEPT !.annos = {}, !.other = FALSE]
             ELSE [api EXCEPT !.annos = @ \ (base.annos \ new.annos)]

\* Mutant: the patch removes every acknowledgement annotation there is.
AllAnnotationsPatched ==
    /\ pc = "annotations"
    /\ api' = [api EXCEPT !.annos = {}]
    /\ pc' = "idle"
    /\ UNCHANGED <<cache, seen, buffer, now, base, new, emitted, edits, faults, history>>

PatchAnnotations ==
    /\ pc = "annotations"
    /\ api' = AnnotationsPatched
    /\ pc' = "idle"
    /\ UNCHANGED <<cache, seen, buffer, now, base, new, emitted, edits, faults, history>>

PatchAnnotationsError ==
    /\ pc = "annotations"
    /\ faults < MaxFaults
    /\ pc' = "idle"
    /\ faults' = faults + 1
    /\ UNCHANGED <<api, cache, seen, buffer, now, base, new, emitted, edits, history>>

\* The controller restarts anywhere: the buffer is empty and the cache is
\* filled from the API server before the sync loop starts.
Crash ==
    /\ faults < MaxFaults
    /\ faults' = faults + 1
    /\ pc' = "idle"
    /\ cache' = api
    /\ seen' = TRUE
    /\ log' = << >>
    /\ drained' = << >>
    /\ lost' = lost + Len(log) + (IF pc = "status" THEN Len(drained) ELSE 0)
    /\ UNCHANGED <<api, dropped, now, base, new, emitted, edits, recorded, issued, final>>

---------------------------------------------------------------------------

Ids == 0 .. MaxObservations - 1

Environment ==
    \/ \E k \in Keys, t \in Times : Observe(k, t)
    \/ \E A \in SUBSET Keys : EditTemplate(A)
    \/ \E id \in Ids : Annotate(id)
    \/ Tick
    \/ Deliver

Synchroniser ==
    \/ Sync
    \/ PatchStatus
    \/ PatchStatusError
    \/ PatchStatusNoAnswer
    \/ Emit
    \/ PatchAnnotations
    \/ PatchAnnotationsError
    \/ Crash

Next == Environment \/ Synchroniser

Spec == Init /\ [][Next]_vars

\* The ticker fires again and again, the watch delivers, and a patch that is
\* tried often enough gets through (only MaxFaults of them fail).
Fairness ==
    /\ WF_vars(Deliver)
    /\ WF_vars(Sync)
    /\ WF_vars(PatchStatus)
    /\ WF_vars(Emit)
    /\ WF_vars(PatchAnnotations)

FairSpec == Spec /\ Fairness
---------------------------------------------------------------------------
(* Properties *)

TypeOK ==
    /\ api \in Policy
    /\ cache \in Policy
    /\ seen \in BOOLEAN
    /\ log \in Seq(Observation)
    /\ dropped \in BOOLEAN
    /\ drained \in Seq(Observation)
    /\ now \in Times
    /\ pc \in {"idle", "status", "emit", "annotations"}
    /\ base \in Policy
    /\ new \in Policy
    /\ emitted \subseteq Nat
    /\ edits \in Nat
    /\ faults \in Nat
    /\ recorded \in Nat
    /\ lost \in Nat
    /\ issued \subseteq [id : Nat, key : Keys]
    /\ final \subseteq Nat

\* An ID names one record of the policy, active or acknowledged, and every ID
\* in use is below the counter the next one is taken from (the ID field of
\* ViolationRecord, mergeScrapedViolations).
UniqueIDs ==
    LET all == api.violations \union api.acked
    IN  /\ \A r, s \in all : r.id = s.id => r = s
        /\ \A r \in all : r.id < api.count

\* An ID keeps its meaning: whatever the status has shown under it, then or
\* now, active or acknowledged, was the same flow, so an acknowledgement a user
\* wrote down earlier cannot hit another flow.
StableIDs ==
    \A p, q \in issued : p.id = q.id => p = q

\* A flow has at most one active record: observations of a known flow refresh
\* its record (indexByKey of mergeScrapedViolations).
OneRecordPerFlow ==
    \A v, w \in api.violations : v.key = w.key => v = w

\* ActiveViolationCount is the length of Violations in every version of the
\* object, although the two are separate fields of a merge patch.
ActiveCountExact == api.active = Cardinality(api.violations)

\* An acknowledged violation is never active again under its ID, whatever was
\* stale, retried or lost between the two patches.
AcknowledgedIsFinal == IdsOf(api.violations) \intersect final = {}

\* The log record of an acknowledgement is emitted after the status that holds
\* it was written, and never twice (the ordering guard of
\* processWorkloadNetworkPolicy).
LoggedOnceWhenWritten ==
    pc = "emit" => /\ NewlyAcknowledged(base, new) \intersect emitted = {}
                   /\ NewlyAcknowledged(base, new) \subseteq final

\* Every observation is in the count, in the buffer, on its way, or lost to
\* an overwrite, a failed patch or a crash: none is counted twice, not even
\* when the answer to a patch is lost.
CountedOnce ==
    recorded = api.count + Len(log) + lost + (IF pc = "status" THEN Len(drained) ELSE 0)

\* An acknowledgement a user added stays until it has been carried out, also
\* when it was added while a cycle was under way.
AnnotationsSurvive ==
    [][api.annos \ api'.annos \subseteq final]_vars

\* A violation a user acknowledged leaves the active list.
AcknowledgementApplied ==
    \A id \in Ids : (id \in api.annos /\ id \in IdsOf(api.violations))
                        ~> id \notin IdsOf(api.violations)
=============================================================================
